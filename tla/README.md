# A verification development for the 3dbw vibration recorder

The repository holds the firmware of an ESP32 board with an IIS3DWB vibration sensor, the
Raspberry Pi program that records what up to two such boards send (`rpi-collector`), a tool
that flashes and configures boards (`sensor-setup-py`) and a board test (`boardcheck`). This
directory models the state and the concurrency of these programs in TLA+, checks the models with
TLC on small instances and proves the most important properties for every instance with TLAPS.

Paths below are relative to the repository.

## 1. Inventory

| component | state it keeps | operations | talks to |
|---|---|---|---|
| recording channel (`rpi-collector/session.py` `Channel`, `Collector`) | `state`, `writer`, `_timer`, `run_index`, base counters, last result | `_on_trigger`, `start_manual`, `preflight`, `start`, `stop`, `close`, `set_din` | all of the collector's parts; called by three kinds of threads |
| link reader (`sensor_link.py` `SensorLink`, `UdpLink`) | `recording`, resync events, statistics, assembly buffer | `flush`, `_loop` | serial driver or socket; puts into the channel's queue |
| parser and loss counter (`iis3dwb_packet.py`) | `SeqTracker.last`, `lost` | `parse_header`, `update` | the reader |
| writer (`writer.py`) | file, `_stop`, error, counts | `start`, `stop`, `_loop` | takes from the channel's queue |
| photo sensor (`trigger.py`, `gpio_cdev.py`) | handle, edge counter, watcher thread | `start`, `stop`, `_on_edge` | calls `_on_trigger` |
| USB slots and sensor map (`slots.py`, `settings.py`) | `slots.json`, `settings.json` | `resolve`, `auto_assign`, `suggest_names`, `load_*`, `save_*` | channel construction, preflight |
| front ends (`collector_gui.py`, `collect_cli.py`) | questions, `after_idle`, `Collector.channels` | reopen, renumber, change source, input, level, size; start, stop, close, wait for the end | `Collector`, the maps |
| converter (`bin_to_csv.py`) | none | `iter_packets`, `convert`, `check` | files of the writer |
| streaming (`components/sensor_streamer`) | ring buffer, semaphore, `int_enabled`, statistics, `seq` | `sensor_task_fifo`, `sensor_task`, `tx_task`, `fifo_isr`, start, stop | sensor driver, UDP socket or serial driver |
| sensor driver (`components/iis3dwb`) | handle | reset, init, FIFO, interrupt routing | SPI |
| WiFi manager (`components/wifi_manager`) | event bits, retry count, timer, `is_connected` | init, event handler, retry timer, connect, wait, scan, deinit | ESP-IDF WiFi |
| serial protocol (`components/serial_protocol`) | line buffer | line commands, `set_wifi` | WiFi manager, configuration store |
| configuration store (`components/config_manager`) | NVS keys | save and load WiFi and stream settings, factory reset | NVS |
| boot and LED (`main/main.c`) | flags read by the LED task | `app_main`, reader task, LED task | all of the firmware |
| setup tool window (`sensor-setup-py/set_sensor_gui.py`) | list of boards, selection, `_busy`, `_cancel`, `_q`, form | find, read, flash, inject, factory reset, cancel, close; `_pump` | its worker thread |
| setup tool parts (`esp_flash.py`, `usb_reset.py`, `ports.py`, `boot_log.py`, `nvs_gen.py`, `nvs_read.py`, `fw_manifest.py`, `provision_log.py`) | `provisioned.json`; the board's flash and NVS | preflight, write with verification, recover, capture and compare the boot log, record | esptool, USB bridges, boards |
| board check (`boardcheck/boardcheck.py`) | rows, exit status | check one board, or all | esptool, the check firmware's console |
| packaging | archives | shell scripts | |

The data path is

    sensor FIFO -> sensor_task_fifo -> ring buffer -> tx_task -> serial line or UDP
      -> link reader -> queue -> writer thread -> run_NNNN.csv / .bin

### What is hard here

* **Interleavings.** A channel is worked on by the GPIO watcher's thread, the GUI thread, one
  timer thread per run, the reader and one writer thread per run. The lock covers only the test
  and set of `state`; all the rest of `start()` and `stop()` runs beside the other threads.
* **Shared queue.** All writers of a channel share one queue, and the reader tests `recording`
  before it puts, not while it puts.
* **Limits.** The queue, the FIFO and the ring buffer drop when full, each on its own side
  of the sequence numbers. `flush()` gives up after one second, `Writer.stop()` after ten.
* **Partial failure.** A full disk, a pulled cable, a missing interrupt, a failing SPI read.
* **Maps that change under running channels.** The window asks, rewrites `slots.json` and reopens,
  while photo sensors go on starting runs; ports and ttys change names under the setup tool.
* **Bytes and datagrams.** Packets are found again after cuts and losses by a magic number that may
  turn up in samples; datagrams come late, twice or never; files are cut off.
* **Firmware protocols.** An interrupt that masks itself; settings in several NVS writes;
  credentials that are tried before they are stored; a WiFi state read twice.

`PROJECT.json` lists each hazard at its line.

### What makes each part correct

* Channel: a run ends by itself and is recorded; between runs nothing is left at work; a result
  is final; a run that is called ok has no hole; files hold no packet twice or out of order.
* Collector: a channel that is closed stays silent; every sensor keeps the source, the number and
  the photo sensor that are set; runs fit on the disk; a run number is given once, whatever crashes;
  the program never waits for ever.
* Reader and loss counter: the packets do not depend on how bytes arrive; damage and loss show in a
  counter; the converter reads back what was written and counts the same.
* Writer: what `stop()` returned with is what the file holds.
* Streaming: samples in order, none twice; a hole always shows in a device counter or as a gap.
* FIFO interrupt: the task can always be woken; a broken line, and only that, leads to polling.
* WiFi: a device never stops trying; its status tells the truth; `set_wifi` stores only
  credentials that were tested; neither booting nor a command waits for ever.
* Boot: exactly one task reads the sensor.
* Setup tool and board check: a reported success is true; no board but the chosen one is written; the
  history tells what a board holds; a cancel stops its own job only; every job ends; each row and
  the exit status are about the boards they name.
* Configuration: a name is never stored with the password of another network, what was answered to be saved
  stays, and a boot follows the settings it began with.
* Streamer start: whichever step fails, what was taken is given back and the log comes back; text and packets do
  not mix on the line; the LED is green only while data flow.

## 2. The modules

| module | models | notes |
|---|---|---|
| `CollectChannel` | one channel with its reader, queue, timers and writers | the core of the collector |
| `CollectChannelInv` | the inductive invariants `FifoInv`, `CleanInv` and `HoleInv` | checked by TLC and proved |
| `CollectChannelProofs` | theorems about `CollectChannel` | |
| `FifoInterrupt` | `fifo_isr` and the loop of `sensor_task_fifo` | needs no bound at all |
| `StreamPipe` | FIFO to loss counter, rate steps 1 to 4 | `FifoInterrupt` says when the task wakes; here it may at any time |
| `StreamPipeProofs` | theorems about `StreamPipe` | |
| `WifiManager` | the WiFi manager on an external driver | |
| `DeviceBoot` | `app_main` and the serial protocol's task, the callers of `WifiManager` | extends `WifiManager` |
| `DeviceBootProofs` | theorems about `DeviceBoot` | |
| `PacketStream` | bytes to packets to loss counter to `.bin` and back; datagrams | its loops are recursive functions over byte strings |
| `SensorPathProofs` | theorems about `FifoInterrupt` and `PacketStream` | the two ends of a sensor's path |
| `Collector` | several channels, the maps, the window and the command line | its channels are `CollectChannel` seen from outside |
| `CollectorProofs` | theorems about `Collector`, the refinement of `RunBook` among them | |
| `RunBook` | what the collector promises about its runs | abstract; `Collector` implements it (checked and proved) |
| `UsbBench` | boards, sockets, ttys; esptool, recovery, boot logs | shared by the next two |
| `SetupTool` | the window, its worker and the queue between them | extends `UsbBench` |
| `BoardCheck` | the board check | extends `UsbBench` |
| `ProvisionBench` | one operator with both tools on the same boards | composes the two |
| `ProvisionBenchProofs` | theorems about `ProvisionBench`, and with it about both tools | |
| `ConfigStore` | the settings in the flash, key by key, with power cuts | beside `DeviceBoot`, which takes each of its operations as one step |
| `ConfigStoreProofs` | theorems about `ConfigStore` | |
| `StreamStart` | the end of `app_main`, the start of the streamer, its line, the LED | follows `DeviceBoot`, precedes `StreamPipe` |
| `StreamStartProofs` | theorems about `StreamStart` | |
| `MC...` | the instances TLC checks | |

`FifoInterrupt` and `StreamPipe` are two views of the same loop. The first knows only how many
samples are in the FIFO and follows the waiting; the second follows the samples and lets the
task wake at any time, so it covers every wake-up the first can produce. `StreamPipe` ends with
the counter that `CollectChannel` begins with (`SeqTracker`).

### CollectChannel

`state`, `chWriter`, `chTimer`, `base`, `recording`, `lost`, `drops` and `queue` are the fields of
the code. A packet is the ordinal number the device gave it; a run is the ordinal number of the
`start()` that passed the lock, and names the run's `Writer`, `Timer`, thread and file. `pc` is
where the GPIO and the GUI thread stand inside `start()`, `spc` where the one thread inside
`stop()` stands, `reader` and `wthread` where the other threads stand. `mark`, `nRuns` and
`result` are history.

Each action is a piece of code between two effects other threads can see:

| code | actions |
|---|---|
| `_on_trigger`, `start_manual`, `preflight` | `Trigger`, `StartManual`, `Preflight` |
| `start()` | `StartLock` (under the lock), `Setup`, `Flush`, `FlushWait`, `SetBase`, `MakeWriter`, `StartWriter`, `RecordingOn`, `ArmTimer` |
| `threading.Timer` | `TimerDue` (too late to cancel), `TimerStops` |
| `stop()` | `StopLock` (under the lock), `StopCancel`, `StopDrain`, `StopJoin`, `StopClose`, `StopResult` |
| `close()` and `on_close` | `CloseBegins`, `CloseEnds` |
| reader | `ServeResync`, `Read` (with the test of `recording`), `Put`, `Unplug` |
| writer thread | `WriterGet`, `WriterWrite`, `WriterExit` |

Exceptions are part of the model: they leave `start()` or `stop()` with `state` as it is, as the
code does. What the environment may do wrong is chosen by the constant `Faults`
(`stopInSetup`, `setupError`, `diskFull`, `flushTimeout`, `drainTimeout`, `unplug`).

Abstracted: packet contents, the CSV and binary formats and the metadata file (whose failure the
code catches); the 90 % test of `stop()` measures time, so it may tell or not, except for a run
without a sample, which it always finds. Several reads and writes of a thread are one step when
no other thread writes them in between: the three assignments at the beginning of `stop()`, and the
computation of the result. (With `stopInSetup` another thread does write in between; the properties
checked with that fault do not look at these fields.) `Writer.stop` has its ten-second limits only
under `drainTimeout`. `SeqTracker` sees an ordered stream of small numbers here; bytes,
wrap-around and datagrams are the matter of `PacketStream`.

### FifoInterrupt

The FIFO is its fill level, the interrupt line a level signal (`level >= Wtm`), `armed` its mask,
`sem` the semaphore. `TakeTimesOut` is possible only with a full FIFO and an interrupt that
cannot come: 50 ms pass while the FIFO is full after 20 ms and at the watermark after 3 ms
(`Convert` is the only other thing that takes time). `intMode` records whether the interrupt
was set up; the set-up itself is `Init`, with the choice that one of its steps failed after the
line was armed.

### StreamPipe

Samples are numbered by conversion. The sensor is external: the FIFO is continuous, the overrun bit
goes up when a sample is overwritten and down when the FIFO is read; a refused SPI read
(`iis3dwb_read_registers` finds no DMA memory) happens before the transfer. `blind` is a history
variable: an overrun whose bit a burst has taken down before the status was read again. The transport
loses packets but keeps their order. A failing `tx_send` is one outcome of sending, whatever the
number of attempts. The polling task of rate step 0 and `sensor_streamer_stop` (which nothing in the
repository calls) are left out; `StreamStart` has the streamer's beginning.

### WifiManager and DeviceBoot

`status`, `bit`, `timer` and `created` are the manager's, `events` is the queue of the event loop,
`link`, `cfg` and `joined` are the driver's. `retrying` says that the timer's callback has been
entered and not yet done its work: the timer task has the lowest priority, and a timer that has run
out can no longer be stopped. `main` is where `app_main` stands, `serial` where the task of the serial
protocol stands, which is started before the WiFi.

| code | actions |
|---|---|
| `wifi_event_handler` | `OnStart`, `OnDisconnected`, `OnGotIp` |
| `wifi_retry_timer_cb` | `TimerExpires`, `Retry` |
| `wifi_manager_init` | `CreateGroupAndTimer`, `InitConfig`, `esp_wifi_start`, as steps of `Main` |
| `wifi_manager_connect` | `Prepare`, `Disconnect`, `SetConfig`, `Connect`, as steps of `Serial` |
| `wifi_manager_wait_for_connection` | `MainWaited`, `SerialWaited`: with the bit, or after the limit |
| `handle_set_wifi`, `handle_factory_reset` | `SetWifi`, `Serial`, `FactoryReset` |
| `app_main` | `Main` |

A step ends at each call into the driver, and a handler is one step. `wifi_manager_connect` needs
several steps because the event loop and the timer work beside it. The driver is external: it
joins with what it was configured with, announces an address and a loss in order, cuts a connection
that is told to end and announces that too, and refuses a call that does not fit its state
(`esp_wifi_set_config` while it joins, `esp_wifi_connect` while it joins or before it is started). Under
`espError` it also refuses without a reason. `tested` (which credentials have got an address),
`abandoned` (such a refusal, and no connection since) and `mixed` (something of another connection got
into the last `set_wifi`) are history.

Abstracted: the length of the delays; the retry count, which is only logged (`max_retry` is stored and never
read); whether the build prefers the flash's credentials to its own, which `MainBegins` leaves open.
`auto_connect` is true in every state of this program, so the waiting mode has no action. Left
out: scanning, `wifi_manager_deinit`, and the window between the creation of the event group and of the
timer, in which a `set_wifi` would stop a timer that is not there.

### PacketStream

A byte is a small number, a packet a magic of two cells, the version, the count, the sequence number
and one cell for each sample; version 2 has one more for the full scale. Payloads and boot logs may
look like the magic. `wire` holds what the device has sent and the reader has not read; `Read(n)`
takes any number of cells, appends them to `buf` and runs the whole inner loop (`Extract`). `LoseCells` takes
cells out of the line, `Restart` begins the numbering again after a boot log, `Flush` throws buffer and
line away wherever they are. For UDP, `net` counts the copies of each datagram under way, and any of them
may be received next or never. `cells`, `sent`, `got`, `boot` and `damage` are history. The properties
compare the incremental reader with one that gets everything at once, and what was counted with what is
missing.

A loop of the code is a turn and a recursive function that repeats it: `Cut` and `Extract` for `SensorLink._loop`,
`ScanTurn` and `ScanFile` for `iter_packets`; `FileGaps` is the sum `convert` makes. `Missing` is the set of the
datagrams that never came, so that it can be compared with a counter by its size.

### Collector and RunBook

| code | actions |
|---|---|
| `Collector.close`, `Channel.close` | `CloseCheck` (state, and stop), `CloseJoin` (watcher and link), `CloseEnds` |
| `Collector.open`, `Channel.open` | `ToOpen` (maps), `OpenOne` for each sensor, `OpenEnds` |
| `start_manual`, `_on_trigger` | `StartCheck` and `StartGo`, `Edge` and `TriggerStart` |
| `stop`, the run's timer | `StopOne`, `TimeUp`, `Finish` |
| `set_din`, `set_active_low` | `OnDin` and `DinOne`, `OnActive` and `LevelOne` |
| the window's questions | `OnAssign`, `ChangeSource`, `OnAddWifi`, `OnClose`, then `Answer`, `AfterIdle` |
| `collect_cli.main` | `Launch`, `CliBegins`, `CliDone`, `Interrupt` |
| `slots.main` | `NumberCommand`, `DinCommand` |

`ui` says where the main thread stands; every place where it waits, or where another thread may change
what it has looked at, is a step's end. A channel object keeps living in `chan` after `owned`
(`Collector.channels`) has lost it, as it does in Python as long as its timer runs. `refused` and `calm` are history: a
reopening that a run prevented, and anything that makes an earlier space check void. The whole of `start()`
and the whole second half of `stop()` are one step each: `CollectChannel` has taken them apart. The
three seconds of `receiving` are taken as none. `PowerCut` ends the program anywhere and may lose `slots.json` while it
is written. In `RunBook` the runs of a sensor are a sequence, each "open" until it is "saved", or
"cut" by the end of the program. `Book` maps files and channels to it: a data file without record and
without a channel at work is a cut run.

### UsbBench, SetupTool, BoardCheck, ProvisionBench

The bench has sockets (stable names), the boards in them and their ttys (the lowest free number, as the
kernel gives them). A stalled bridge takes no more output until it is reset, and comes back under another
tty. `job` is the setup tool's worker with its step, `queue` what it has posted, `Pump` the main thread
handling one message, including the question the worker waits for. Writes end well, in an
error, a stall, a failed verification or a cancel, and `Written` says what each leaves on the board. `Close` may come at any
moment and takes worker and esptool with it, even in the middle of the history file. The board check
walks through its candidates with its own recovery. `aim`, `sure` and `stop` in `job` are
history: the board meant, whether the list was right about it, and which job a cancel was for.
Abstracted: the formats of NVS and boot log (what they tell is kept, with the port modulo 2^16), the progress
lines, all texts.

### ConfigStore

`nvs` is what `nvs_get` reads, `flash` what a power cut cannot take away; the two differ between
`nvs_set_str` or `nvs_erase_all` and `nvs_commit`, and after a commit that failed. `PowerCut` leaves of each key
one or the other. `ready` is whether `nvs_flash_init` has succeeded, and with it `nvs_open`.

| code | actions |
|---|---|
| `config_manager_init`, `wifi_manager_init` | `PowerOn`, `WifiInit` |
| `has_stream`, `load_stream`, `has_wifi`, `load_wifi`, as `app_main` calls them | `HasStream`, `LoadIp`, `LoadRest`, `HasWifi`, `LoadSsid`, `LoadPass` |
| `config_manager_save_wifi`, called by `handle_set_wifi` | `SaveWifi`, `SetSsid`, `SetPass`, `Commit`, `WriteFails` |
| `config_manager_factory_reset` | `FactoryReset`, `NothingToErase`, `Erase`, `CommitErase`, `WriteFails` |
| `generate_full_nvs`, `build_blank_nvs` of the setup tool | `HostWrites` |

The serial task runs beside `app_main`, so keys may be erased while they are read. `torn` (an operation has
changed a key and none has been finished since), `image` (the keys at the beginning of the boot), `crossed` (they
could not be read, or were erased meanwhile) and `answer` are history. Left out: port, rate, read mode and
range, which have defaults; `save_stream`, which nothing calls; whether the test of the credentials
succeeds, which is the matter of `DeviceBoot`. The build is one that prefers the flash's credentials
(`CONFIG_WIFI_PREFER_NVS`).

### StreamStart

`main` stands in `app_main` or in `sensor_streamer_start`, one step for each call that may fail; `result` is
what it returns. `usb_installed`, `silenced`, `sock`, `ringbuf` and `running` are fields of `s`; `jtag` and `uart` are
the drivers, `jtag` with who installed it, `baud` the rate of UART0. `channel` is the build: both are explored. The
readers and the sender are reduced to whether they work.

| code | actions |
|---|---|
| `app_main`, steps 3 and 4 | `Decide`, `Check` |
| `sensor_streamer_start` | `Install`, `Silence`, `SetBaud`, `OpenSocket`, `CreateRing`, `Run`, `CreateReader`, `CreateTx` |
| `sensor_task`, `sensor_task_fifo`, `tx_task` | `EnableFifo`, `ReaderGivesUp`, `Send`, `Sent`, `TxEnds` |
| `iis3dwb_read_task` with `led_report_data_ok` and `_error` | `ReadSample` |
| `send_response` | `Ask` (the test), `Answer` (the text) |
| any `ESP_LOG` | `Log` |
| the half-second judgement of `led_status_task` | `Judge` |

Times are counted in judgements, up to `Stale + 1`. `early` (the writer of a text had looked before the streamer ran)
and `quiet` (judgements since anything was sent or read) are history. A log line and an answer exclude each other
on the line; the invalid arguments of `sensor_streamer_start` and the rendering of the LED are left out.

## 3. The runs

| run | question | bounds | result |
|---|---|---|---|
| `ChannelFaults` | can races and exceeded limits put a packet twice or out of order? | 2 runs, 3 packets, queue of 1; `stopInSetup`, `drainTimeout` | holds (6.5 million states) |
| `ChannelSafety` | are results true and final, and is an idle channel idle? | 2 runs, 4 packets, queue of 1; `setupError`, `diskFull`, `unplug` | holds (9 million states) |
| `ChannelLive` | does a run end and get recorded by itself? | 2 runs, 2 packets; `unplug`, `flushTimeout` | holds |
| `ChannelDiskFull` | does a run end on a full disk? | 1 run, 2 packets; `diskFull` | violated |
| `FifoInterrupt` | is the task always wakeable, and does it fall back when it must, and only then? | FIFO 8, watermark 3, burst 3, 20 misses, all faults | holds |
| `StreamLoss` | in order, and no silent hole? | FIFO 3, burst 2, every 2nd sample, ring of 1, packets of 2, 12 conversions, 1 packet lost, 1 overrun read | holds |
| `DeviceBoot` | does a device keep trying, tell the truth, and store only what it tested? | 2 credentials, 2 `set_wifi`; all faults | holds (570 thousand states) |
| `PacketStream` | does the way bytes arrive matter, does damage or loss go unnoticed, does a file read back? | 3 packets of 2 samples, 1 restart, numbers modulo 16 starting at 14, restart limit 6, 2 copies of a datagram | holds (670 thousand states) |
| `Collector` | do closed channels stay silent, sensors keep their settings, runs fit and stay numbered, does everything end? | 2 holes, 1 UDP port, 2 photo sensors, 3 channel objects, 2 runs, disk of 3, 3 commands; 3 first set-ups | holds (570 thousand states) |
| `ProvisionBench` | are successes true, other boards untouched, histories and rows right, and do jobs end? | 2 sockets, 2 boards (one outdated, one faulty), 3 ttys, ports modulo 3, 2 faults, 2 uses | holds (1.3 million states) |
| `ConfigStore` | do name and password stay together, is what was answered as done done, does a boot follow what is stored? | 3 networks, one of them open; all faults | holds (520 thousand states) |
| `StreamStart` | does a failed start clean up, does text stay out of packets, does the LED tell the truth? | both builds, data stale after 2 judgements; all faults | holds (180 thousand states) |

Why the bounds are enough: two runs are the least in which one run's writer, timer or packet meets
another run. One packet is needed before the first run (preflight wants a receiving channel), so
three give a run two packets and a queue of one an overflow, and four give it three with
a dropped one between two written ones. The theorems below have no bound. The FIFO of `StreamPipe`
takes two bursts, and twelve conversions make three packets with decimation, of which one may
be lost in the middle. `FifoInterrupt` keeps the code's limit of 20 misses. One accepted and one wrong
credential are what a test of credentials can confuse, and the second `set_wifi` meets the timer, the events
and the configuration the first one left. Numbers that start at 14 of 16 turn with the third packet,
and the limit of 6 lies between a small gap and one that looks like a restart; a cut, a loss or a
magic in the samples can fall into each of three packets. Two sensors are what can be confused, and
the third channel object is a run that outlives its channel; a disk of 3 has room for two short runs
or one long one. With three commands a map is changed, a channel reopened and the program cut or closed. Two uses of
the bench are the least in which one job's cancel, list or renamed port meets another.

Three networks are an old one, a new one, and one whose password is empty; commands, boots and power cuts have no
bound in `ConfigStore`. Nor have the steps of `StreamStart`; two judgements tell fresh from stale.

The types of every module but `Collector` are proved. The `TypeOK` of `Collector`
holds in the instance above; it is not listed in its run, nor is that of `StreamPipe`, `PacketStream`, `ProvisionBench`,
`FifoInterrupt`, `ConfigStore` and `StreamStart`, where the theorem says more.

`MaxRuns`, `MaxPackets`, `MaxSamples` of the pipeline, `MaxLost`, `MaxOverruns`, `MaxCommands`, `MaxSent`,
`MaxRestarts`, `MaxCopies`, `MaxOps`, `Ids`, `MaxFaults` and `MaxUses` are bounds of the models, not of the
program. The runs of the channel, of the pipeline and of the device, of the link, of the collector and of the bench switch off the deadlock check: a program that
has been closed, or has used up the bounds, really stops.

**Fairness.** `ChannelLive` assumes that each thread goes on (`start()`, `stop()`, each writer,
the reader's answer to `flush()` and its `put`) and that an armed timer runs out: these are operating
system threads that block only where an action's guard says so. Nothing is assumed of users, edges,
the device or faults. `FifoInterrupt` assumes that the sensor converts on its clock, that
the task runs (it has the highest priority of the application) and that a raised, unmasked interrupt
is served. `DeviceBoot` assumes that the tasks run, a running timer runs out, a join ends, and
an access point that would accept does so if it is asked again and again (strong fairness, as each
attempt may fail for reasons of the radio). Nothing is assumed of commands. `Collector` assumes that
the main thread and each channel's threads go on, that a run's timer runs out, and that the user
answers a question that is open; `ProvisionBench` that the worker and the board check go on (esptool,
the reset and the captures have time limits), and that the pump comes round (`after`) with its boxes
answered.

### Disagreements found

* **A full disk stops the channel for good** (`ChannelDiskFull`). `writer.py:116-119` guards `flush`
  and `fsync`, and the `close()` at line 120 raises; `stop()` never gets to `state = IDLE`.
  `collect_cli.py --manual` then waits for ever.
These came out of the modelling and are counterexamples to what a comment or a document says; the property a run checks
instead says how far the promise holds.

* **Two readers of the sensor.** `app_main` asks for the WiFi state at `main.c:599`, for the monitoring task, and again at
  `main.c:629`, for the streamer; a connection that comes up in between starts both, against the comment at
  `main.c:603`. `UsbReadsOnce`: not on a USB device.
* **A port renamed behind the list.** `usb_reset.recover` asks its caller to update the selected port
  (`usb_reset.py:155`); `_recover_stall` hands the new name to the running job only (`set_sensor_gui.py:983-994`), and the
  next job takes the old one from the list. `OnlyTheChosenBoard`: not within a job.
* **A factory reset that is answered and did not happen.** `config_manager_factory_reset` takes every failure of
  `nvs_open` for an empty store (`config_manager.c:244-246`). If `nvs_flash_init` failed at boot, which `app_main` only
  logs, the settings survive the answer `factory_reset_done`. `DoneIsDurable`: not when the store could be opened.
* **The wrong driver removed.** In the UART0 build the error path of the ring buffer (`sensor_streamer.c:726-729`) removes
  the USB driver, which belongs to the serial protocol, and not the UART's; `sensor_streamer_stop` makes the difference
  (`:788-792`).
* **An error at the wrong baud rate.** After the rate of UART0 was raised, the error paths turn the log on "to diagnose the
  cause" (`sensor_streamer.c:268`, `:723`) and leave that rate; `sensor_streamer_stop` resets it first (`:774-776`).
  `FailedStartGivesBack` is about the log's level and about what was taken, not about this and the one before.
* **An answer among the packets.** `send_response` tests and then prints (`serial_protocol.c:60-69`), and the streamer may
  start in between. `OnlyEarlyText`: that one answer is all.
* **A packet of the last run.** `flush()` promises no data of the past (`sensor_link.py:141-142`). The reader tests
  `recording` and then puts; `stop()` and the writer can finish in between, and the packet waits in the queue for the next
  run's file.
* **A recording not waited for.** `close()` stops a RECORDING channel and does not wait for a FINISHING one
  (`session.py:146`), although the window's question says the recording is saved (`collector_gui.py:753-754`).
* **The newest sample dropped.** The full ring buffer refuses the newest sample; `docs/packet-protocol.md:115` says the
  oldest is dropped.
* **Untested credentials stored.** `wifi_manager_connect` clears the connected bit before it cuts the old connection; an
  address that the old one gets in between passes for the new one's, and the credentials are stored untested, against the
  comment at `serial_protocol.c:175`. `SavesTestedUnlessMixed` says how far it holds.

### Other observations

These came out of the modelling; no property is about them.

* Collector: a photo sensor that starts a run while the question of `on_assign` is open makes the map change and
  the reopening fail; the channels go on under the old numbers although the window says numbers cannot change
  during a run (`collector_gui.py:435`). `change_din` saves the inputs of the open channels only, so that of an
  unplugged sensor is lost (`:526-528`). Two sensors on one input: the message at `:532` says that both are started, but the
  kernel refuses the second request, and that sensor stays deaf until it is reopened. `auto_assign` forgets holes
  that are empty at the moment, and keeps the WiFi map, so that a hole numbered like a WiFi sensor is never
  opened; `suggest_names` does not look at WiFi names. `check_space` speaks of all channels at once
  (`session.py:500`), and counts those that are receiving at that moment at the present size. A torn `slots.json` reads as empty.
  A sensor that could not be opened is not in the verdict of the command line (`collect_cli.py:265`).
* Link and files: a `.bin` whose loss straddles the turn of 2^32 shows no gap in the converter. A header damaged on the line
  can give a wrong packet with nothing but `resync_bytes` to tell of it, and the verdict of a run does not look at
  them (`session.py:334`). Where just the count and the number are lost and the samples behind them read as a plausible count and
  as the number before the next one, not even `resync_bytes` tells; bytes that `flush` cuts off count as such, against `sensor_link.py:171-172`.
  Datagrams that come twice are written twice. `udp_receiver.py` fails on a packet without samples.
* Setup tool: a list not refreshed after cables were moved sends a job to another board (`set_sensor_gui.py:819`); the
  next port that is offered on a conflict is not checked again (`:1029`); 65535 + 1 wraps in NVS and is caught
  by the boot log only; an empty boot log passes after flashing (`:967-975`); a factory reset leaves
  `provisioned.json` as it was, although it is said to tell what the board holds (`provision_log.py:92-93`). The
  two programs number holes by different orders from the tenth port of a hub on (`:1048`, `slots.py:165`).

* Firmware: a `save_wifi` that is broken off leaves the new name with the old password until the next finished
  command; what a failed commit left unwritten is read back until the power is cut. A FIFO that cannot be enabled leaves socket and
  ring buffer behind, and `sensor_streamer_start` has already returned success (`sensor_streamer.c:272`).

### Limits of the passing runs

`OkRunHasNoHole` is checked without
`flushTimeout`. An answer to `flush()` that comes more than one second late resets the reader inside
the run, and what it throws away is in no counter; the code calls that limit a safety net for a
thread that hangs (`sensor_link.py:155-156`). `SpaceFits` leaves out the time after `calm` is lost, `ChannelsFollowSettings` the time after a
refused reopening, `OnlyTheChosenBoard` and `HistoryIsTrueWhenWritten` jobs that began from a list that was wrong.
In `DamageLeavesATrace` the trace may be `resync_bytes` alone, and it holds for the samples and the
numbers of the run, which do not pass for each other; where they do, damage can leave no trace (section 4). `IdleIsClean` and `FileFinal` are checked without
`stopInSetup`: a stop that overtakes `start()` finds no writer and raises, and `start()` then
opens the gate of a channel that is no longer RECORDING. `LossIsCounted` excludes the `blind` overrun. `UpIsReported` is stated until the first `set_wifi`:
after one, a retry timer that has already run out puts the status of a connected device back to connecting,
where it stays. `RetryPending` and `Reconnects` leave out the time after a refusal without a reason
(`abandoned`), because `wifi_manager_connect` has then stopped the timer and gives up. `Reconnects`
is about credentials that would be accepted: after a failed `set_wifi` the driver keeps the wrong ones.

## 4. The proofs

All are checked by `tlapm`, from the named assumptions on the constants (`ChannelAssumption`, `FifoAssumption`,
`StreamAssumption` of `StreamPipe` and of `PacketStream`, `WifiAssumption`, `BootAssumption`, `StoreAssumption`,
`StartAssumption`, `CollectorAssumption`, `BenchAssumption`, `SetupAssumption`): for every number of runs, packets, sensors,
channels, boards, commands and faults. The theorems that need a hypothesis more state it: `NoRaces` and `Timely` in
`CollectChannelProofs`, `MaxSent <= GapLimit + 1` and `QuietLogs` in `SensorPathProofs`. Each inductive invariant was checked by TLC on the instance of section 3 before it was
proved.

`CollectChannelProofs`:

* `TypeCorrect`: `Spec => []TypeOK`, from one lemma per group of variables. Frame lemmas
  (`WriteSteps`, `LinkSteps`, `StartSteps`, `StopSteps`, `ChannelSteps`) first say which actions touch
  the group at all.
* `AlwaysFilesInOrder`: `Spec => []FilesInOrder`, with every fault. `FilesInOrder` is not
  inductive: nothing in it says that a packet about to be written is a new one. `FifoInv` follows
  a packet along its way (driver's buffer, reader's hand, queue, a writer's hand, file)
  and says that each stage is in order, that each stage holds older packets than those behind it, and that no
  packet is with two writers or with a writer and in a file.
* `AlwaysClean`, `QuietWhenIdle`, `ResultsFinal`: `CleanInv`, `IdleIsClean` and `FileFinal` under
  `NoRaces`, that is for all `Faults` without `stopInSetup` and `drainTimeout`. `CleanInv`
  ties writer, file, timer, gate and result of each run to the positions of `start()` and `stop()`:
  only one `start()` is under way and it prepares the latest run; each step of `stop()` finds done what the
  steps before it do; whatever still works belongs to the run the channel points to, and that run has
  no result. `FileFinal` follows because only that run's writer can write.
* `OkMeansNoHole`: `OkRunHasNoHole` under `Timely`, which is `NoRaces` without `flushTimeout`. The property speaks of a run
  that has its result; `HoleInv` says what leads there. As long as neither the loss counter nor the drops nor a failed
  write speak against a run, its packets between file and reader follow each other without a hole, the
  reader's last one among them (`NoHoleYet`); the gate opens on a run with its own mark and base, before any
  packet of it has passed (`OpensClean`); the tracker is reset for the run that is prepared, never inside one
  (`ResetInTime`). It rests on `FifoInv` and `CleanInv`.

`SensorPathProofs`, the FIFO, for every size, watermark, burst length and limit of misses: `FifoTypeCorrect`,
`AlwaysWakeable` (`NeverDeaf` is inductive) and `WorkingLineKeepsInterrupts` (`FallbackMeansBroken`, from `NeverDeaf`).

`SensorPathProofs`, bytes and packets, for every set of payloads, boot logs, versions and foreign datagrams, every modulus and
gap limit:

* `TypeCorrect`. That the loop of `SensorLink` ends, and leaves less than one packet, has to be shown first: each turn shortens the
  buffer or is the last. The induction is over the length, with a set in place of the predicate, which the library's theorems
  would take as an operator.
* `ChunksAgree`: `ChunkingIrrelevant`. A turn does the same whether the bytes behind it have arrived or not, unless it waits for them
  (`TurnThenRest`); so a read of two chunks one after the other is one read of both (`ExtractConcat`), and the invariant `ReadInv`
  compares with the read of all that came since the last flush.
* `ConverterCounts`: `ConverterAgrees`, from `Agrees`, which every accepted packet keeps: without the mask a gap is found only where
  the link found the same one.
* `MissingCounted`: `MissingIsCounted`, from `Numbered` (how far two numbers of one boot are apart), `Arriving` (what is under way is of
  the boot at hand) and `Counted` (the property, over sets). An accepted datagram adds to the missing no more than what lies between it and
  the one before, and takes out none but itself. It needs `MaxSent <= GapLimit + 1`: a device that sends more packets
  can lose `GapLimit` in a row, which the code takes for a restart and does not count.
* `CutFilesReadBack`: `CutFileReadsBack`. The header of a written packet reads as it was written (`RoundTrip`), a scan of
  whole packets and part of another gives the whole ones (`ReadsWhole`, `ScanPart`), and only plausible packets are
  written (`FullPackets`).
* `CutWhereSent`: `InSync`, whatever the samples look like. `SyncInv` says what a read of everything under way would give: all packets from
  some one on, with nothing kept but what may be the end of a boot log. It can say so because reading commutes with the chunks
  (`ExtractConcat`). `Following` gives the numbers. It needs `QuietLogs`: no magic (`3SII` on the line) in a boot log, nor where one log
  follows another; otherwise what follows may be taken for a header.

`StreamPipeProofs`, for every size of FIFO, bursts, ring buffer and packets and every divider of the rate:

* `TypeCorrect`, with `BurstInv`: a burst never takes more than the FIFO holds.
* `AlwaysReceivedInOrder`, from `OrderInv`: the seven places a sample can be in form a chain, each in order and each
  older than the one before. A sample enters at the newest place only and moves to the next one only.
* `AlwaysLossIsCounted`, from `NumberInv`, `ExactInv` and `ExactNet`. That arriving samples are evenly spaced says nothing of
  those still on the device; `ExactInv` gives each sample the place its number calls for, as long as nothing was dropped and
  no overrun seen or slipped by, and `ExactNet` carries that through the packets to the collector.

`DeviceBootProofs`, from `WifiAssumption` and `BootAssumption`, for every set of credentials and of faults and
any number of commands:

* `TypeCorrect`.
* `AlwaysRetryPending`: `Spec => []RetryPending`. The invariant `RetryInv` adds what must hold while events are
  queued: the last one of an idle driver starts the timer or connects, so an address event before it does no
  harm when it stops the timer.
* `AlwaysUpIsReported`: `UpInv` lists the six situations a device can be in before the first `set_wifi`, in
  each of which one thing at most (an event, the timer, its callback, a join) is under way.
* `AlwaysUsbReadsOnce`: without WiFi the two questions of `app_main` have one answer.
* `AlwaysSavesTested`: the action property `SavesTestedUnlessMixed`. `TestedInv` follows the new credentials from the command
  through the driver to the flash: nothing else is joined once they are in it, so an address can only be
  theirs, unless it was that of the old connection (`mixed`).

`ConfigStoreProofs`, from `StoreAssumption`, for every set of networks and of faults, any number of boots, power
cuts and commands:

* `TypeCorrect`.
* `AlwaysPairIsWhole` and `AlwaysDoneIsDurable`, from `StoreInv`. Neither property is inductive: they do not say
  that `nvs` and `flash` agree when nothing is under way, so a power cut could mix the keys, nor what is known
  between the two writes and the commit. `StoreInv` adds both; `CutKeepsCommitted` is the lemma that a
  power cut then takes nothing.
* `AlwaysBootFollowsFlash`: `ReadInv` says, wherever `app_main` stands between its reads, that what it has read
  came from the image the boot began with, and that in between only a factory reset can have touched the keys (`crossed`).

`StreamStartProofs`, for both builds, every set of faults and every patience of the LED task:

* `TypeCorrect`.
* `AlwaysStartInv` and `AlwaysFailedStartGivesBack`: `StartInv` says for each place in `sensor_streamer_start` what
  it holds there, and when the log is off.
* `AlwaysOnlyEarlyText`: `TextInv`: a writer that was let through after the streamer runs was let through because the sensor's
  task had given up, and then nothing is sent any more.
* `AlwaysGreenMeansData`: `LightInv`: the ages the LED keeps are never younger than what they are the ages of.

`CollectorProofs`, for every number of holes, sensors, inputs, ports, channel objects and commands:

* `AlwaysNothingLeaks` and `AlwaysChannelsFollowSettings`, from `LinkInv`. Both speak of moments at which nothing is under way.
  `LinkInv` says what holds in between: what `close()` is through with is silent and what it has before it is
  open; what `open()` has before it is each sensor once, without a channel, under the source that
  `slots.json` gives; what is open follows `slots.json` but between a new number and its
  reopening, and the level but for the channels still to be told.
* `KeepsTheBook`: `Spec => BookSpec`, step by step: each step is a `Begin`, a `Save` or a `Cut` of `RunBook`, or
  leaves the book as it is. It needs `BookInv` (`AlwaysBookInv`): a run under way has its data file and no record yet, and no two
  channels are at the same run; without it the three values of `Status` could overlap, or a recorded run begin
  again. That each sensor's numbers have a greatest one is a part of the invariant, so no
  induction over the files is needed.
* `AlwaysSpaceFits`, from `SpaceInv`: `SpaceFits` counts the runs that are on, and the invariant also counts those that
  have been let through and not begun. A check that passes leaves room for all receiving
  channels (`LetThrough`), so it replaces the sum by a larger one; writing takes one unit from both sides. The sum is
  the number of elements of a set with one for each unit, which the facts about finite sets apply to. The attempt to prove it found a
  case that the bounds of the run leave out: a WiFi sensor that pauses between the checks for its run and the run itself is
  not counted by the checks of the others. It now ends `calm`, as a pause within the run did before.

`ProvisionBenchProofs`, for every number of sockets, boards and ttys, of stalls and of jobs:

* `AlwaysBenchInv` and `TypeCorrect`. `BenchInv` has three parts: the types of the bench; `ToolInv` for the setup tool;
  `TestInv` for the board check.
* `AlwaysSuccessIsTrue`, `AlwaysCancelIsNotInherited`, `AlwaysOnlyTheChosenBoard`, `AlwaysHistoryIsTrueWhenWritten`: from `ToolInv`.
  `QueueInv` says which message the window waits for, `KnownInv` what the job may believe of its port and its board at
  each step, `WrittenInv` what it has written by then.
* `AlwaysRowsAreTrue`: from `TestInv`. `TurnInv` ties the board under test and those to come to their ttys, through the renamings
  of resets and cables, `TableInv` the rows and the exit status to the boards.

Some definitions are written so that they can be reasoned about: `InOrder` (`Collector`), `ListPorts` (`UsbBench`) and
`StillNeeded` say what a list or a sum is instead of folding over a set.

Only model-checked:

* liveness (`RunEnds`, `BrokenFallsBack`, `Reconnects`, `JobsEnd`, `NothingHangs`), which is beyond the prover;
* `DamageLeavesATrace` of `PacketStream`, because it is not true of all payloads and numbers. With samples 1, 3, 5 in the packet with number 3
  of version 1 and its count and number lost, the reader finds a header with count 1, number 3 and the sample 5;
  number 4 follows, and nothing was lost or passed over. The condition that excludes this would have to name the samples
  and the numbers the link may meet, which no sensor promises;
* the types of `Collector`: `load_din_map` gives inputs by a fold over the sensors, and that each gets one would be an induction
  over that fold. No theorem of `CollectorProofs` depends on it.

## 5. Plan

Done: all modules of section 2, and the proofs above. Next, in this order:

1. The types of `Collector`: `load_din_map` as a recursive function.
2. The timing of the polling task of rate step 0, and the sensor's reset and range.


Not modelled, and not planned: widgets, help texts, rendering, udev rules, the lgpio fallback, the
self-test (it calls the other parts with fixed inputs), `--watch` and `--only`, the output folder and the
change of day, packaging scripts, vendored wheels. Of a watcher's cancellation the 1.4-second
limit is left out (the callback it waits for is short).

## 6. Running it

    tlc -workers 2 -config ChannelSafety.cfg MCCollectChannel.tla
    tlc -workers 2 -config FifoInterrupt.cfg MCFifoInterrupt.tla
    tlc -workers 2 -config StreamLoss.cfg MCStreamPipe.tla
    tlapm CollectChannelProofs.tla
    tlc -workers 2 -config DeviceBoot.cfg MCDeviceBoot.tla
    tlapm DeviceBootProofs.tla
    tlc -workers 2 -config PacketStream.cfg MCPacketStream.tla
    tlapm SensorPathProofs.tla
    tlc -workers 2 -config Collector.cfg MCCollector.tla
    tlc -workers 2 -config ProvisionBench.cfg MCProvisionBench.tla
    tlc -workers 2 -config ConfigStore.cfg MCConfigStore.tla
    tlc -workers 2 -config StreamStart.cfg MCStreamStart.tla
    tlapm ConfigStoreProofs.tla
    tlapm StreamStartProofs.tla
    tlapm StreamPipeProofs.tla
    tlapm CollectorProofs.tla
    tlapm ProvisionBenchProofs.tla
