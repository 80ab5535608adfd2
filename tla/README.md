# Verification of esp_csi

TLA+ modules, TLC configurations and TLAPS proofs about this repository: firmware and host tools
that use the channel state information (CSI) of Wi-Fi frames to detect people. Paths are
relative to the repository; `CT` is `examples/esp-radar/console_test`, `RM` is
`examples/esp-radar/connect_rainmaker`, `GS` is `examples/get-started`.

## 1. The system

| Component | State it keeps | Operations | Talks to |
|---|---|---|---|
| Ping command, `CT/components/commands/src/ping_cmd.c` | `g_ping_handle`, the table `ping_args`; a thread per session (ESP-IDF) | `ping` (start, `--abort`), `ping_cmd_on_end` | typed on the console; run by the event task on GOT_IP |
| CSI output, `CT/main/app_main.c` | `g_csi_info_queue`, `csi_output_type`, heap buffers | `wifi_csi_raw_cb`, `csi_data_print_task`, `radar --csi_output_type` | called by the radar library; rows go to the serial port |
| Collection, `CT/main/app_main.c` | `collect_number`, `collect_taget`, `g_collect_timer_handele` | `radar --collect_*`, `collect_timercb` | FreeRTOS timer service; the print task prints number and label; the host opens files by them |
| Detection, `CT/main/app_main.c` | two ring buffers, their count, size, outlier number, thresholds, LED times | `wifi_radar_cb`, `radar --predict_*`, `--train_*` | called by the radar library |
| Radar configuration and evaluation server, `CT/main/app_main.c`, `radar_evaluate.c` | the library's configuration; server task's handle, receive buffer | get, modify, set by boot, console, GOT_IP and the server; `tcp_server_task` | host tool sends recorded rows over TCP |
| Station, `CT/components/commands/src/wifi_cmd.c` | `s_reconnect`, two event bits, the driver's state | `wifi_config`, `wifi_scan`, `wifi_event_handler` | Wi-Fi driver, event loop |
| System commands, `system_cmd.c` | none | version, restart, reset, heap, log | ESP-IDF |
| Host tool, `CT/tools/esp_csi_tool.py` | two bounded queues, `gui_config.json`, the fields, buttons and timers of four panels, tables of radar rows | `serial_handle` (a process), `DataHandleThread.run`, the window's slots, `evaluate_data_send` (a process per press) | serial port, TCP |
| RainMaker device, `RM/main/app_main.c` | `g_detect_config` (in NVS too), the calibration timer | `radar_cb`, `auto_calibrate_timercb`, `write_cb`, boot | RainMaker cloud |
| Get-started firmware, `GS/csi_recv*`, `GS/csi_send` | queue and tasks of `csi_recv` | receive callback, writer, sender | serial port |
| Get-started host tools, seven viewers `GS/tools/csi_data_read_parse*.py`, `logx.py`, `csi_utils.py` | CSI arrays, training dictionary, reports, log queue: all globals without a lock | a reader thread per port, the window's timer, start/stop, train and recognise buttons | serial ports |
| Radar library, `components/esp-radar` | a binary | header only | everything above |

What is hard here: one handle or structure shared by the console task, the event task, the timer
service and library callbacks without a lock; handles that are tested and then used; ownership of
buffers that cross a queue; waiting without a time limit for another task; counters that wrap;
rows whose parts are read at different times. PROJECT.json lists each hazard at its line.

What makes each component correct:

* ping: the handle names no freed session, ended sessions are freed, an abort ends what it finds;
* CSI output: each frame has one owner and is printed or dropped once, in order, within its copy;
* collection: it counts down once, labels its own rows only, and cleans up after itself;
* detection: the status is that of the latest samples;
* configuration: no task's change is undone by another's; the server's context is set while it
  serves and is cleared afterwards;
* station: commands return, the bits tell the truth, a station stays up or down as it was told;
* host tool: no reader or writer waits for ever, exit comes through, what is received is stored,
  the saved configuration is the window's, the device trains and collects as the panels say, the
  tables and charts are those of the rows received;
* viewers: what is drawn, trained and recognised is of the frames it is said to be of, the buttons
  come back, a viewer without a port does not stay;
* RainMaker: a calibration that is on has its timer and ends in time, what is stored is what is in
  force, each move is reported once and in time.

## 2. Modules

| Module | Models | Read it with |
|---|---|---|
| `PingSession` | ping command in two tasks, session threads | `ping_cmd.c`, `app_main.c:479-481` |
| `CsiPipeline` | callback, queue, print task, output type, boot order | `app_main.c:131-150, 229-242, 287-353, 535-549` |
| `Collection` | what a collection promises (abstract) | |
| `Collect` | collection on the device, timer service, file choice of the host | `app_main.c:154-165, 211-223, 310-311`, `esp_csi_tool.py:1218-1253` |
| `WifiConn` | `wifi_config`, `wifi_scan`, handler, driver | `wifi_cmd.c:57-80, 280-433, 476-555` |
| `Detect` | ring buffers and statuses | `app_main.c:183-209, 355-456` |
| `RadarConfig` | the library's configuration, who changes it, and the evaluation server's task | `app_main.c:229-242, 459-490, 535-552`, `radar_evaluate.c:103-251` |
| `Calibration` | the RainMaker device's configuration, calibration, NVS and boot | `RM/main/app_main.c:54-75, 256-341` |
| `Presence` | what that device reports of the room | `RM/main/app_main.c:103-234` |
| `HostTool` | the host tool's processes, thread and queues | `esp_csi_tool.py:760-772, 831-843, 976-984, 1092-1324` |
| `HostConfig` | its configuration file, boot timer and router button | `esp_csi_tool.py:212-251, 454-517, 720-758` |
| `HostCollect` | its collect panel | `esp_csi_tool.py:774-829` |
| `HostTrain` | its train panel and the evaluation processes | `esp_csi_tool.py:173-208, 845-959` |
| `HostRecords` | its radar row handling, tables and charts | `esp_csi_tool.py:102-133, 602-681, 948-955, 1006-1049` |
| `Viewer` | threads, arrays, waterfall and exit of the seven viewers | `csi_data_read_parse*.py` |
| `TrainRecog` | training and recognition of three of them | `csi_data_read_parse_{org,low,3d}.py` |
| `LogWindow` | their log, three copies | `logx.py`, `csi_data_read_parse_{org,3d}.py` |
| `PingSessionProofs`, `CsiPipelineProofs`, `CollectProofs`, `RadarConfigProofs`, `WifiConnProofs` | theorems on the modules named, and that `Collect` takes `Collection`'s steps | |
| `RoomProofs` | theorems on `Detect`, `Calibration`, `Presence` | |
| `HostProofs` | theorems on `HostTool`, `HostConfig`, `HostCollect`, `HostTrain`, `HostRecords` | |
| `ViewerProofs` | theorems on `Viewer`, `TrainRecog`, `LogWindow` | |
| `MC*` | constants for TLC | |

Conventions. Variables have the names of the code's; a `console`, `handler`, `service`, `printer`
or `pc` variable says where a task is. A step is one access to shared state: loading an argument
and the call that uses it are two steps (`Load`, `Stop`), so is each store of a command. What is
private to a task between two such accesses is part of one step. Definitions called "Mutation" are
wrong variants of the definition after them and take part in no specification: putting one
in the other's place makes TLC report the property PROJECT.json names for it.

**PingSession.** `wifi_cmd_ping` runs in `Repl` and `EventTask`. `Parse` fills the shared argument
table, `ParseFails` leaves in it what was read of a mistyped line; the test of `--abort` is a step of its own because the other task may parse in between.
`NewSession` stores into `g_ping_handle` whatever was there. A session thread waits for its
notification, pings while START is set, runs `ping_cmd_on_end` in two steps (delete its session,
clear the handle) and frees itself. `allocFails` is fixed for a behaviour: in some
behaviours `esp_ping_new_session` may fail. Left out: what a call does with the
memory of a session that was freed after the handle was loaded.

**CsiPipeline.** A buffer is identified by its address; `heap` says what it holds. `q_data` and
`info` are the local variables of the callback and the print task. The three comparisons of
`csi_output_type` are three steps, because the console may change it in between; the type "other"
also stands for a name that is seen half-copied. The frame's lengths are small numbers. Before
`CreateQueue` every frame is dropped, as the code's test of `g_csi_info_queue` does.
`CopyFrame` needs a free block: the code does not check malloc, and `HeapBounded` says what suffices.

**Collect.** `collect_number--` is a load and a store, and the number wraps at `Modulus`. The
timer commands go through FreeRTOS's command queue, which the timer service empties after each
callback. `timer` gives each timer's state; using a deleted one either goes unnoticed or resets the
device, and a NULL handle resets it (FreeRTOS asserts). `patient` is fixed for a behaviour: a patient
operator starts a collection only when the last one is over; the host tool's start and stop
buttons do not enforce this. The row's number is read before its label. `Row` is the
host's decision to open a file; `RowIgnored` is a row that was damaged on the serial line.

**WifiConn.** The driver's `link` is down, connecting or up. `esp_wifi_connect` does
nothing unless it is down. Events are handled in order, the handler in as many steps as it
touches shared state. `wifi_config` without an SSID uses the one that is configured.
`ESP_ERROR_CHECK` failing is `Restart`. The five-second wait for the connection may end at any
time (`Await`). After a scan that found routers the channel is set again (`SetChannel`), which the
driver may refuse if the handler has reconnected meanwhile. `wifi_sta`, `wifi_ap` and `wifi_query` are registered by a function that nothing
calls, so they are not modelled.

**RadarConfig.** The fields that any task changes are kept: the two callbacks, the filter (with the CSI
options that GOT_IP sets with it) and the callback's context. The library's get and set are one step
each; between them a task has its copy in hand (`copy`, `InHand`). app_main only sets.
`server` follows each instance of `tcp_server_task` from its creation to its end.
`eager` (somebody types before app_main is done) and `resources` (sockets and tasks can be had) are
fixed for a behaviour. `router`, `choice` and `overlap` are history variables: what GOT_IP and
the console wrote last, and whether a task ever wrote while another had a copy in hand. NONE as a
filter is the address app_main sets. Two things the model shows and no property can promise: updates that
overlap are lost, and a server that got no socket leaves its handle set, so that no other is ever
started. What a client sends is left out.

**Detect.** Waveform values and thresholds are levels. `Store` loads size and outlier number once
per sample, `Judge` loads the thresholds in each turn of the loop, as the code does. `recent`,
`lastSize`, `since` and `steady` are history variables. LED and training are not in this module.

**Calibration.** `write_cb` runs in RainMaker's task, `auto_calibrate_timercb` in FreeRTOS's timer
service, and in RainMaker's task when a write ends a calibration; `at` says where each is. A step is
one access to the configuration, the time that is left, the timer's command queue, the training or
NVS (a blob is written as a whole). `Reboot` may come anywhere. Of the fields that a write only
stores, `threshold` and `timeout` are kept, the latter because the callback reads it and because it
is stored in eight bits (`Width`). `astray`, `span` and `ticks` are history variables. What the model
shows and no property can promise: of the timeouts up to 3600 that the parameter allows, 300 becomes
44; after a reboot in a calibration the flag is on, but neither timer nor training runs, and
`radar_cb` reports nothing until the flag is written again; a write of the flag while the callback
ends the calibration may leave flag, timer and training apart.

**Presence.** One call of `radar_cb` is one step: only the library's task runs it, and no other reads
its static variables. The verdict on the window is any (the window is `Detect`'s subject); a
time is in seconds and wraps. `someone` looks back from before this sample's move, as the code does,
and `TellLeft` is in the model although `s_report_someone_status` never becomes TRUE: an empty room is not
reported by itself, but with the next move. `untold`, `late` and `sight` are history variables.

**HostTool.** `serial`, `thread` and `window` say where the serial process, the Qt thread and the
main thread are. Both queues hold at most `QueueSize`. Only the serial process puts into
`queue_read`, so that its test `full()` and the put after it are one step; a waiting put is a step
of its own (`Put`). CSI rows and log rows are offered and dropped when there is no room; radar rows,
device rows and the failure event wait. A command is a token, "exit" another. `ThreadExits` is
`sys.exit()` in a Qt thread, which ends the thread with some bindings and the process with others:
both are allowed. `FindFolder` and `OpenFile` are two steps, because `Clean` may remove the folder in
between; the exception then ends the process without a failure event.

**HostConfig.** `Save` is the truncation by `open(..., "w")`, `EndOfHandler` the dump; `Stop` may come
between and leaves `Torn`, with which `Start` never succeeds again (the JSON does not parse).
The router button's handler is two steps: `RouterConnect` puts its commands, for which it may wait for
room in the queue, and `SaveRouter` goes on to the truncation. A stop between the two (`asking`)
leaves a file that is whole and names the router of an earlier press.
`command_boot` presses the router button, which toggles, so that a press of the user in the first two
seconds makes the boot command disconnect. `lastAsked` and `lastSaved` (the router when the button
last put its command, and when its handler last opened the file), `missed` (a stop came between)
and `touched` are history variables.

**HostCollect, HostTrain.** The fields are counted down in place by two timers and stay editable; a
press is a start or a stop by the button's text, as in the code. `HostTrain` adds the processes of
`evaluate_data_send`, each of which starts the device's training, sends its file, and stops it, or
fails in between. Commands reach the device in the order in which they are put, and a stop command
does not say whose training it stops. The history variables say what that does: `cutOff`, who was
training when another one's stop came, if no start came since; `failed`, whether a process failed since the last stop.

**HostRecords.** `radar_data_handle` in steps, at the points where the evaluate button's
clearing, itself in four, can come between; a row's move (`AppendMove`) and its count (`CountRow`) are two of
them. `counted` and `overlapped` are history variables: the rows counted since the last clearing began, and
how many rows were in work at some time during it. `ParseStart` of an emptied start time is `aborted`:
`strptime` raises. Timestamps are row numbers; `ClockOf` gives each its date and time for the charts.

**Viewer.** One module for seven files that differ in their ports, in when the threads start, in
whether they rotate an array or overwrite its column, and in what a draw does: an operator with
the name of each file's function says which of the common steps it takes. A cell holds the number of
its frame, so the properties are about whose data is where, not about what is computed.
`lltf` is a cell that every frame fills, `ht` one that only a frame of 256 or 384 values does; a short
frame leaves it as it was. In `dual` that is a column from index 64 on: the code takes it of a short frame,
too, and raises in mid-row, after the rotation. An exception that a thread does not catch ends the program.
In `phase` the second port's cell is a pair of arrays: thread 2 writes `csi_data_array3` and then
`csi_data_array4` (`FillLltf`, `FillFourth`), thread 1 loads the two in this order (`LoadThird`,
`Subtract`), and each of the four is a step. In `low` a cell goes through a low-pass filter,
so that its value is of several frames; its number is that of the newest.

**TrainRecog.** The button's handler in three steps, the thread in as many as it reads or writes
shared state: the label is read for each cell of a row. A frame fills all cells of a row or only the first
`ShortCells`; `org` and `3d` train with the frame itself, `low` with its whole filtered array
(`column`), where the rest of a short frame's row is of an older, longer frame. `session`, `done`, `wides` (the
long frames) and `mishaps` are history variables; the last names what the code cannot avoid; each property says which mishap it excepts. `onclick3a` counts up the
first digit of a label only.

**LogWindow.** The three copies of `worker` cut differently; `Cut` gives how much.

## 3. Runs

| Run | Bounds | Shows |
|---|---|---|
| `ping_session` | 2 sessions, 2 tasks | `HandleNotDangling`, `EndedSessionFreed`, `AbortEndsSession` |
| `ping_abort` | same | violated: `AbortStopsPing` |
| `csi_pipeline` | queue of 2, 5 buffers, 5 frames, 2 kinds | `OneOwner`, `FramesConserved`, `RowsInOrder`, `RowWithinCopy`, `HeapBounded`, `QueuedFramePrinted` |
| `collect` | 2 timers, numbers 1 and 2, wrap at 4 | `OneFilePerSample`, `LabelHasTimer`, `TimerReclaimed`, `ImplementsCollection` |
| `collect_overlap` | same | violated: `StopsAutomatically` |
| `wifi_conn` | 2 routers, 4 commands, 2 scans | `BitsAgree`, `NoLostReconnect`, `CommandReturns`, `StaysDropped` |
| `wifi_info` | same | violated: `InfoOnlyReads` |
| `radar_config` | 2 servers, 2 routers, 2 GOT_IPs, 2 commands, 2 clients; 3 writes, timeouts 10 and 20 in 16, 2 thresholds; gaps of 1, 3, 7 s, reports after 4 s, time wraps at 16, 2 calibrations | `NoLostUpdate`, `RadarCallbackStays`, `OneListener`, `ServerRestarts` (`RadarConfig`); `CalibrationAgrees`; `MovesReported` (`Presence`) |
| `detect` | 3 slots, sizes 2 and 3, outliers 1 and 2, 2 levels, wrap at 8 | `StatusOfRecentSamples` |
| `detect_in_a_row` | same | violated: `OutliersInARow` |
| `host_tool` | queues of 2, 3 lasting rows; 2 routers; fields up to 2 (collect) and 1 (train), 2 evaluations; 3 radar rows, 3 records, 1 threshold | `LastingRowsKept`, `ShutsDown`, `WindowUnblocks` (`HostTool`); `ConfigAgrees`, `AutoConnects` (`HostConfig`); `CollectAtRest`; `TrainingMatches`; `TopRecordCurrent`, `StatisticsAgree` (`HostRecords`) |
| `viewers` | 3 frames a port, 2 rows, 3 slots, 3 lines; 4 frames and 4 acts, together at most 7, 2 training rows of 2 cells, 1 of them in short frames, labels 1 and 9; 5 texts of 1 or 2 characters, trimmed above 3 | `RowsFromFrames`, `HistoryInOrder`, `ExitNoticed` (`Viewer`); `TrainedWhole`, `ButtonsBack`, `ReportPaired` (`TrainRecog`); `WindowIsRecent` |

The modules of each of the runs `radar_config`, `host_tool` and `viewers` share no variable, and no step of one enables or
disables one of another. Their interleavings would add nothing, so `focus` in the MC module names
the module whose steps a behaviour takes; the others keep their initial state, and each
module's fairness is assumed where it has the focus.

Why these bounds are enough to be of interest. Two sessions are what it takes for one to lose the
handle to another, and for an end to clear a handle that is not its own. A queue of two slots
fills up; five buffers are one more than can be in use, so an invariant that
bounds them can fail; five frames make buffers be reused. Two timers are two
collections, which may overlap anywhere; numbers wrap at 4, above both. Four commands let a
disconnect, a configuration and a scan meet one another and a lost link. Two servers are what it
takes for one to start while the other closes; two commands, clients and GOT_IPs let any two
updates overlap, or follow each other. A wrap at 8, which 3 does not
divide, moves the ring's position when the count wraps; two sizes make windows grow and shrink.

Three writes set a timeout, begin a calibration and end it, or change it, around any number of
expiries and reboots. The timeout 10 lasts more than one interval of 5, and 20 in a width of 16 is
less than one, as 260 is in 256. A gap of 7 s is longer than the 4 s (10 in the code) after which a lasting
move is reported and one of the two timeouts of the room, 1 and 3 s are shorter, and they let the time wrap.

A queue of 2 in the host tool fills while the other side waits, and 3 rows that wait are one more
than fit; the code's 64 differ in nothing but number. Three radar rows give every sequence of two
status changes, and `ClockOf` puts them into two hours of one day and midnight of the
next; 3 records are one more than `RecordChange` treats specially (20 in the code). `Press` is not repeated
before a row was counted, which would only clear what is clear. A viewer's 2 rows, 3 slots and 3
lines stand for 200, 200 and 300 or 400: 3 frames of each port fill them, shift them and start the
waterfall over (`dual` has 100 rows). Training rows are 1 in `low` and `TrainRows` in the others (5 in the code); 4 acts of
the user suffice to train, cancel, relabel and train again, and with 4 acts 3 frames are left, with 3 all 4. `TrimAbove` 3 and `Cut` 1 and 2 keep the
proportions of 3000, 1000 and 1500. The label 9 is there because it is followed by 10, and 10 by 2.

Deadlock is checked for `Detect`, whose callback can always run. The other modules' bounded
supplies (sessions, frames, timers, commands) end, so they may stop.

The four violated properties are quotes: of the help texts `ping_cmd.c:209` ("Abort running
ping") and `wifi_cmd.c:451` ("Get Wi-Fi configuration information") and of `CT/README.md:154`
("in a row") and `:176` ("it will stop automatically"). In each case the text is more than the code
does:

* a second `ping`, or a GOT_IP, overwrites the only handle to a session that still runs;
* `--collect_number 0` without a duration, what the GUI's stop button sends, is ignored
  (`app_main.c:211`), so that stop and start overlap two collections; the old timer's callback
  can use up the new number, and the new timer's takes it from 0 to 2^32 - 1;
* every `wifi_config` with an SSID configured reconnects, also `--info`;
* values above the threshold are counted anywhere in the buffer.

What the exceptions in the properties stand for, all of it seen in the code:

* the window waits for ever in `queue_write.put` if it is full and the serial process has exited,
  and the serial process stays when it waits for room in a queue that nobody reads any more;
* a tool that ends between `open(..., "w")` and `json.dump` cannot be started again;
* a tool that ends between the router button's command and its save keeps the router of the press
  before, and connects to that one at its next start;
* a press of the router button in the first two seconds makes the boot command disconnect;
* a stop does not say whose training it stops: that of a process that is done, or of the panel (its
  duration is over or zero, or its button is pressed, also in the delay before its own training),
  ends everyone's; an evaluation that fails leaves the device training until the next stop;
* clearing the tables while a row is half handled can end the tool (`esp_csi_tool.py:1037`), or leave
  the row in only one of the statistics and the charts: `StatisticsAgree` bounds the difference by the rows that
  met the clearing;
* a short frame ends `dual` (`csi_data_read_parse_dual.py:266`);
* what `phase` subtracts may take its two numbers of a cell of port 2 from two frames: the second is older than
  the first by one frame at most, or newer by any number;
* a training row of `low` has cells of an older frame after a short one, and filtered ones throughout;
* a stopped viewer does not notice that its port could not be opened;
* a cancelled training, or one that ends before its press has returned, leaves the buttons disabled;
* a label changed during a training sends the rest of the row elsewhere;
* `low` clears its two lists of reports one by one; a report meanwhile leaves them shifted, and a
  distance without its label ends the program (`csi_data_read_parse_low.py:421`). The first
  report of a list is never examined.

Fairness. `PingSession`: a command once parsed and a thread that can go on do so (FreeRTOS tasks);
commands are typed or not, and a session without a count has no last packet. `CsiPipeline`:
`app_main`, a callback that was entered, and the print task, which has priority 0 and runs when
the others wait. `Collect`: the console's task and the timer service. `WifiConn`: both
tasks, and the driver ends each attempt to connect. `RadarConfig`: the event task and the servers'
tasks; nobody has to connect to a server. `HostTool`: the serial process, the Qt thread and a main
thread that has begun to put or exit go on while they can, but reads need not succeed and the user need
do nothing; a signal that is posted is handled although other events keep coming (strong
fairness of `CloseOnSignal`), because Qt's event queue is first in, first out. `Viewer`: the
window is shown and its timer goes on. All of it except that signal is weak fairness of a task that
does not have to win a race; nothing is assumed about users, frames, routers or radio.

## 4. Proofs

TLAPS proves every invariant and every action property that a passing run checks, and the
steps of the refinement, for all values of the constants: any number of sessions, buffers, timers,
routers, frames or rows, any sizes of queues, rings, arrays and tables, any widths of counters. TLC
shows the same properties on the small instances of section 3.

| Theorem | Inductive invariant, and why the property alone is not enough |
|---|---|
| `PingTypeCorrect`, `PingHandleNotDangling` | `TypeOK /\ HandleNotDangling`: only `NewSession` puts a session into the handle, and a thread clears the handle before its session can leave the stages the handle may name |
| `CsiTypeCorrect`, `CsiOneOwner`, `CsiFramesConserved`, `CsiRowsInOrder`, `CsiRowWithinCopy`, `CsiHeapBounded` | `IInv`, see below |
| `RadarConfigTypeCorrect`, `RadarConfigOneListener`, `RadarConfigCallbackStays`, `RadarConfigNoLostUpdate` | see below |
| `WifiTypeCorrect` | types are not inductive alone: `ScansLeft` says that `wifi_scan` has scans left while it is scanning |
| `BitsAgreeAlways`, `NoLostReconnectAlways`, `StaysDroppedAlways` | `LinkIInv`: the last event that waits is the one for the present link, or the handler is at it, or the bits tell (`UpAgrees`, `DownAgrees`, with `Halfway` for the two halves of an update); a station that shall be connected has somebody who will connect it (`WillConnect`) |
| `CollectTypeCorrect`, `LabelHasTimerAlways` | `LabelIInv`: `HandlesKnown` (handles, arguments and commands name created timers) and `LabelTimer` (from where the console is follows whether the label's timer is to be created, started, or has its start in the command queue) |
| `OneFilePerSampleAlways` | `PatientIInv`, see below |
| `CollectionStepsOnly` | `LabelIInv` and `PatientIInv`: each step of `Collect` is a step of `Collection` or a stutter under its refinement mapping |
| `DetectTypeCorrect`, `StatusOfRecentSamplesAlways` | `DetectIInv`: the slot `(s_buff_count - k) % lastSize` holds the k-th latest sample as long as the size stays (`RingHolds`), and the loop has counted the slots before its index (`CountAgrees`) |
| `CalibrationAgreesAlways` | `CalibrationIInv`: where each context is says which of flag, timer, training and cloud have followed already; the time left is the span less the intervals used (`TimeAgrees`) |
| `MovesReportedAlways` | `PresenceIInv`: a move not told yet lasts, and for no longer than has passed on the clock since the last report (`UntoldLasts`) |
| `ToolTypeCorrect`, `LastingRowsKeptAlways` | `ToolIInv`: the lasting rows in the queue and in hand are those after the last one shown, without a gap (`Kept`) |
| `ConfigAgreesAlways`, `AutoConnectsAlways` | `ConfigIInv`: the same of a configuration that is half saved (`FileAgrees`) and of panels whose handler `__init__` has yet to call (`PanelsAgree`); saved and asked router differ only in the handler or after a stop in it (`AskAgrees`) |
| `CollectRests`, `TrainingMatchesAlways`, `OneTrainTimerAlways` | `CollectIInv`, `TrainIInv`: the fields will be put back to what the user set; delay and duration never count together (`OneTrainTimer`), so that a stop leaves nobody but others to be cut off (`StopMatches`) |
| `TopRecordCurrentAlways` | `RecordsIInv`: what holds at each point of `radar_data_handle`, and between the four clearings |
| `StatisticsAgreeAlways` | `CountsIInv`, see below |
| `RowsFromFramesAlways`, `HistoryInOrderAlways` | `ViewerIInv`: which frame each row, sum and line has at each step of the thread (`RowsHold`, `SumsHold`), and that what is drawn is never later than the array (`NotLater`); in `phase` the second array is at most a frame behind the first (`FourthHolds`), and so is what thread 1 took of it (`DiffHolds`), for long frames among long ones; `ThreadsWait`: no thread runs before the window is up |
| `TrainedWholeAlways`, `ButtonsBackAlways` | `TrainingIInv`: the rows of a clean session so far are of successive frames, up to the cell in work (`RowsSoFar`); `low`'s array holds the newest frame, past a short one's cells the newest long one (`ColumnHolds`); what is not written yet is zero (`ZerosAhead`); finished rows stay whole (`DoneWhole`); who still has to give the buttons back (`ButtonsHold`) |
| `ReportPairedAlways` | `ReportIInv`: the lists of distances and of labels match, but for the report that is being added |
| `WindowIsRecentAlways` | `LogIInv`: types and the property; the argument is in the lemmas about `FlattenSeq` and `IsSuffix` |

The pipeline's invariant `IInv` is `TypeOK /\ OneOwner /\ PrinterHolds /\ Contents /\ RowsInOrder /\
IsFiniteSet(Allocated) /\ FramesConserved`. `PrinterHolds`: the print task has a buffer exactly
when it is not waiting for one. `Contents`: a buffer in use holds a whole copy of a frame that
was received, with a length that its parts allow. `OneOwner` is needed for all the rest: freeing a
buffer must not take it from another owner, and it makes the count of buffers the sum of the owners', from which
`HeapBounded` follows without an invariant of its own. Each action has a lemma that it
keeps `IInv`.

The configuration's invariant is `TypeOK /\ HandleNamesAlive /\ BootFirst /\ CopiesHaveCallback /\
CopiesFresh`. `HandleNamesAlive`: a server that is alive is the one the handle names, so there are
never two; it is also why clearing the context cannot undo what another server set. `BootFirst`:
until app_main is done only an early command can be under way. `CopiesHaveCallback` and
`CopiesFresh` say of the copies in hand what the properties say of the configuration: each was read
after app_main wrote, and equals the configuration unless somebody wrote since.

`OneFilePerSample` holds because a patient operator's console and the timer service take turns
(`TurnsTaken`), and this because the timers of earlier collections have their stop command in the
queue before they could expire once more (`OldTimersStop`). Then the number only falls from the one asked for
(`NumberCounts`), and so do the rows (`RowsDescend`), of which at most one, read before the last fall, is
higher than the number.

`CountsIInv` holds `RecordsIInv`, the types, that every move counts once, and: while nothing is being
cleared the statistics miss at most the overlapped rows of those counted, and the statistics of moves differ
from the moves shown by at most the overlapped rows (and the row in hand, between its move and its count);
while the button clears, the rows counted and shown since are among the overlapped ones. The charts then need no
invariant of their own. The lemmas `SumEmpty` to `SumRaised` say of the community module's
`SumFunctionOnSet` that it does not depend on the order in which elements are chosen and is the sum over the
parts of any partition; a day's moves are partitioned by hour, an hour's by minute, all of them by day
(`BarsAre`, `HourOfDay`, `DaysTogether`). They are proved without an induction theorem, from the least
counterexample: the strict subsets of a finite set are well-founded (`SubsetsClimb`).
`FlattenSeq` is treated likewise, by positions (`Climb` in `ViewerProofs`).

The proofs use the modules' named assumptions only, which TLC evaluates in the runs. They say that
model values are distinct (`NULL` is not a buffer), that bounds are numbers, that sizes and
widths are positive, and what the code fixes: a frame has an LLTF part, a ring's sizes are at most
the array's length and below the counter's modulus, numbers asked for fit their counter, a time of day
has an hour, a minute and a second. Nothing is assumed about the order of events or about users.

Types that are proved are not checked again in the runs of the same module.

Model-checked only:

* liveness: `EndedSessionFreed`, `AbortEndsSession`, `QueuedFramePrinted`, `TimerReclaimed`,
  `CommandReturns`, `ServerRestarts`, `ShutsDown`, `WindowUnblocks` and `ExitNoticed`. They rest on
  fairness, that is on ENABLED, which the proof system does not support;
* that `Collect` meets the fairness of `Collection` (`ImplementsCollection`); `CollectionStepsOnly` is
  the rest of that refinement.

## 5. Not modelled

System commands (one library call each), print formats and logging, the generated GUI, the
binary radar library, `wifi_sta`/`wifi_ap`/`wifi_query` (unreachable). The get-started firmware is planned. Of the RainMaker
device: its LED, its window of samples (as in `Detect`), the ping to the router, and the
time left that a calibration shows. Of the host tool: the text of commands, the CSI curves and the
in-place median filter on them (`esp_csi_tool.py:519-532`: numbers only, nothing else reads them), and the
eigenvalue tables, which only show what `HostRecords` keeps. Of the viewers: what is drawn from the
arrays, the trigonometry of `csi_utils.deangle`, whose reference definition would need real numbers,
and the code for a second port in `histo`, `org`, `low` and `3d`, which no main program starts. Of
recognition: the alignment of two signals in `recogx`; its distances are arbitrary here. The
firmware's LED hold times and the evaluation server's receive buffer are planned. Known limits of
the modules: the options' ranges are taken from their help texts and the GUI (size 1 to 100, number at
least 1); `malloc` succeeds.

One observation is not a property because nothing promises otherwise: when `wifi_config` polls the
connected bit just before a connection to the old router comes up, the new SSID is stored but
`esp_wifi_connect` is ignored, and the station stays with the old router.

## 6. Plan

Proofs still of interest: that more is an implementation of something simpler, in the way of `Collection`. The host
tool's queue of rows would be one that loses only droppable rows, `Detect` a status computed from a
sequence of samples without a ring, and the pipeline's queue a channel with loss at its entry.

Modules still to write: `EvalParser` (the evaluation server's receive buffer, against a reference that
splits the whole stream), `StatusLed` (LED hold times on unsigned milliseconds that wrap), `CsiRecv` (receive callback,
queue and writer of the get-started receiver).
