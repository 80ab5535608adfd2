------------------------------ MODULE HostTool ------------------------------
(***************************************************************************)
(* The processes of the host tool, esp_csi_tool.py.  The serial process    *)
(* owns the port: it reads rows and puts them into queue_read, and takes    *)
(* the window's commands out of queue_write.  In the main process a Qt      *)
(* thread handles the rows and the window puts the commands.  Both queues   *)
(* are bounded; a put waits for room.                                       *)
(*                                                                         *)
(* A command is one token, because nothing here depends on its text; what   *)
(* the commands are and when they are sent is in HostConfig, HostCollect    *)
(* and HostTrain.                                                           *)
(***************************************************************************)
EXTENDS Integers, Sequences

CONSTANTS QueueSize,   \* room in either queue, Queue(maxsize=64)
          MaxRows      \* bound: rows of a type that waits for room

ASSUME ToolAssumption == /\ QueueSize \in Nat \ {0}
                         /\ MaxRows \in Nat

VARIABLES
  serial,        \* where the serial process is: "open" the port, "read" a row,
                 \* "file" (open one), "put" a row, "fail" (put the last one),
                 \* "exited"
  inHand,        \* the rows it is about to put: at most one
  folder,        \* the target's folder under data/ exists
  queue_read, queue_write,
  thread,        \* DataHandleThread: "get", "sleep" before its exit, "gone"
  window,        \* the main thread: "open" (in its event loop), "command" and
                 \* "exit" (putting one), "sleep", "gone" (the process ended)
  signal_exit,   \* the thread's signal to close is posted
  rows, shown    \* rows of Lasting types read, and handled by the thread

toolVars == <<serial, inHand, folder, queue_read, queue_write, thread, window,
              signal_exit, rows, shown>>

(* Rows that are dropped when queue_read is full, and rows that wait.       *)
Droppable == {"CSI_DATA", "LOG_DATA"}
Lasting   == {"RADAR_DADA", "DEVICE_INFO"}

Row(type, seq) == [type |-> type, seq |-> seq]
FailEvent      == Row("FAIL_EVENT", 0)
Full(queue)    == Len(queue) >= QueueSize

ToolInit ==
  /\ serial = "open" /\ inHand = <<>> /\ folder = FALSE
  /\ queue_read = <<>> /\ queue_write = <<>>
  /\ thread = "get" /\ window = "open" /\ signal_exit = FALSE
  /\ rows = 0 /\ shown = 0

-----------------------------------------------------------------------------
(* serial_handle, in a process of its own.                                  *)

OpenPort ==
  /\ serial = "open"
  /\ serial' = "read"
  /\ UNCHANGED <<inHand, folder, queue_read, queue_write, thread, window,
                 signal_exit, rows, shown>>

OpenFails ==
  /\ serial = "open"
  /\ serial' = "fail"
  /\ inHand' = <<FailEvent>>
  /\ UNCHANGED <<folder, queue_read, queue_write, thread, window, signal_exit,
                 rows, shown>>

(* Commands go first: a row is read only when there is none.                *)
TakeCommand ==
  /\ serial = "read" /\ queue_write # <<>>
  /\ queue_write' = Tail(queue_write)
  /\ serial' = IF Head(queue_write) = "exit" THEN "exited" ELSE "read"
  /\ UNCHANGED <<inHand, folder, queue_read, thread, window, signal_exit,
                 rows, shown>>

Reads == serial = "read" /\ queue_write = <<>>

ReadFails ==
  /\ Reads
  /\ serial' = "fail"
  /\ inHand' = <<FailEvent>>
  /\ UNCHANGED <<folder, queue_read, queue_write, thread, window, signal_exit,
                 rows, shown>>

(* full() and put(): this process is the only one that puts.  With no room  *)
(* the row is dropped, which changes nothing here.                          *)
ReadDroppable(type) ==
  /\ Reads /\ ~ Full(queue_read)
  /\ queue_read' = Append(queue_read, Row(type, 0))
  /\ UNCHANGED <<serial, inHand, folder, queue_write, thread, window,
                 signal_exit, rows, shown>>

(* Mutation: a row that waits is treated like a CSI row.                   *)
ReadLastingOrDrop(type) ==
  /\ Reads /\ rows < MaxRows
  /\ rows' = rows + 1
  /\ queue_read' = IF Full(queue_read) THEN queue_read
                   ELSE Append(queue_read, Row(type, rows + 1))
  /\ UNCHANGED <<serial, inHand, folder, queue_write, thread, window,
                 signal_exit, shown>>

ReadLasting(type) ==
  /\ Reads /\ rows < MaxRows
  /\ rows' = rows + 1
  /\ inHand' = <<Row(type, rows + 1)>>
  /\ serial' = "put"
  /\ UNCHANGED <<folder, queue_read, queue_write, thread, window, signal_exit,
                 shown>>

(* put() waits for room; after a FAIL_EVENT the process exits.              *)
Put ==
  /\ serial \in {"put", "fail"} /\ ~ Full(queue_read)
  /\ queue_read' = queue_read \o inHand
  /\ inHand' = <<>>
  /\ serial' = IF serial = "put" THEN "read" ELSE "exited"
  /\ UNCHANGED <<folder, queue_write, thread, window, signal_exit, rows, shown>>

(* A CSI row of a new sample: its folder is looked up or made, ...          *)
FindFolder ==
  /\ Reads
  /\ folder' = TRUE
  /\ serial' = "file"
  /\ UNCHANGED <<inHand, queue_read, queue_write, thread, window, signal_exit,
                 rows, shown>>

(* ... and a file opened in it; then the row is offered to the window.  If   *)
(* the folder has gone, the exception ends the process without FAIL_EVENT.  *)
OpenFile ==
  /\ serial = "file" /\ folder
  /\ serial' = "read"
  /\ queue_read' = IF Full(queue_read) THEN queue_read
                   ELSE Append(queue_read, Row("CSI_DATA", 0))
  /\ UNCHANGED <<inHand, folder, queue_write, thread, window, signal_exit,
                 rows, shown>>

OpenFileFails ==
  /\ serial = "file" /\ ~ folder
  /\ serial' = "exited"
  /\ UNCHANGED <<inHand, folder, queue_read, queue_write, thread, window,
                 signal_exit, rows, shown>>

serial_handle ==
  \/ OpenPort \/ OpenFails \/ TakeCommand \/ ReadFails \/ Put
  \/ \E type \in Droppable : ReadDroppable(type)
  \/ \E type \in Lasting : ReadLasting(type)
  \/ FindFolder \/ OpenFile \/ OpenFileFails

-----------------------------------------------------------------------------
(* DataHandleThread.run, in the main process.                               *)

(* Mutation: the thread ends on a FAIL_EVENT and emits no signal.           *)
HandleQuietly ==
  /\ thread = "get" /\ queue_read # <<>>
  /\ queue_read' = Tail(queue_read)
  /\ shown' = IF Head(queue_read).type \in Lasting THEN shown + 1 ELSE shown
  /\ thread' = IF Head(queue_read).type = "FAIL_EVENT" THEN "sleep" ELSE "get"
  /\ UNCHANGED <<serial, inHand, folder, queue_write, window, rows, signal_exit>>

(* Mutation: rows are handled in the main thread, between its handlers.      *)
HandleInMain ==
  /\ window = "open" /\ thread = "get" /\ queue_read # <<>>
  /\ queue_read' = Tail(queue_read)
  /\ shown' = IF Head(queue_read).type \in Lasting THEN shown + 1 ELSE shown
  /\ UNCHANGED <<serial, inHand, folder, queue_write, thread, window, signal_exit,
                 rows>>

Handle ==
  /\ thread = "get" /\ queue_read # <<>>
  /\ queue_read' = Tail(queue_read)
  /\ LET row == Head(queue_read)
     IN  /\ shown' = IF row.type \in Lasting THEN shown + 1 ELSE shown
         /\ signal_exit' = (signal_exit \/ row.type = "FAIL_EVENT")
         /\ thread' = IF row.type = "FAIL_EVENT" THEN "sleep" ELSE "get"
  /\ UNCHANGED <<serial, inHand, folder, queue_write, window, rows>>

(* sys.exit() in a Qt thread: depending on the binding's version it ends     *)
(* the thread or the process.                                               *)
ThreadExits ==
  /\ thread = "sleep"
  /\ thread' = "gone"
  /\ window' \in {window, "gone"}
  /\ UNCHANGED <<serial, inHand, folder, queue_read, queue_write, signal_exit,
                 rows, shown>>

run == Handle \/ ThreadExits

-----------------------------------------------------------------------------
(* The window: handlers run one after another in the main thread, which     *)
(* waits inside a handler while queue_write is full.                        *)

Command ==
  /\ window = "open"
  /\ window' = "command"
  /\ UNCHANGED <<serial, inHand, folder, queue_read, queue_write, thread,
                 signal_exit, rows, shown>>

PutCommand ==
  /\ window = "command" /\ ~ Full(queue_write)
  /\ queue_write' = Append(queue_write, "command")
  /\ window' = "open"
  /\ UNCHANGED <<serial, inHand, folder, queue_read, thread, signal_exit,
                 rows, shown>>

(* pushButton_collect_clean_show removes files and folders under data/.     *)
Clean ==
  /\ window = "open" /\ folder
  /\ folder' = FALSE
  /\ UNCHANGED <<serial, inHand, queue_read, queue_write, thread, window,
                 signal_exit, rows, shown>>

(* closeEvent, for the user or for the thread's signal.                     *)
closeEvent ==
  /\ window = "open"
  /\ window' = "exit"
  /\ UNCHANGED <<serial, inHand, folder, queue_read, queue_write, thread,
                 signal_exit, rows, shown>>

CloseOnSignal == signal_exit /\ closeEvent

PutExit ==
  /\ window = "exit" /\ ~ Full(queue_write)
  /\ queue_write' = Append(queue_write, "exit")
  /\ window' = "sleep"
  /\ UNCHANGED <<serial, inHand, folder, queue_read, thread, signal_exit,
                 rows, shown>>

(* os._exit(0) ends the thread as well.                                     *)
Exit ==
  /\ window = "sleep"
  /\ window' = "gone" /\ thread' = "gone"
  /\ UNCHANGED <<serial, inHand, folder, queue_read, queue_write, signal_exit,
                 rows, shown>>

MainThread == Command \/ PutCommand \/ Clean \/ closeEvent \/ PutExit \/ Exit

ToolNext == serial_handle \/ run \/ MainThread

(* Each process and thread goes on while it can; Qt's event queue is first   *)
(* in first out, so that a posted signal is handled among other events.     *)
(* Nothing is assumed of the port, the user or which exit happens.          *)
SerialGoesOn == OpenPort \/ OpenFails \/ TakeCommand \/ Put \/ OpenFile \/ OpenFileFails
WindowGoesOn == PutCommand \/ PutExit \/ Exit

ToolFairness ==
  /\ WF_toolVars(SerialGoesOn)
  /\ WF_toolVars(run)
  /\ WF_toolVars(WindowGoesOn)
  /\ SF_toolVars(CloseOnSignal)

ToolSpec == ToolInit /\ [][ToolNext]_toolVars /\ ToolFairness

-----------------------------------------------------------------------------
(* The serial process has a row in hand exactly when it is putting one, and *)
(* no queue outgrows its size.                                              *)
ToolTypeOK ==
  /\ serial \in {"open", "read", "file", "put", "fail", "exited"}
  /\ inHand \in Seq([type : Lasting \cup {"FAIL_EVENT"}, seq : Nat])
  /\ Len(inHand) = (IF serial \in {"put", "fail"} THEN 1 ELSE 0)
  /\ folder \in BOOLEAN /\ signal_exit \in BOOLEAN
  /\ queue_read \in Seq([type : Lasting \cup Droppable \cup {"FAIL_EVENT"},
                         seq : Nat])
  /\ queue_write \in Seq({"command", "exit"})
  /\ Len(queue_read) <= QueueSize /\ Len(queue_write) <= QueueSize
  /\ thread \in {"get", "sleep", "gone"}
  /\ window \in {"open", "command", "exit", "sleep", "gone"}
  /\ rows \in 0..MaxRows /\ shown \in 0..MaxRows

(* However full the queue is and whoever stops when, the radar rows and     *)
(* device rows that were read are those handled, those queued and the one    *)
(* in hand, without a gap and in order.                                     *)
LastingRowsKept ==
  LET waiting == queue_read \o inHand
      lasting == {k \in 1..Len(waiting) : waiting[k].type \in Lasting}
  IN  /\ shown <= rows
      /\ {waiting[k].seq : k \in lasting} = (shown + 1)..rows
      /\ \A j, k \in lasting : j < k => waiting[j].seq < waiting[k].seq

(* When the port cannot be opened or read, the window closes in the end,     *)
(* unless it waits to put a command that nobody will take any more.  Once    *)
(* the window is gone, for that or any other reason, the serial process ends *)
(* and frees the port, unless it waits to put a row that nobody will take.   *)
ShutsDown ==
  /\ serial = "fail" ~> \/ window = "gone"
                        \/ window \in {"command", "exit"} /\ Full(queue_write)
  /\ window = "gone" ~> \/ serial = "exited"
                        \/ serial \in {"put", "fail"} /\ Full(queue_read)

(* While the serial process lives, a window that waits for room in one       *)
(* queue gets it, even if the serial process waits for room in the other.   *)
WindowUnblocks ==
  window \in {"command", "exit"} ~> \/ window \notin {"command", "exit"}
                                    \/ serial = "exited"
=============================================================================
