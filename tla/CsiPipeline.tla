----------------------------- MODULE CsiPipeline -----------------------------
(***************************************************************************)
(* From the CSI callback to the serial port, in                            *)
(* examples/esp-radar/console_test/main/app_main.c.                        *)
(*                                                                         *)
(* The radar library's task calls wifi_csi_raw_cb with every filtered CSI  *)
(* frame.  The callback copies the frame into a new buffer and sends the   *)
(* buffer's address to g_csi_info_queue without waiting;                   *)
(* csi_data_print_task receives it, prints one row and frees the buffer.   *)
(* The console turns the callback on and off and chooses how much of a     *)
(* frame is printed.  app_main starts the console before it configures the *)
(* radar and creates the queue.                                            *)
(***************************************************************************)
EXTENDS Naturals, Sequences, FiniteSets

CONSTANTS
  Buffers,     (* Blocks malloc can return.                                *)
  QueueSize,   (* Slots of g_csi_info_queue: 64 in the code.               *)
  FrameKinds,  (* Lengths of the parts of a frame after filtering.         *)
  NULL,        (* No buffer.                                               *)
  MaxFrames    (* Bound: frames the library delivers.                      *)

ASSUME QueueAssumption  == QueueSize \in Nat \ {0}
ASSUME BufferAssumption == NULL \notin Buffers
ASSUME FrameAssumption  == FrameKinds \subseteq [llft : Nat \ {0}, ht : Nat, stbc : Nat]
ASSUME BoundAssumption  == MaxFrames \in Nat

VARIABLES
  boot,         (* How far app_main is.                                    *)
  filtered_cb,  (* Is wifi_csi_raw_cb registered with the radar?           *)
  console,      (* What the radar command is about to register.            *)
  csi_output_type, (* g_console_input_config.csi_output_type.              *)
  queue,        (* g_csi_info_queue.                                       *)
  heap,         (* What each buffer holds: a frame, or NULL if it is free. *)
  q_data,       (* The buffer wifi_csi_raw_cb is filling.                  *)
  info,         (* The buffer csi_data_print_task has received.            *)
  printer,      (* Where csi_data_print_task is.                           *)
  received,     (* Frames wifi_csi_raw_cb was called with.                 *)
  dropped,      (* Frames it could not queue.                              *)
  count,        (* Rows printed.                                           *)
  lastRow       (* Number of the frame in the row printed last.            *)

consoleVars == <<filtered_cb, console, csi_output_type>>
printVars   == <<info, printer, count, lastRow>>
vars == <<boot, consoleVars, queue, heap, q_data, printVars, received, dropped>>

(* "other" stands for any name the print task does not know: one that was  *)
(* typed, or one that is seen while strcpy is half-way through it.         *)
OutputTypes == {"LLFT", "HT-LFT", "STBC-HT-LTF", "other"}

(* A frame as it was copied: its number, its parts, the length of the copy *)
(* and the length the print task shows.                                    *)
Frames == [number : Nat, parts : FrameKinds, copied : Nat, valid_len : Nat]

ASSUME NullAssumption == NULL \notin Frames

FullLength(parts) == parts.llft + parts.ht + parts.stbc

(* The names the print task compares csi_output_type with, in this order, *)
(* and the part of a frame each of them selects.                           *)
Tests == {"LLFT", "HT-LFT", "STBC-HT-LTF"}

Selected(name, parts) ==
  CASE name = "LLFT"        -> parts.llft
    [] name = "HT-LFT"      -> parts.llft + parts.ht
    [] name = "STBC-HT-LTF" -> FullLength(parts)

Free      == {b \in Buffers : heap[b] = NULL}
Allocated == {b \in Buffers : heap[b] # NULL}
Queued    == {queue[i] : i \in 1..Len(queue)}

Init ==
  /\ boot = "console"
  /\ filtered_cb = FALSE
  /\ console = "idle"
  /\ csi_output_type = "LLFT"
  /\ queue = <<>>
  /\ heap = [b \in Buffers |-> NULL]
  /\ q_data = NULL
  /\ info = NULL
  /\ printer = "receive"
  /\ received = 0
  /\ dropped = 0
  /\ count = 0
  /\ lastRow = 0

-----------------------------------------------------------------------------
(* app_main, after it has started the console.                             *)

(* The radar gets its first configuration, whose wifi_csi_filtered_cb is   *)
(* NULL whatever the console has registered by then, and starts.           *)
StartRadar ==
  /\ boot = "console"
  /\ boot' = "radar"
  /\ filtered_cb' = FALSE
  /\ UNCHANGED <<console, csi_output_type, queue, heap, q_data, printVars, received, dropped>>

CreateQueue ==
  /\ boot = "radar"
  /\ boot' = "queue"
  /\ UNCHANGED <<consoleVars, queue, heap, q_data, printVars, received, dropped>>

-----------------------------------------------------------------------------
(* "radar --csi_output_type T": the name is copied before the callback is  *)
(* registered, and is kept when T is NULL.  How the whole configuration is *)
(* read and written back is the subject of RadarConfig.                    *)

ChooseType ==
  /\ console = "idle"
  /\ \/ \E type \in OutputTypes :
          /\ csi_output_type' = type
          /\ console' = "register"
     \/ /\ console' = "unregister"
        /\ UNCHANGED csi_output_type
  /\ UNCHANGED <<boot, filtered_cb, queue, heap, q_data, printVars, received, dropped>>

RegisterCallback ==
  /\ console # "idle"
  /\ filtered_cb' = (console = "register")
  /\ console' = "idle"
  /\ UNCHANGED <<boot, csi_output_type, queue, heap, q_data, printVars, received, dropped>>

-----------------------------------------------------------------------------
(* wifi_csi_raw_cb, in the radar library's task.                           *)

(* Which of the free blocks malloc returns makes no difference. *)
Malloc == CHOOSE b \in Buffers : heap[b] = NULL

(* Mutation: the copy leaves room for the LLTF part alone. *)
CopyShortFrame ==
  /\ boot # "console" /\ filtered_cb /\ q_data = NULL
  /\ received < MaxFrames
  /\ Free # {}
  /\ q_data' = Malloc
  /\ \E parts \in FrameKinds :
       heap' = [heap EXCEPT ![Malloc] = [number |-> received + 1, parts |-> parts,
                                         copied |-> parts.llft,
                                         valid_len |-> FullLength(parts)]]
  /\ received' = received + 1
  /\ UNCHANGED <<boot, consoleVars, queue, printVars, dropped>>

(* Copy a frame.  The library's valid_len is the length of all its parts.  *)
CopyFrame ==
  /\ boot # "console" /\ filtered_cb /\ q_data = NULL
  /\ received < MaxFrames
  /\ Free # {}
  /\ q_data' = Malloc
  /\ \E parts \in FrameKinds :
       heap' = [heap EXCEPT ![Malloc] = [number |-> received + 1, parts |-> parts,
                                         copied |-> FullLength(parts),
                                         valid_len |-> FullLength(parts)]]
  /\ received' = received + 1
  /\ UNCHANGED <<boot, consoleVars, queue, printVars, dropped>>

CanSend == boot = "queue" /\ Len(queue) < QueueSize

(* Mutations: the buffer is freed although it was queued, or it is sent to *)
(* the front of the queue.                                                 *)
SendAndFree ==
  /\ q_data # NULL
  /\ CanSend
  /\ queue' = Append(queue, q_data)
  /\ heap' = [heap EXCEPT ![q_data] = NULL]
  /\ q_data' = NULL
  /\ UNCHANGED <<boot, consoleVars, printVars, received, dropped>>

SendToFront ==
  /\ q_data # NULL
  /\ CanSend
  /\ queue' = <<q_data>> \o queue
  /\ q_data' = NULL
  /\ UNCHANGED <<boot, consoleVars, heap, printVars, received, dropped>>

(* The queue takes the buffer's address: from now on the buffer is the     *)
(* print task's.                                                           *)
SendBuffer ==
  /\ q_data # NULL
  /\ CanSend
  /\ queue' = Append(queue, q_data)
  /\ q_data' = NULL
  /\ UNCHANGED <<boot, consoleVars, heap, printVars, received, dropped>>

(* Mutation: a frame that finds no room is not freed. *)
DropAndLeak ==
  /\ q_data # NULL
  /\ ~CanSend
  /\ q_data' = NULL
  /\ dropped' = dropped + 1
  /\ UNCHANGED <<boot, consoleVars, queue, heap, printVars, received>>

(* No queue yet, or no room in it: the frame is dropped. *)
DropBuffer ==
  /\ q_data # NULL
  /\ ~CanSend
  /\ heap' = [heap EXCEPT ![q_data] = NULL]
  /\ q_data' = NULL
  /\ dropped' = dropped + 1
  /\ UNCHANGED <<boot, consoleVars, queue, printVars, received>>

-----------------------------------------------------------------------------
(* csi_data_print_task.                                                    *)

ReceiveBuffer ==
  /\ printer = "receive" /\ queue # <<>>
  /\ info' = Head(queue)
  /\ queue' = Tail(queue)
  /\ printer' = "LLFT"
  /\ UNCHANGED <<boot, consoleVars, heap, q_data, count, lastRow, received, dropped>>

SelectLength ==
  /\ printer \in Tests /\ csi_output_type = printer
  /\ heap' = [heap EXCEPT ![info].valid_len = Selected(printer, heap[info].parts)]
  /\ printer' = "print"
  /\ UNCHANGED <<boot, consoleVars, queue, q_data, info, count, lastRow, received, dropped>>

(* Mutation: a type the task does not know makes it skip the row. *)
TestOrSkip ==
  /\ printer \in Tests /\ csi_output_type # printer
  /\ IF printer = "STBC-HT-LTF"
     THEN /\ heap' = [heap EXCEPT ![info] = NULL]
          /\ info' = NULL
          /\ printer' = "receive"
     ELSE /\ printer' = IF printer = "LLFT" THEN "HT-LFT" ELSE "STBC-HT-LTF"
          /\ UNCHANGED <<heap, info>>
  /\ UNCHANGED <<boot, consoleVars, queue, q_data, count, lastRow, received, dropped>>

(* The console may change the type between two comparisons, so that a      *)
(* frame may pass all three although each of the types is one it knows.    *)
NextTest ==
  /\ printer \in Tests /\ csi_output_type # printer
  /\ printer' = CASE printer = "LLFT"   -> "HT-LFT"
                   [] printer = "HT-LFT" -> "STBC-HT-LTF"
                   [] OTHER              -> "print"
  /\ UNCHANGED <<boot, consoleVars, queue, heap, q_data, info, count, lastRow, received, dropped>>

(* Mutation: the row is printed and its buffer kept. *)
PrintAndLeak ==
  /\ printer = "print"
  /\ count' = count + 1
  /\ lastRow' = heap[info].number
  /\ info' = NULL
  /\ printer' = "receive"
  /\ UNCHANGED <<boot, consoleVars, queue, heap, q_data, received, dropped>>

PrintRow ==
  /\ printer = "print"
  /\ count' = count + 1
  /\ lastRow' = heap[info].number
  /\ heap' = [heap EXCEPT ![info] = NULL]
  /\ info' = NULL
  /\ printer' = "receive"
  /\ UNCHANGED <<boot, consoleVars, queue, q_data, received, dropped>>

Callback == CopyFrame \/ SendBuffer \/ DropBuffer
Printing == ReceiveBuffer \/ SelectLength \/ NextTest \/ PrintRow

Next ==
  \/ StartRadar \/ CreateQueue
  \/ ChooseType \/ RegisterCallback
  \/ Callback
  \/ Printing

Spec == Init /\ [][Next]_vars

(* app_main and a callback that was called go on, and the print task, of   *)
(* priority 0, runs whenever the others wait.                              *)
Fairness ==
  /\ WF_vars(StartRadar \/ CreateQueue)
  /\ WF_vars(SendBuffer \/ DropBuffer)
  /\ WF_vars(Printing)

FairSpec == Spec /\ Fairness

-----------------------------------------------------------------------------
(* Properties.                                                             *)

TypeOK ==
  /\ boot \in {"console", "radar", "queue"}
  /\ filtered_cb \in BOOLEAN
  /\ console \in {"idle", "register", "unregister"}
  /\ csi_output_type \in OutputTypes
  /\ queue \in Seq(Buffers) /\ Len(queue) <= QueueSize
  /\ heap \in [Buffers -> Frames \union {NULL}]
  /\ q_data \in Buffers \union {NULL}
  /\ info \in Buffers \union {NULL}
  /\ printer \in Tests \union {"receive", "print"}
  /\ received \in Nat /\ dropped \in Nat /\ count \in Nat /\ lastRow \in Nat

(* Every buffer that is in use has exactly one owner, the callback, one    *)
(* slot of the queue or the print task, and every owner's buffer is in     *)
(* use: no frame is leaked, freed twice or used after it was freed.        *)
OneOwner ==
  /\ Allocated = Queued \union ({q_data, info} \ {NULL})
  /\ {q_data, info} \intersect Queued = {}
  /\ q_data = info => q_data = NULL
  /\ \A i, j \in 1..Len(queue) : queue[i] = queue[j] => i = j

(* Every frame the callback was called with was printed or dropped, once,  *)
(* or is in a buffer.                                                      *)
FramesConserved == received = count + dropped + Cardinality(Allocated)

(* Rows are printed in the order in which the frames came, although a      *)
(* buffer is reused as soon as it is freed.                                *)
RowsInOrder ==
  LET Number(b) == heap[b].number
  IN  /\ \A i \in 1..Len(queue) : Number(queue[i]) > lastRow
      /\ \A i, j \in 1..Len(queue) : i < j => Number(queue[i]) < Number(queue[j])
      /\ info # NULL => /\ Number(info) > lastRow
                        /\ \A b \in Queued : Number(info) < Number(b)
      /\ q_data # NULL => /\ Number(q_data) > lastRow
                          /\ \A b \in Queued \union ({info} \ {NULL}) :
                               Number(b) < Number(q_data)

(* The print task reads no more of a buffer than was copied into it,       *)
(* whichever type the console chose since the frame was copied.            *)
RowWithinCopy ==
  info # NULL => heap[info].valid_len \in 1..heap[info].copied

(* However fast frames come, no more buffers are in use than the queue has *)
(* slots, and one each for the callback and the print task.                *)
HeapBounded == Cardinality(Allocated) <= QueueSize + 2

(* Every frame that was queued gets its row: the rows that the console's   *)
(* commands or later frames overtake are not lost.                         *)
QueuedFramePrinted ==
  \A n \in 1..MaxFrames :
    (\E b \in Queued : heap[b].number = n) ~> lastRow = n
=============================================================================
