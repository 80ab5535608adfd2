------------------------------- MODULE Collect -------------------------------
(***************************************************************************)
(* Collecting labelled CSI data: examples/esp-radar/console_test,          *)
(* main/app_main.c, and serial_handle of tools/esp_csi_tool.py.            *)
(*                                                                         *)
(* "radar --collect_number N --collect_tagets X --collect_duration D"      *)
(* makes N, X the number and label of every row that is printed, and       *)
(* starts an auto-reload timer whose callback counts the number down every *)
(* D ms and ends the collection.  Three tasks share the number, the label  *)
(* and the timer's handle without a lock: the console, FreeRTOS's timer    *)
(* service, which runs the callback, and the print task.  The host opens a *)
(* new file whenever the number or the label of the rows changes.          *)
(*                                                                         *)
(* FreeRTOS's timers are external: xTimerStart, Stop and Delete put a      *)
(* command into a queue; the timer service empties the queue after every   *)
(* callback and whenever it has nothing else to do.                        *)
(***************************************************************************)
EXTENDS Naturals, Sequences

CONSTANTS
  Timers,      (* Identities of timers; their number bounds the commands.  *)
  Numbers,     (* Values of --collect_number: the GUI's start at 1.        *)
  Modulus,     (* collect_number is an uint32_t: 2^32 in the code.         *)
  QueueLength, (* Slots of the timer service's command queue: 10.          *)
  NULL         (* No timer.                                                *)

ASSUME TimersAssumption  == NULL \notin Timers
ASSUME ModulusAssumption == Modulus \in Nat \ {0} /\ Numbers \subseteq 1..(Modulus - 1)
ASSUME QueueAssumption   == QueueLength \in Nat \ {0}

VARIABLES
  collect_number,          (* g_console_input_config.collect_number.       *)
  labelled,                (* Is collect_taget other than "unknown"?       *)
  g_collect_timer_handele, (* The handle of the collection's timer.        *)
  wanted,                  (* --collect_number of the last command.        *)
  console,                 (* Where the radar command is.                  *)
  consoleArg,              (* The handle it has loaded for a call.         *)
  service,                 (* What the timer service is doing.             *)
  serviceArg,              (* The handle, or the number, it has loaded.    *)
  commands,                (* The timer service's command queue.           *)
  timer,                   (* State of each timer.                         *)
  printer,                 (* Has the print task read the number of a row? *)
  rowNumber,               (* The number it has read.                      *)
  taget_last,              (* Host: was the last row labelled?             *)
  taget_seq_last,          (* Host: number of the last row.                *)
  files,                   (* Host: numbers of the files that were opened  *)
                           (* since the last command.                      *)
  patient                  (* Does the operator wait for a collection to   *)
                           (* end before the next?  Fixed for a behaviour. *)

consoleVars == <<wanted, console, consoleArg>>
serviceVars == <<service, serviceArg>>
timerVars   == <<commands, timer>>
printVars   == <<printer, rowNumber>>
hostVars    == <<taget_last, taget_seq_last, files>>
vars == <<collect_number, labelled, g_collect_timer_handele, consoleVars, serviceVars,
          timerVars, printVars, hostVars, patient>>

Handles == Timers \union {NULL}

(* The device as it is after a reset: FreeRTOS's assertions cause one. *)
Reset ==
  /\ collect_number' = 0
  /\ labelled' = FALSE
  /\ g_collect_timer_handele' = NULL
  /\ wanted' = 0
  /\ console' = "idle"
  /\ consoleArg' = NULL
  /\ service' = "idle"
  /\ serviceArg' = NULL
  /\ commands' = <<>>
  /\ timer' = [t \in Timers |-> IF timer[t] = "none" THEN "none" ELSE "deleted"]
  /\ printer' = "idle"
  /\ rowNumber' = 0
  /\ UNCHANGED <<hostVars, patient>>

Init ==
  /\ collect_number = 0
  /\ labelled = FALSE
  /\ g_collect_timer_handele = NULL
  /\ wanted = 0
  /\ console = "idle"
  /\ consoleArg = NULL
  /\ service = "idle"
  /\ serviceArg = NULL
  /\ commands = <<>>
  /\ timer = [t \in Timers |-> "none"]
  /\ printer = "idle"
  /\ rowNumber = 0
  /\ taget_last = FALSE
  /\ taget_seq_last = 0
  /\ files = <<>>
  /\ patient \in BOOLEAN

-----------------------------------------------------------------------------
(* The radar command, in the console's task.                               *)

ConsoleStep(from, to) ==
  /\ console = from
  /\ console' = to
  /\ UNCHANGED <<serviceVars, printVars, hostVars, patient>>

MayBegin == \E t \in Timers : timer[t] = "none"

(* A patient operator waits until rows come that have neither the label    *)
(* nor a number of the collection before.                                  *)
CollectionOver == ~labelled /\ ~taget_last /\ rowNumber = 0

SetNumber ==
  /\ console = "idle" /\ MayBegin
  /\ patient => CollectionOver
  /\ wanted' \in Numbers
  /\ collect_number' = wanted'
  /\ console' = "label"
  /\ files' = <<>>
  /\ UNCHANGED <<labelled, g_collect_timer_handele, consoleArg, serviceVars, timerVars,
                 printVars, taget_last, taget_seq_last, patient>>

SetTaget ==
  /\ ConsoleStep("label", "test")
  /\ labelled' = TRUE
  /\ UNCHANGED <<collect_number, g_collect_timer_handele, wanted, consoleArg, timerVars>>

(* Is there a timer already? *)
TestHandle ==
  /\ ConsoleStep("test", IF g_collect_timer_handele = NULL THEN "create" ELSE "stop")
  /\ consoleArg' = g_collect_timer_handele
  /\ UNCHANGED <<collect_number, labelled, g_collect_timer_handele, wanted, timerVars>>

LoadHandle(from, to) ==
  /\ g_collect_timer_handele # NULL
  /\ ConsoleStep(from, to)
  /\ consoleArg' = g_collect_timer_handele
  /\ UNCHANGED <<collect_number, labelled, g_collect_timer_handele, wanted, timerVars>>

(* xTimerStart and xTimerDelete assert that their handle is not NULL. *)
LoadNull ==
  /\ console \in {"load_delete", "load_start"} /\ g_collect_timer_handele = NULL
  /\ Reset

(* The console waits for room in the queue. *)
Post(from, to, command) ==
  /\ Len(commands) < QueueLength
  /\ ConsoleStep(from, to)
  /\ commands' = Append(commands, <<command, consoleArg>>)
  /\ consoleArg' = NULL
  /\ UNCHANGED <<collect_number, labelled, g_collect_timer_handele, wanted, timer>>

CreateTimer ==
  /\ ConsoleStep("create", "load_start")
  /\ \E t \in Timers :
       /\ t = CHOOSE u \in Timers : timer[u] = "none"
       /\ timer' = [timer EXCEPT ![t] = "dormant"]
       /\ g_collect_timer_handele' = t
  /\ UNCHANGED <<collect_number, labelled, wanted, consoleArg, commands>>

Console ==
  \/ SetTaget
  \/ TestHandle
  \/ Post("stop", "load_delete", "stop")
  \/ LoadHandle("load_delete", "delete")
  \/ Post("delete", "create", "delete")
  \/ CreateTimer
  \/ LoadHandle("load_start", "start")
  \/ Post("start", "idle", "start")
  \/ LoadNull

-----------------------------------------------------------------------------
(* The timer service: collect_timercb, and the commands.                   *)

OthersUnchanged == UNCHANGED <<consoleVars, printVars, hostVars, patient>>

(* Once the callback has returned, the commands queued so far come first. *)
Return == service' = IF commands' = <<>> THEN "idle" ELSE "drain"

(* collect_number--: load ... *)
Expire(t) ==
  /\ service = "idle" /\ timer[t] = "active"
  /\ service' = "store"
  /\ serviceArg' = collect_number
  /\ UNCHANGED <<collect_number, labelled, g_collect_timer_handele, timerVars>>
  /\ OthersUnchanged

(* Mutation: the collection goes on for one more period.                    *)
StoreTestsBefore ==
  /\ service = "store"
  /\ collect_number' = (serviceArg + Modulus - 1) % Modulus
  /\ IF serviceArg = 0
     THEN service' = "load_stop" /\ UNCHANGED <<commands, serviceArg>>
     ELSE UNCHANGED commands /\ serviceArg' = NULL /\ Return
  /\ UNCHANGED <<labelled, g_collect_timer_handele, timer>>
  /\ OthersUnchanged

(* ... and store; the result decides what follows. *)
Store ==
  /\ service = "store"
  /\ collect_number' = (serviceArg + Modulus - 1) % Modulus
  /\ serviceArg' = NULL
  /\ UNCHANGED <<labelled, g_collect_timer_handele, timerVars>>
  /\ IF collect_number' = 0 THEN service' = "load_stop" ELSE Return
  /\ OthersUnchanged

ServiceLoads(from, to) ==
  /\ g_collect_timer_handele # NULL
  /\ service = from
  /\ service' = to
  /\ serviceArg' = g_collect_timer_handele
  /\ UNCHANGED <<collect_number, labelled, g_collect_timer_handele, timerVars>>
  /\ OthersUnchanged

ServiceLoadsNull ==
  /\ service \in {"load_stop", "load_delete"} /\ g_collect_timer_handele = NULL
  /\ Reset

(* Mutation: the callback only stops its timer. *)
ServicePostsStop(from, to, command) ==
  /\ service = from
  /\ service' = to
  /\ commands' = IF command = "stop" /\ Len(commands) < QueueLength
                 THEN Append(commands, <<command, serviceArg>>)
                 ELSE commands
  /\ serviceArg' = NULL
  /\ UNCHANGED <<collect_number, labelled, g_collect_timer_handele, timer>>
  /\ OthersUnchanged

(* The callback does not wait: a command that finds no room is lost. *)
ServicePosts(from, to, command) ==
  /\ service = from
  /\ service' = to
  /\ commands' = IF Len(commands) < QueueLength
                 THEN Append(commands, <<command, serviceArg>>)
                 ELSE commands
  /\ serviceArg' = NULL
  /\ UNCHANGED <<collect_number, labelled, g_collect_timer_handele, timer>>
  /\ OthersUnchanged

ForgetHandle ==
  /\ service = "forget"
  /\ service' = "unlabel"
  /\ g_collect_timer_handele' = NULL
  /\ UNCHANGED <<collect_number, labelled, serviceArg, timerVars>>
  /\ OthersUnchanged

(* Mutation: the label is not reset. *)
UnlabelForgotten ==
  /\ service = "unlabel"
  /\ UNCHANGED <<collect_number, labelled, g_collect_timer_handele, serviceArg, timerVars>>
  /\ Return
  /\ OthersUnchanged

Unlabel ==
  /\ service = "unlabel"
  /\ labelled' = FALSE
  /\ UNCHANGED <<collect_number, g_collect_timer_handele, serviceArg, timerVars>>
  /\ Return
  /\ OthersUnchanged

(* The first command of the queue.  A command for a timer that was deleted *)
(* uses freed memory: it goes unnoticed, or the heap's assertions reset    *)
(* the device.                                                             *)
Command ==
  LET command == Head(commands)[1]
      t == Head(commands)[2]
  IN  /\ service \in {"idle", "drain"} /\ commands # <<>>
      /\ \/ /\ commands' = Tail(commands)
            /\ timer' = IF timer[t] = "deleted" THEN timer
                        ELSE [timer EXCEPT ![t] = CASE command = "start"  -> "active"
                                                    [] command = "stop"   -> "dormant"
                                                    [] command = "delete" -> "deleted"]
            /\ UNCHANGED <<collect_number, labelled, g_collect_timer_handele, serviceArg>>
            /\ Return
            /\ OthersUnchanged
         \/ timer[t] = "deleted" /\ Reset

Service ==
  \/ \E t \in Timers : Expire(t)
  \/ Store
  \/ ServiceLoads("load_stop", "stop")
  \/ ServicePosts("stop", "load_delete", "stop")
  \/ ServiceLoads("load_delete", "delete")
  \/ ServicePosts("delete", "forget", "delete")
  \/ ForgetHandle
  \/ Unlabel
  \/ ServiceLoadsNull
  \/ Command

-----------------------------------------------------------------------------
(* The print task, and the host that reads its row.                        *)

(* The number is an argument of sprintf ... *)
ReadNumber ==
  /\ printer = "idle"
  /\ printer' = "row"
  /\ rowNumber' = collect_number
  /\ UNCHANGED <<collect_number, labelled, g_collect_timer_handele, consoleVars, serviceVars,
                 timerVars, hostVars, patient>>

RowDone ==
  /\ printer = "row"
  /\ printer' = "idle"
  /\ rowNumber' = 0
  /\ UNCHANGED <<collect_number, labelled, g_collect_timer_handele, consoleVars, serviceVars,
                 timerVars, patient>>

(* Mutation: every labelled row starts a file. *)
RowAlone ==
  /\ RowDone
  /\ files' = IF labelled THEN Append(files, rowNumber) ELSE files
  /\ taget_last' = labelled
  /\ taget_seq_last' = rowNumber

(* ... and the label is read while sprintf runs.  Rows reach the host in   *)
(* order; it starts a file for a labelled row whose label or number is not *)
(* the last row's.                                                         *)
Row ==
  /\ RowDone
  /\ files' = IF labelled /\ (~taget_last \/ taget_seq_last # rowNumber)
              THEN Append(files, rowNumber)
              ELSE files
  /\ taget_last' = labelled
  /\ taget_seq_last' = rowNumber

(* A row that was damaged on its way is ignored. *)
RowIgnored == RowDone /\ UNCHANGED hostVars

Next ==
  \/ SetNumber
  \/ Console
  \/ Service
  \/ ReadNumber
  \/ Row
  \/ RowIgnored

Spec == Init /\ [][Next]_vars

(* The console's task finishes a command, and the timer service runs       *)
(* callbacks and commands as long as there is a timer or a command.        *)
FairSpec == Spec /\ WF_vars(Console) /\ WF_vars(Service)

-----------------------------------------------------------------------------
(* Properties.                                                             *)

TypeOK ==
  /\ collect_number \in 0..(Modulus - 1)
  /\ labelled \in BOOLEAN
  /\ g_collect_timer_handele \in Handles
  /\ wanted \in Numbers \union {0}
  /\ console \in {"idle", "label", "test", "stop", "load_delete", "delete", "create",
                  "load_start", "start"}
  /\ consoleArg \in Handles
  /\ service \in {"idle", "store", "load_stop", "stop", "load_delete", "delete", "forget",
                  "unlabel", "drain"}
  /\ serviceArg \in Handles \union 0..(Modulus - 1)
  /\ commands \in Seq({"start", "stop", "delete"} \X Timers)
  /\ timer \in [Timers -> {"none", "dormant", "active", "deleted"}]
  /\ printer \in {"idle", "row"}
  /\ rowNumber \in 0..(Modulus - 1)
  /\ taget_last \in BOOLEAN
  /\ taget_seq_last \in 0..(Modulus - 1)
  /\ files \in Seq(0..(Modulus - 1))
  /\ patient \in BOOLEAN

(* A patient operator's collection puts each of its samples into one file: *)
(* the files' numbers descend from the number asked for, also when the     *)
(* print task reads the number before the console or the timer changes it  *)
(* and the label after.  The first file may be one more, of rows that mix  *)
(* the number zero left by the collection before with the new label.       *)
OneFilePerSample ==
  LET samples == IF files # <<>> /\ files[1] = 0 THEN Tail(files) ELSE files
  IN  patient => /\ \A i \in 1..Len(samples) : samples[i] <= wanted
                 /\ \A i, j \in 1..Len(samples) : i < j => samples[i] > samples[j]

(* Even if commands and callbacks overlap, rows are not left with a label  *)
(* that no timer will take away.                                           *)
LabelHasTimer ==
  labelled /\ console = "idle" /\ service = "idle" =>
    /\ g_collect_timer_handele # NULL
    /\ \/ timer[g_collect_timer_handele] = "active"
       \/ \E i \in 1..Len(commands) : commands[i] = <<"start", g_collect_timer_handele>>

(* The timer of a patient operator's collection is deleted in the end. *)
TimerReclaimed ==
  [](patient) => \A t \in Timers : timer[t] = "active" ~> timer[t] = "deleted"

(* A patient operator's collection is what the abstract specification      *)
(* promises; a behaviour with an impatient operator maps to one that       *)
(* collects nothing.                                                       *)
Abstract == INSTANCE Collection WITH
  labelled <- patient /\ labelled,
  left     <- IF patient /\ labelled THEN collect_number ELSE 0

ImplementsCollection == Abstract!Spec

(* "After the collection is over, it will stop automatically", says the    *)
(* README.  It does not if the operator starts a collection while another  *)
(* one runs, for example by the GUI's stop and start, whose stop command   *)
(* the device ignores: the old timer's callback may count the new number   *)
(* down to zero, and the new timer's from zero to 2^32 - 1.                *)
StopsAutomatically == labelled => collect_number <= wanted
=============================================================================
