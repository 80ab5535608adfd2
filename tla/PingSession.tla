----------------------------- MODULE PingSession -----------------------------
(***************************************************************************)
(* The "ping" console command of examples/esp-radar/console_test:          *)
(* components/commands/src/ping_cmd.c.                                     *)
(*                                                                         *)
(* The command keeps one handle, g_ping_handle, for all the sessions it    *)
(* creates.  It runs in two tasks: the console's REPL task, when a user or *)
(* the GUI types it, and the event task, because app_main.c runs           *)
(* "ping -i 10" on every GOT_IP.  Every session is a thread of its own     *)
(* that calls ping_cmd_on_end when its loop ends.                          *)
(*                                                                         *)
(* The esp_ping_* functions and the session's thread are ESP-IDF's; they   *)
(* are modelled by their contract: a session has a START flag its loop     *)
(* tests, an INIT flag its thread tests before it frees itself, and a      *)
(* notification that wakes the thread up once.                             *)
(***************************************************************************)
EXTENDS Naturals

CONSTANTS
  Sessions,   (* Identities of ping sessions; their number bounds the run. *)
  Repl,       (* The REPL task.                                            *)
  EventTask,  (* The default event loop's task.                            *)
  NULL        (* No session.                                               *)

Tasks == {Repl, EventTask}

ASSUME TaskAssumption == Repl # EventTask
ASSUME NullAssumption == NULL \notin Sessions

VARIABLES
  g_ping_handle, (* The global handle.                                     *)
  ping_args,     (* The command's argument table, one for both tasks: was  *)
                 (* --abort given?                                         *)
  pc,            (* Where each task is in wifi_cmd_ping.                   *)
  arg,           (* Each task's copy of the handle, as loaded for a call.  *)
  thread,        (* What each session's thread is doing.                   *)
  start,         (* The START flag of each session.                        *)
  init,          (* The INIT flag of each session.                         *)
  notified,      (* Has each session's thread a pending notification?      *)
  allocFails     (* Can esp_ping_new_session fail?  Fixed for a behaviour. *)

taskVars    == <<pc, arg>>
sessionVars == <<thread, start, init, notified>>
vars == <<g_ping_handle, ping_args, taskVars, sessionVars, allocFails>>

Labels == {"idle", "parsed", "load_stop", "stop", "load_delete", "delete",
           "new", "load_start", "start"}

Stages == {"none", "waiting", "pinging", "on_end", "clear_handle", "exiting", "freed"}

(* A session that its thread has not given back to the heap. *)
Live(s) == thread[s] \notin {"none", "freed"}

(* A session whose thread may still use it and that the handle may name. *)
Usable == {"waiting", "pinging", "on_end", "clear_handle"}

TypeOK ==
  /\ g_ping_handle \in Sessions \union {NULL}
  /\ ping_args \in BOOLEAN
  /\ pc \in [Tasks -> Labels]
  /\ arg \in [Tasks -> Sessions \union {NULL}]
  /\ thread \in [Sessions -> Stages]
  /\ start \in [Sessions -> BOOLEAN]
  /\ init \in [Sessions -> BOOLEAN]
  /\ notified \in [Sessions -> BOOLEAN]
  /\ allocFails \in BOOLEAN

Init ==
  /\ g_ping_handle = NULL
  /\ ping_args = FALSE
  /\ pc = [t \in Tasks |-> "idle"]
  /\ arg = [t \in Tasks |-> NULL]
  /\ thread = [s \in Sessions |-> "none"]
  /\ start = [s \in Sessions |-> FALSE]
  /\ init = [s \in Sessions |-> FALSE]
  /\ notified = [s \in Sessions |-> FALSE]
  /\ allocFails \in BOOLEAN

-----------------------------------------------------------------------------
(* The command, in the task t.                                             *)

Goto(t, from, to) ==
  /\ pc[t] = from
  /\ pc' = [pc EXCEPT ![t] = to]

(* arg_parse resets the shared table and fills it from the command line.   *)
(* The event task always passes "-i 10", never --abort.                    *)
Parse(t) ==
  /\ Goto(t, "idle", "parsed")
  /\ ping_args' \in IF t = EventTask THEN {FALSE} ELSE BOOLEAN
  /\ UNCHANGED <<g_ping_handle, arg, sessionVars, allocFails>>

(* A mistyped command leaves in the table what was read of it. *)
ParseFails ==
  /\ Goto(Repl, "idle", "idle")
  /\ ping_args' \in BOOLEAN
  /\ UNCHANGED <<g_ping_handle, arg, sessionVars, allocFails>>

(* The command tests --abort in the table, which the other task may have   *)
(* filled since.                                                           *)
Decide(t) ==
  /\ Goto(t, "parsed", IF ping_args THEN "load_stop" ELSE "new")
  /\ UNCHANGED <<g_ping_handle, ping_args, arg, sessionVars, allocFails>>

(* The handle is loaded as the argument of the call that follows. *)
Load(t, from, to) ==
  /\ Goto(t, from, to)
  /\ arg' = [arg EXCEPT ![t] = g_ping_handle]
  /\ UNCHANGED <<g_ping_handle, ping_args, sessionVars, allocFails>>

(* Mutation: --abort deletes the session without stopping it. *)
StopForgotten(t) ==
  /\ Goto(t, "stop", "load_delete")
  /\ arg' = [arg EXCEPT ![t] = NULL]
  /\ UNCHANGED <<g_ping_handle, ping_args, sessionVars, allocFails>>

(* esp_ping_stop: NULL is refused.  What a write to memory that the        *)
(* session's thread has freed since the load may overwrite is left out.    *)
Stop(t) ==
  /\ Goto(t, "stop", "load_delete")
  /\ start' = [s \in Sessions |-> start[s] /\ s # arg[t]]
  /\ arg' = [arg EXCEPT ![t] = NULL]
  /\ UNCHANGED <<g_ping_handle, ping_args, thread, init, notified, allocFails>>

(* esp_ping_delete_session; g_ping_handle keeps its value. *)
Delete(t) ==
  /\ Goto(t, "delete", "idle")
  /\ init' = [s \in Sessions |-> init[s] /\ s # arg[t]]
  /\ arg' = [arg EXCEPT ![t] = NULL]
  /\ UNCHANGED <<g_ping_handle, ping_args, thread, start, notified, allocFails>>

(* getaddrinfo does not know the host: the command returns ESP_FAIL. *)
UnknownHost(t) ==
  /\ t = Repl
  /\ Goto(t, "new", "idle")
  /\ arg' = [arg EXCEPT ![t] = NULL]
  /\ UNCHANGED <<g_ping_handle, ping_args, sessionVars, allocFails>>

(* esp_ping_new_session stores the new session in the global handle, on    *)
(* top of the handle that is there.                                        *)
NewSession(t) ==
  LET s == CHOOSE u \in Sessions : thread[u] = "none"
  IN  /\ \E u \in Sessions : thread[u] = "none"
      /\ Goto(t, "new", "load_start")
      /\ thread' = [thread EXCEPT ![s] = "waiting"]
      /\ init' = [init EXCEPT ![s] = TRUE]
      /\ g_ping_handle' = s
      /\ UNCHANGED <<ping_args, arg, start, notified, allocFails>>

(* It fails; the command does not look at the result and starts whatever   *)
(* session the handle names.                                               *)
NewSessionFails(t) ==
  /\ allocFails
  /\ Goto(t, "new", "load_start")
  /\ UNCHANGED <<g_ping_handle, ping_args, arg, sessionVars, allocFails>>

(* esp_ping_start: set START, notify the thread. *)
Start(t) ==
  /\ Goto(t, "start", "idle")
  /\ start' = [s \in Sessions |-> start[s] \/ (s = arg[t] /\ Live(s))]
  /\ notified' = [s \in Sessions |-> notified[s] \/ (s = arg[t] /\ Live(s))]
  /\ arg' = [arg EXCEPT ![t] = NULL]
  /\ UNCHANGED <<g_ping_handle, ping_args, thread, init, allocFails>>

Command(t) ==
  \/ Decide(t)
  \/ Load(t, "load_stop", "stop")
  \/ Stop(t)
  \/ Load(t, "load_delete", "delete")
  \/ Delete(t)
  \/ UnknownHost(t)
  \/ NewSession(t)
  \/ NewSessionFails(t)
  \/ Load(t, "load_start", "start")
  \/ Start(t)

-----------------------------------------------------------------------------
(* The thread of the session s.                                            *)

ThreadStep(s, from, to) ==
  /\ thread[s] = from
  /\ thread' = [thread EXCEPT ![s] = to]
  /\ UNCHANGED <<ping_args, taskVars, allocFails>>

Wake(s) ==
  /\ notified[s]
  /\ ThreadStep(s, "waiting", "pinging")
  /\ notified' = [notified EXCEPT ![s] = FALSE]
  /\ UNCHANGED <<g_ping_handle, start, init>>

(* The last packet of a session with a --count was sent.  Counts are left  *)
(* out: any session may have one, and one without (--count 0, the default, *)
(* what the event task starts) never takes this step.                      *)
LastPacket(s) ==
  /\ ThreadStep(s, "pinging", "on_end")
  /\ UNCHANGED <<g_ping_handle, start, init, notified>>

(* The loop finds START cleared. *)
LoopEnds(s) ==
  /\ ~start[s]
  /\ ThreadStep(s, "pinging", "on_end")
  /\ UNCHANGED <<g_ping_handle, start, init, notified>>

(* Mutation: ping_cmd_on_end leaves the deletion to other tasks, as the     *)
(* comment in it says one may.                                             *)
OnEndKeeps(s) ==
  /\ ThreadStep(s, "on_end", "clear_handle")
  /\ UNCHANGED <<g_ping_handle, start, init, notified>>

(* ping_cmd_on_end deletes its session ... *)
OnEndDelete(s) ==
  /\ ThreadStep(s, "on_end", "clear_handle")
  /\ init' = [init EXCEPT ![s] = FALSE]
  /\ UNCHANGED <<g_ping_handle, start, notified>>

(* Mutation: the handle is left alone. *)
OnEndKeepsHandle(s) ==
  /\ ThreadStep(s, "clear_handle", "exiting")
  /\ UNCHANGED <<g_ping_handle, start, init, notified>>

(* ... and clears the handle, whichever session it names by now. *)
OnEndClear(s) ==
  /\ ThreadStep(s, "clear_handle", "exiting")
  /\ g_ping_handle' = NULL
  /\ UNCHANGED <<start, init, notified>>

(* Without INIT the thread frees its session and deletes itself.  With it  *)
(* it would wait to be started again, but ping_cmd_on_end has cleared it.  *)
ThreadFrees(s) ==
  /\ ~init[s]
  /\ ThreadStep(s, "exiting", "freed")
  /\ start' = [start EXCEPT ![s] = FALSE]
  /\ notified' = [notified EXCEPT ![s] = FALSE]
  /\ UNCHANGED <<g_ping_handle, init>>

Thread(s) == Wake(s) \/ LoopEnds(s) \/ OnEndDelete(s) \/ OnEndClear(s) \/ ThreadFrees(s)

Next ==
  \/ ParseFails
  \/ \E t \in Tasks : Parse(t) \/ Command(t)
  \/ \E s \in Sessions : Thread(s) \/ LastPacket(s)

Spec == Init /\ [][Next]_vars

(* A command that was parsed runs to its end, and a thread that can go on  *)
(* does: both are tasks the scheduler runs.  Nobody has to type a command, *)
(* and no session has to have a last packet.                               *)
Fairness ==
  /\ \A t \in Tasks : WF_vars(Command(t))
  /\ \A s \in Sessions : WF_vars(Thread(s))

FairSpec == Spec /\ Fairness

-----------------------------------------------------------------------------
(* Properties.                                                             *)

(* The global handle never names a session whose memory was given back,    *)
(* however the two tasks and the threads of several sessions interleave:   *)
(* ping_cmd_on_end clears it before the session's thread can exit.         *)
HandleNotDangling ==
  g_ping_handle # NULL => thread[g_ping_handle] \in Usable

(* Every session that leaves its loop is freed, although two threads may   *)
(* run ping_cmd_on_end at once and an abort may delete the session too.    *)
EndedSessionFreed ==
  \A s \in Sessions : thread[s] = "on_end" ~> thread[s] = "freed"

(* An abort that finds a running session in the handle ends that session   *)
(* for good, also when a GOT_IP creates another one meanwhile: provided    *)
(* that allocations succeed and that no other task was about to start the  *)
(* session the handle names.                                               *)
AbortEndsSession ==
  \A s \in Sessions :
    (/\ ~allocFails
     /\ pc[Repl] = "stop" /\ arg[Repl] = s /\ thread[s] = "pinging"
     /\ pc[EventTask] \notin {"load_start", "start"})
      ~> thread[s] = "freed"

(* What the command's help says of --abort: "Abort running ping".  Even    *)
(* when only the console issues ping commands and every allocation         *)
(* succeeds, an abort stops every session that is running.  It does not:   *)
(* it reaches only the session in the handle, and each ping command, or    *)
(* GOT_IP, overwrites the handle with a new one.                           *)
AbortStopsPing ==
  [](~allocFails /\ pc[EventTask] = "idle")
    => \A s \in Sessions :
         (pc[Repl] = "load_stop" /\ thread[s] = "pinging") ~> thread[s] # "pinging"
=============================================================================
