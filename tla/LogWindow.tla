------------------------------ MODULE LogWindow ------------------------------
(***************************************************************************)
(* The log of the get-started viewers.  Any thread puts a text into a queue; *)
(* the window's timer moves all of them to a text widget and trims it when   *)
(* it is too long.  Three copies of the code differ in how much they cut:    *)
(* that of org, that of 3d and the module logx.py of low.                   *)
(*                                                                         *)
(* A text is its characters, and a character is the number of the text.     *)
(***************************************************************************)
EXTENDS Naturals, Sequences, SequencesExt

CONSTANTS MaxTexts,   \* bound: texts that are logged
          Lengths,    \* of a text
          TrimAbove,  \* 3000
          Cut         \* characters cut by each copy: 1000 in org and 3d, 1500 in logx

LogTools == {"org", "3d", "logx"}

ASSUME LogAssumption == /\ {MaxTexts, TrimAbove} \subseteq Nat
                        /\ Lengths \subseteq Nat \ {0}
                        /\ Cut \in [LogTools -> 0..TrimAbove]

VARIABLES logTool,
          queue,    \* qqq, local_queue: the texts
          logwin,   \* the widget's characters
          drains,   \* whether the timer is in worker's loop
          logged    \* history: every character that was logged

logVars == <<logTool, queue, logwin, drains, logged>>

LogInit ==
  /\ logTool \in LogTools
  /\ queue = << >> /\ logwin = << >> /\ drains = FALSE /\ logged = << >>

TextsLogged == IF logged = << >> THEN 0 ELSE Last(logged)

(* logx, logx.print: the window's thread and the reader's both log.         *)
print ==
  /\ TextsLogged < MaxTexts
  /\ \E len \in Lengths :
       LET text == [k \in 1..len |-> TextsLogged + 1]
       IN  queue' = Append(queue, text) /\ logged' = logged \o text
  /\ UNCHANGED <<logTool, logwin, drains>>

(* worker returns at once if there is nothing to show.                      *)
EnterWorker ==
  /\ ~ drains /\ queue # << >>
  /\ drains' = TRUE
  /\ UNCHANGED <<logTool, queue, logwin, logged>>

ShowText ==
  /\ drains /\ queue # << >>
  /\ logwin' = logwin \o Head(queue)
  /\ queue' = Tail(queue)
  /\ UNCHANGED <<logTool, drains, logged>>

(* Mutation: the start of the widget's text is kept, not its end.           *)
TrimEnd ==
  /\ drains /\ queue = << >>
  /\ drains' = FALSE
  /\ logwin' = IF Len(logwin) > TrimAbove
               THEN SubSeq(logwin, 1, Len(logwin) - Cut[logTool]) ELSE logwin
  /\ UNCHANGED <<logTool, queue, logged>>

(* The queue is empty: the widget is trimmed, however much came at once.     *)
Trim ==
  /\ drains /\ queue = << >>
  /\ drains' = FALSE
  /\ logwin' = IF Len(logwin) > TrimAbove
               THEN SubSeq(logwin, Cut[logTool] + 1, Len(logwin)) ELSE logwin
  /\ UNCHANGED <<logTool, queue, logged>>

(* The three copies of worker.                                              *)
WorkerStep   == EnterWorker \/ ShowText \/ Trim
worker_org   == logTool = "org" /\ WorkerStep
worker_3d    == logTool = "3d" /\ WorkerStep
worker_logx  == logTool = "logx" /\ WorkerStep

LogNext == print \/ worker_org \/ worker_3d \/ worker_logx

LogSpec == LogInit /\ [][LogNext]_logVars

-----------------------------------------------------------------------------
(* The window shows the newest part of what was logged, in order and without *)
(* a gap, up to what is still queued; and once trimmed no less than what a   *)
(* cut of a text that was just too long leaves.                             *)
WindowIsRecent ==
  LET shown == logwin \o FlattenSeq(queue)
  IN  /\ IsSuffix(shown, logged)
      /\ shown # logged => Len(logwin) > TrimAbove - Cut[logTool]
=============================================================================
