----------------------------- MODULE HostRecords -----------------------------
(***************************************************************************)
(* What the host tool makes of radar rows: radar_data_handle of             *)
(* esp_csi_tool.py keeps the last statuses, a table of status changes, a    *)
(* list of moves and a statistics of statuses, all in globals.  The Qt      *)
(* thread writes them row by row; the evaluate button clears them in the    *)
(* main thread, one after the other, while a row may be half handled.       *)
(***************************************************************************)
EXTENDS Integers, Sequences, Functions

CONSTANTS
  MaxRadarRows,   \* bound: rows that are handled
  ClockOf,        \* the time of each: [date, hour, minute, second]
  Records,        \* rows of the table of status changes: 20
  Thresholds      \* threshold values of a row

ASSUME RecordsAssumption ==
  /\ Records \in Nat \ {0, 1} /\ Thresholds \subseteq Nat \ {0}
  /\ MaxRadarRows \in Nat
  /\ \A i \in 1..MaxRadarRows :
       ClockOf[i] \in [date : Nat, hour : 0..23, minute : 0..59, second : 0..59]

VARIABLES
  now,                   \* radar rows so far; a row's number is its timestamp
  status, lastStatus,    \* g_radar_status_array[-1] and [-2]
  threshold, lastThreshold,  \* g_radar_eigenvalue_threshold_array, likewise
  record,                \* g_status_record_pd
  moves,                 \* g_move_record_pd: [row, count]
  statistics,            \* g_evaluate_statistics_array
  handling,              \* where radar_data_handle is, or "idle", "aborted"
  clearing,              \* what the evaluate button still has to clear
  spinBox, posted,       \* the threshold shown or typed in the window; a
                         \* posted signal_wareform_threshold
  overlapped,            \* history: rows whose handling overlapped the last
                         \* clearing
  counted                \* history: rows counted since the last clearing began

recordVars == <<now, status, lastStatus, threshold, lastThreshold, record, moves,
                statistics, handling, clearing, spinBox, posted, overlapped, counted>>

Status == [room : {0, 1}, human : {0, 1}]
None   == [room |-> 0, human |-> 0]   \* "none" and "static"
Typed  == 0   \* what the user typed, or what the field holds before any row

(* A timestamp of zero stands for the empty string.                         *)
EmptyRecord == [room |-> 0, human |-> 0, spend |-> 0, start |-> 0, stop |-> 0]

RecordsInit ==
  /\ now = 0
  /\ status = None /\ lastStatus = None
  /\ threshold = 0 /\ lastThreshold = 0
  /\ record = [i \in 1..Records |-> EmptyRecord]
  /\ moves = <<>>
  /\ statistics = [s \in Status |-> 0]
  /\ handling = "idle" /\ clearing = <<>>
  /\ spinBox = Typed /\ posted = FALSE
  /\ overlapped = 0 /\ counted = 0

windowVars == <<clearing, spinBox, posted>>

(* A row was half handled during the last clearing.                         *)
torn == overlapped > 0

-----------------------------------------------------------------------------
(* radar_data_handle.                                                       *)

(* The arrays rotate and take the row's values.                             *)
StoreRow ==
  /\ handling = "idle" /\ now < MaxRadarRows
  /\ now' = now + 1
  /\ lastStatus' = status /\ status' \in Status
  /\ lastThreshold' = threshold /\ threshold' \in Thresholds
  /\ handling' = "record"
  /\ overlapped' = IF clearing = <<>> THEN overlapped ELSE overlapped + 1
  /\ UNCHANGED <<record, moves, statistics, windowVars, counted>>

(* Mutation: the table's rows move down and the stop time stays open.       *)
RecordChangeOpen ==
  /\ handling = "record"
  /\ record' = IF status = lastStatus THEN record
               ELSE [i \in 1..Records |->
                       IF i = 1 THEN [EmptyRecord EXCEPT !.room = status.room,
                                        !.human = status.human, !.start = now]
                       ELSE record[i - 1]]
  /\ handling' = "spend"
  /\ UNCHANGED <<now, status, lastStatus, threshold, lastThreshold, moves, statistics,
                 windowVars, overlapped, counted>>

(* A changed status: the table's rows move down, the first takes the new     *)
(* status, and the second ends, if it has begun.  The first row's other      *)
(* fields keep what they were.                                              *)
RecordChange ==
  /\ handling = "record"
  /\ record' =
       IF status = lastStatus THEN record
       ELSE [i \in 1..Records |->
               CASE i = 1 -> [record[1] EXCEPT !.start = now, !.room = status.room,
                                               !.human = status.human]
                 [] i = 2 -> IF record[1].start = 0 THEN record[1]
                             ELSE [record[1] EXCEPT !.stop = now]
                 [] OTHER -> record[i - 1]]
  /\ handling' = "spend"
  /\ UNCHANGED <<now, status, lastStatus, threshold, lastThreshold, moves, statistics,
                 windowVars, overlapped, counted>>

(* The first row's start time is tested, ...                                *)
TestStart ==
  /\ handling = "spend"
  /\ handling' = IF record[1].start = 0 THEN "move" ELSE "parse"
  /\ UNCHANGED <<now, status, lastStatus, threshold, lastThreshold, record, moves,
                 statistics, windowVars, overlapped, counted>>

(* ... and parsed: an empty one raises, which ends the thread or the tool.   *)
ParseStart ==
  /\ handling = "parse"
  /\ \/ /\ record[1].start = 0
        /\ handling' = "aborted"
        /\ UNCHANGED record
     \/ /\ record[1].start # 0
        /\ record' = [record EXCEPT ![1].spend = now - record[1].start]
        /\ handling' = "move"
  /\ UNCHANGED <<now, status, lastStatus, threshold, lastThreshold, moves, statistics,
                 windowVars, overlapped, counted>>

(* A move gets a row of its own in the list, ...                             *)
AppendMove ==
  /\ handling = "move"
  /\ moves' = IF status.human = 1 THEN Append(moves, [row |-> now, count |-> 1]) ELSE moves
  /\ handling' = "count"
  /\ UNCHANGED <<now, status, lastStatus, threshold, lastThreshold, record, statistics,
                 windowVars, overlapped, counted>>

(* ... the statistics count the row, and a changed threshold is signalled.   *)
CountRow ==
  /\ handling = "count"
  /\ statistics' = [statistics EXCEPT ![status] = @ + 1]
  /\ posted' = (posted \/ threshold # lastThreshold)
  /\ handling' = "idle"
  /\ counted' = counted + 1
  /\ UNCHANGED <<now, status, lastStatus, threshold, lastThreshold, record, moves,
                 clearing, spinBox, overlapped>>

radar_data_handle ==
  StoreRow \/ RecordChange \/ TestStart \/ ParseStart \/ AppendMove \/ CountRow

-----------------------------------------------------------------------------
(* The window.                                                              *)

(* pushButton_evaluate_start_show clears one global after another.  Bound:   *)
(* it is not pressed again before a row was counted.                        *)
Press ==
  /\ clearing = <<>> /\ handling # "aborted" /\ counted > 0
  /\ clearing' = <<"moves", "records", "status", "statistics">>
  /\ overlapped' = IF handling = "idle" THEN 0 ELSE 1
  /\ counted' = 0
  /\ UNCHANGED <<now, status, lastStatus, threshold, lastThreshold, record, moves,
                 statistics, handling, spinBox, posted>>

(* Mutation: the list of moves is not cleared.                              *)
ClearGlobalButMoves(name) ==
  /\ record' = IF name # "records" THEN record
               ELSE [i \in 1..Records |-> EmptyRecord]
  /\ IF name = "status"
     THEN status' = None /\ lastStatus' = None /\ threshold' = 0 /\ lastThreshold' = 0
     ELSE UNCHANGED <<status, lastStatus, threshold, lastThreshold>>
  /\ statistics' = IF name = "statistics" THEN [s \in Status |-> 0] ELSE statistics
  /\ UNCHANGED moves

ClearGlobal(name) ==
  /\ moves' = IF name # "moves" THEN moves
              ELSE [i \in DOMAIN moves |-> [moves[i] EXCEPT !.row = 0, !.count = 0]]
  /\ record' = IF name # "records" THEN record
               ELSE [i \in 1..Records |-> EmptyRecord]
  /\ IF name = "status"
     THEN status' = None /\ lastStatus' = None /\ threshold' = 0 /\ lastThreshold' = 0
     ELSE UNCHANGED <<status, lastStatus, threshold, lastThreshold>>
  /\ statistics' = IF name = "statistics" THEN [s \in Status |-> 0] ELSE statistics

ClearNext ==
  /\ clearing # <<>>
  /\ ClearGlobal(Head(clearing))
  /\ clearing' = Tail(clearing)
  /\ UNCHANGED <<now, handling, spinBox, posted, overlapped, counted>>

(* show_wareform_threshold, for the posted signal.                          *)
ShowThreshold ==
  /\ posted /\ clearing = <<>>
  /\ posted' = FALSE
  /\ spinBox' = threshold
  /\ UNCHANGED <<now, status, lastStatus, threshold, lastThreshold, record, moves,
                 statistics, handling, clearing, overlapped, counted>>

TypeThreshold ==
  /\ clearing = <<>>
  /\ spinBox' = Typed
  /\ UNCHANGED <<now, status, lastStatus, threshold, lastThreshold, record, moves,
                 statistics, handling, clearing, posted, overlapped, counted>>

RecordsNext == radar_data_handle \/ Press \/ ClearNext \/ ShowThreshold \/ TypeThreshold

RecordsSpec == RecordsInit /\ [][RecordsNext]_recordVars

-----------------------------------------------------------------------------
(* show_statistics_status_record_move: the bars of a day, an hour or a       *)
(* minute are sums of the moves in it.                                      *)
Finer == [day |-> "hour", hour |-> "minute", minute |-> "second"]
Within == [day |-> {"date"}, hour |-> {"date", "hour"},
           minute |-> {"date", "hour", "minute"}]

(* The moves of a day, an hour or a minute, and those of one bar of it.       *)
Moves(mode, time) ==
  {i \in DOMAIN moves :
     /\ moves[i].row # 0
     /\ \A field \in Within[mode] : ClockOf[moves[i].row][field] = time[field]}

Bar(mode, time, n) ==
  {i \in Moves(mode, time) : ClockOf[moves[i].row][Finer[mode]] = n}

Chart(mode, time) ==
  LET count == [i \in DOMAIN moves |-> moves[i].count]
  IN  [n \in 0..59 |-> SumFunctionOnSet(count, Bar(mode, time, n))]

Bars(mode, time) == SumFunction(Chart(mode, time))

-----------------------------------------------------------------------------
Between == handling = "idle" /\ clearing = <<>> /\ ~ torn

(* After each row the first record is the present status and has lasted      *)
(* since that status began, each record ends where the one above begins,     *)
(* and no status is recorded twice in a row; whenever the tables were        *)
(* cleared, unless a row was half handled then.  Only then can the handling  *)
(* of a row abort.                                                          *)
TopRecordCurrent ==
  /\ Between =>
       /\ IF record[1].start = 0 THEN status = None
          ELSE /\ record[1].room = status.room /\ record[1].human = status.human
               /\ record[1].spend = now - record[1].start
       /\ \A i \in 2..Records :
            record[i].start # 0 =>
              /\ record[i].stop = record[i - 1].start
              /\ \/ record[i].room # record[i - 1].room
                 \/ record[i].human # record[i - 1].human
  /\ handling = "aborted" => torn

(* Between rows and clearings the statistics count every row since the last  *)
(* clearing, and the charts show exactly its moves, all days together.  Of   *)
(* the rows whose handling overlapped that clearing, each may be missing in   *)
(* the statistics, or have its move in one of the two only, and no other row *)
(* is.  An hour's bars together are always that hour's bar of its day.       *)
StatisticsAgree ==
  LET Times == {ClockOf[i] : i \in 1..MaxRadarRows}
      Days  == {[date |-> time.date] : time \in Times}
      shown == SumFunction([day \in Days |-> Bars("day", day)])
      moved == SumFunctionOnSet(statistics, {s \in Status : s.human = 1})
  IN  /\ handling = "idle" /\ clearing = <<>> =>
           /\ SumFunction(statistics) \in (counted - overlapped)..counted
           /\ shown \in (moved - overlapped)..(moved + overlapped)
      /\ \A time \in Times : Chart("day", time)[time.hour] = Bars("hour", time)
=============================================================================
