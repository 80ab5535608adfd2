------------------------------ MODULE Presence ------------------------------
(***************************************************************************)
(* What the RainMaker device tells the cloud of the room: radar_cb of       *)
(* connect_rainmaker/main/app_main.c.  The radar library calls it with one   *)
(* sample after another.  The window of samples whose verdict is            *)
(* move_status is that of Detect: here the verdict is any, and one call is   *)
(* one step.                                                               *)
(*                                                                         *)
(* Time is counted in seconds and wraps; samples are some seconds apart.    *)
(***************************************************************************)
EXTENDS Naturals

CONSTANTS
  TimeWidth,    \* esp_log_timestamp is an uint32_t of milliseconds
  Gaps,         \* seconds between two samples
  RoomTimeouts, \* someone_timeout
  ReportAfter,  \* a lasting move is reported when more have passed: 10
  MaxCalibrations \* bound

ASSUME PresenceAssumption ==
  /\ {TimeWidth, ReportAfter} \subseteq Nat \ {0}
  /\ Gaps \subseteq Nat \ {0} /\ RoomTimeouts \subseteq Nat /\ MaxCalibrations \in Nat
  /\ \A gap \in Gaps, t \in RoomTimeouts \cup {ReportAfter} : gap + t < TimeWidth

VARIABLES
  someone_timeout, threshold_calibrate,  \* fields of g_detect_config
  now,
  timeSet,                   \* esp_rmaker_time_check
  s_last_move_time,
  s_report_someone_status, s_report_move_status,
  s_report_move_count, s_report_move_timestamp,
  cloud,                     \* [someone, move]: what the cloud was told last
  untold,                    \* history: moves that the cloud was not told of
  late,                      \* history: seconds since the oldest of them, or
                             \* since the last calibration
  calibrations,              \* so far
  sight                      \* history: the last samples that were judged:
                             \* "none", "move", "still", "still_again"

reportVars   == <<s_report_someone_status, s_report_move_status, s_report_move_count,
                  s_report_move_timestamp>>
presenceVars == <<someone_timeout, threshold_calibrate, now, timeSet, s_last_move_time,
                  reportVars, cloud, untold, late, calibrations, sight>>

PresenceInit ==
  /\ someone_timeout \in RoomTimeouts /\ threshold_calibrate = FALSE
  /\ now = 0 /\ timeSet = FALSE /\ s_last_move_time = 0
  /\ s_report_someone_status = FALSE /\ s_report_move_status = FALSE
  /\ s_report_move_count = 0 /\ s_report_move_timestamp = 0
  /\ cloud = [someone |-> FALSE, move |-> FALSE]
  /\ untold = 0 /\ late = 0 /\ calibrations = 0 /\ sight = "none"

-----------------------------------------------------------------------------
Elapsed(from, to) == (to + TimeWidth - from) % TimeWidth

Sample(gap) == now' = (now + gap) % TimeWidth
Judging     == ~ threshold_calibrate

(* In a calibration the callback returns before it judges the room.         *)
SkipSample ==
  /\ ~ Judging
  /\ \E gap \in Gaps : Sample(gap)
  /\ sight' = "none" /\ late' = 0
  /\ UNCHANGED <<someone_timeout, threshold_calibrate, timeSet, s_last_move_time, reportVars, cloud,
                 untold, calibrations>>

(* someone_status looks back from before this sample's move is noted.       *)
Someone(time)  == Elapsed(s_last_move_time, time) < someone_timeout
NoteMove(move) == s_last_move_time' = IF move THEN now' ELSE s_last_move_time

(* As long as the time is not known nothing is reported.                    *)
UnreportedSample ==
  /\ Judging /\ ~ timeSet
  /\ \E gap \in Gaps, move \in BOOLEAN : Sample(gap) /\ NoteMove(move)
  /\ UNCHANGED <<someone_timeout, threshold_calibrate, timeSet, reportVars, cloud, untold, late,
                 calibrations, sight>>

Count(move) == s_report_move_count + (IF move THEN 1 ELSE 0)

(* An empty room is reported if s_report_someone_status is TRUE, which it    *)
(* never becomes.                                                           *)
TellLeft(someone) ==
  LET left == s_report_someone_status # someone /\ ~ someone
  IN  s_report_someone_status' = IF left THEN someone ELSE s_report_someone_status

(* Mutation: what was reported is the status from then on, as if no move had *)
(* been counted.                                                            *)
TellMoveOnce(someone, move) ==
  IF \/ move # s_report_move_status
     \/ move /\ Elapsed(s_report_move_timestamp, now') > ReportAfter
  THEN /\ cloud' = [someone |-> someone, move |-> move \/ Count(move) > 0]
       /\ s_report_move_status' = move
       /\ s_report_move_count' = 0
       /\ s_report_move_timestamp' = now'
       /\ untold' = 0 /\ late' = 0
  ELSE /\ s_report_move_count' = Count(move)
       /\ untold' = untold + (IF move THEN 1 ELSE 0)
       /\ late' = IF untold = 0 \/ sight = "none" THEN 0 ELSE late + Elapsed(now, now')
       /\ UNCHANGED <<cloud, s_report_move_status, s_report_move_timestamp>>

(* A move that begins or ends, or that lasts: the cloud gets the count since *)
(* the last report.  A move that was counted is reported as a move, and only *)
(* the sample after as its end.                                             *)
TellMove(someone, move) ==
  IF \/ move # s_report_move_status
     \/ move /\ Elapsed(s_report_move_timestamp, now') > ReportAfter
  THEN /\ cloud' = [someone |-> someone, move |-> move \/ Count(move) > 0]
       /\ s_report_move_status' = IF ~ s_report_move_status \/ Count(move) = 0 THEN move
                                  ELSE s_report_move_status
       /\ s_report_move_count' = 0
       /\ s_report_move_timestamp' = now'
       /\ untold' = untold + (IF move THEN 1 ELSE 0) - Count(move) /\ late' = 0
  ELSE /\ s_report_move_count' = Count(move)
       /\ untold' = untold + (IF move THEN 1 ELSE 0)
       /\ late' = IF untold = 0 \/ sight = "none" THEN 0 ELSE late + Elapsed(now, now')
       /\ UNCHANGED <<cloud, s_report_move_status, s_report_move_timestamp>>

ReportSample ==
  /\ Judging /\ timeSet
  /\ \E gap \in Gaps, move \in BOOLEAN :
       /\ Sample(gap)
       /\ NoteMove(move)
       /\ TellLeft(Someone(now'))
       /\ TellMove(Someone(now'), move)
       /\ sight' = IF move THEN "move"
                   ELSE IF sight \in {"still", "still_again"} THEN "still_again" ELSE "still"
  /\ UNCHANGED <<someone_timeout, threshold_calibrate, timeSet, calibrations>>

radar_cb == SkipSample \/ UnreportedSample \/ ReportSample

-----------------------------------------------------------------------------
(* What others do between two samples: the time becomes known, and the       *)
(* configuration is changed (Calibration).                                  *)
SetTime ==
  /\ ~ timeSet /\ timeSet' = TRUE
  /\ UNCHANGED <<someone_timeout, threshold_calibrate, now, s_last_move_time, reportVars, cloud,
                 untold, late, calibrations, sight>>

Configure ==
  /\ someone_timeout' \in RoomTimeouts
  /\ UNCHANGED <<threshold_calibrate, calibrations, now, timeSet, s_last_move_time, reportVars, cloud,
                 untold, late, sight>>

Calibrate ==
  /\ threshold_calibrate' = ~ threshold_calibrate
  /\ calibrations' = IF threshold_calibrate' THEN calibrations + 1 ELSE calibrations
  /\ calibrations' <= MaxCalibrations
  /\ UNCHANGED <<someone_timeout, now, timeSet, s_last_move_time, reportVars, cloud, untold, late,
                 sight>>

PresenceNext == radar_cb \/ SetTime \/ Configure \/ Calibrate

PresenceSpec == PresenceInit /\ [][PresenceNext]_presenceVars

-----------------------------------------------------------------------------
(* Once the time is known the cloud hears of each sample with a move exactly *)
(* once, in a count, and no later than ReportAfter seconds after it or after *)
(* the calibration that came in between; after a sample with a move the      *)
(* cloud has the status of a move, and after two without it has not and no   *)
(* move is left to tell.                                                    *)
MovesReported ==
  /\ untold = s_report_move_count
  /\ late <= ReportAfter
  /\ sight = "move" => cloud.move
  /\ sight = "still_again" => ~ cloud.move /\ untold = 0
=============================================================================
