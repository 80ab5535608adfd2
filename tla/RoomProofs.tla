----------------------------- MODULE RoomProofs -----------------------------
(***************************************************************************)
(* Proofs about what the devices make of the room: the statuses of the      *)
(* console's device (Detect), and the configuration and the reports of the  *)
(* RainMaker device (Calibration, Presence).  They hold for any widths,     *)
(* intervals, timeouts and numbers of writes.                              *)
(***************************************************************************)
EXTENDS Detect, Calibration, Presence, FiniteSetTheorems, FunctionTheorems, TLAPS

-----------------------------------------------------------------------------
(* Calibration.                                                             *)

Detection == [calibrate : BOOLEAN, timeout : Nat, threshold : MoveThresholds]

(* Only RainMaker's task writes; what it is at beside the callback.         *)
CallbackAt == {"load", "store", "reset", "clear", "stop", "trained", "save", "param"}
WriteAt    == {"test", "left", "start", "train", "zero", "report"}

CalibrationTypeOK ==
  /\ g_detect_config \in Detection /\ nvs \in Detection
  /\ timerleft \in Int /\ active \in BOOLEAN /\ posted \in Seq({"start", "stop"})
  /\ training \in BOOLEAN /\ cloudFlag \in BOOLEAN /\ val \in BOOLEAN /\ astray \in BOOLEAN
  /\ at \in [Contexts -> CallbackAt \cup WriteAt \cup {"idle", "blob", "drain"}]
  /\ at["rainmaker"] # "drain" /\ at["service"] \notin WriteAt \cup {"blob"}
  /\ loaded \in [Contexts -> Int]
  /\ writes \in Nat /\ span \in Nat /\ ticks \in Nat

Flag == g_detect_config.calibrate

(* What the timer does once its commands are done.                          *)
Runs == IF posted = << >> THEN active ELSE posted[Len(posted)] = "start"

(* Whoever changed the configuration since it was stored is going to.       *)
WillStore ==
  at["rainmaker"] = "idle" /\ at["service"] \notin {"stop", "trained", "save"}
    => nvs = g_detect_config

(* A write of the flag that did not meet the callback has it to itself.     *)
Apart == WritingFlag => at["service"] \in {"idle", "drain"}

(* The flag, by what was written and where its task or the callback is.     *)
FlagAgrees ==
  /\ WritingFlag => Flag = val
  /\ at["rainmaker"] \in {"left", "start", "train"} => Flag
  /\ at["rainmaker"] \in CallbackAt \cup {"zero"} => ~ Flag
  /\ at["service"] \in {"stop", "trained", "save"} => ~ Flag

(* The timer, the library and the cloud follow the flag one after another.  *)
OthersAgree ==
  /\ /\ at["rainmaker"] \notin {"test", "left", "start", "zero", "load", "store", "reset",
                                "clear", "stop"}
     /\ at["service"] # "stop"
     => Runs = Flag
  /\ /\ at["rainmaker"] \notin {"test", "left", "start", "train", "zero", "load", "store",
                                "reset", "clear", "stop", "trained"}
     /\ at["service"] \notin {"stop", "trained"}
     => training = Flag
  /\ ~ WritingFlag /\ at["service"] \notin {"stop", "trained", "save", "param"}
     => cloudFlag = Flag

(* The time that is left, and with it the end of the calibration.           *)
ZeroEnds ==
  /\ at["rainmaker"] = "load"  => timerleft = 0
  /\ at["rainmaker"] = "store" => loaded["rainmaker"] = 0

Used(n) == Interval * n

TimeAgrees ==
  Flag =>
    /\ at["rainmaker"] \in {"start", "train", "report"} => ticks = 0 /\ timerleft = span
    /\ ~ WritingFlag /\ at["service"] \in {"idle", "drain", "param"} =>
         /\ timerleft = span - Used(ticks)
         /\ ticks > 0 => Used(ticks) + Interval <= span
    /\ ~ WritingFlag /\ at["service"] \in {"load", "store"} =>
         timerleft = span - Used(ticks) + Interval
    /\ ~ WritingFlag /\ at["service"] = "store" => loaded["service"] = timerleft

CalibrationIInv ==
  /\ CalibrationTypeOK /\ WillStore
  /\ ~ astray => Apart /\ FlagAgrees /\ OthersAgree /\ ZeroEnds /\ TimeAgrees

LEMMA RainmakerMoves ==
  ASSUME CalibrationTypeOK, NEW from, NEW to, Move("rainmaker", from, to),
         to \in CallbackAt \cup WriteAt \cup {"idle", "blob"}
  PROVE  /\ at["rainmaker"] = from /\ at'["rainmaker"] = to /\ at'["service"] = at["service"]
         /\ at' \in [Contexts -> CallbackAt \cup WriteAt \cup {"idle", "blob", "drain"}]
         /\ at'["rainmaker"] # "drain" /\ at'["service"] \notin WriteAt \cup {"blob"}
  BY DEF CalibrationTypeOK, Move, Contexts, CallbackAt, WriteAt

LEMMA ServiceMoves ==
  ASSUME CalibrationTypeOK, NEW from, NEW to, Move("service", from, to),
         to \in CallbackAt \cup {"idle", "drain"}
  PROVE  /\ at["service"] = from /\ at'["service"] = to /\ at'["rainmaker"] = at["rainmaker"]
         /\ at' \in [Contexts -> CallbackAt \cup WriteAt \cup {"idle", "blob", "drain"}]
         /\ at'["rainmaker"] # "drain" /\ at'["service"] \notin WriteAt \cup {"blob"}
  BY DEF CalibrationTypeOK, Move, Contexts, CallbackAt, WriteAt

(* What becomes of the timer's commands.                                    *)
LEMMA RunsAsBefore ==
  ASSUME UNCHANGED <<active, posted>>
  PROVE  Runs' = Runs
  BY DEF Runs

LEMMA RunsAsPosted ==
  ASSUME CalibrationTypeOK, NEW command \in {"start", "stop"}, posted' = Append(posted, command)
  PROVE  posted' \in Seq({"start", "stop"}) /\ Runs' = (command = "start")
  BY DEF CalibrationTypeOK, Runs

LEMMA RunsAsCommanded ==
  ASSUME CalibrationTypeOK, TimerCommand
  PROVE  posted' \in Seq({"start", "stop"}) /\ active' \in BOOLEAN /\ Runs' = Runs
  <1>1. /\ posted \in Seq({"start", "stop"}) /\ posted # << >> /\ posted' = Tail(posted)
        /\ active' = (Head(posted) = "start") /\ Len(posted) \in Nat \ {0}
    BY DEF CalibrationTypeOK, TimerCommand
  <1>2. Len(posted') = Len(posted) - 1 /\ \A k \in 1..Len(posted') : posted'[k] = posted[k + 1]
    BY <1>1
  <1>3. CASE Len(posted) = 1
    <2>1. posted' = << >> /\ posted[Len(posted)] = Head(posted)
      BY <1>1, <1>2, <1>3
    <2>2. QED
      BY <1>1, <2>1 DEF Runs
  <1>4. CASE Len(posted) # 1
    <2>1. Len(posted') \in Nat \ {0}
      BY <1>1, <1>2, <1>4
    <2>2. posted'[Len(posted')] = posted[Len(posted)]
      BY <1>1, <1>2, <2>1
    <2>3. posted' # << >>
      BY <2>1
    <2>4. QED
      BY <1>1, <2>2, <2>3 DEF Runs
  <1>5. QED
    BY <1>3, <1>4

(* The fields of the configuration are set one at a time.                   *)
LEMMA SetField ==
  ASSUME g_detect_config \in Detection
  PROVE  /\ \A b \in BOOLEAN : /\ [g_detect_config EXCEPT !.calibrate = b] \in Detection
                               /\ [g_detect_config EXCEPT !.calibrate = b].calibrate = b
         /\ \A t \in Nat : /\ [g_detect_config EXCEPT !.timeout = t] \in Detection
                           /\ [g_detect_config EXCEPT !.timeout = t].calibrate = Flag
         /\ \A m \in MoveThresholds :
              /\ [g_detect_config EXCEPT !.threshold = m] \in Detection
              /\ [g_detect_config EXCEPT !.threshold = m].calibrate = Flag
  BY DEF Detection, Flag

LEMMA Intervals ==
  /\ Interval \in Nat /\ Interval > 0 /\ Width \in Nat /\ Width > 0
  /\ \A n \in Nat : Used(n) \in Nat /\ Used(n + 1) = Used(n) + Interval
  /\ Used(0) = 0
  BY CalibrationAssumption DEF CalibrationAssumption, Used

(* The callback in the timer service.                                       *)
LEMMA ServiceCallbackKeeps ==
  ASSUME CalibrationIInv, auto_calibrate_timercb("service")
  PROVE  CalibrationIInv'
  <1> DEFINE c == "service"
  <1> USE DEF CalibrationIInv, WillStore, Apart, FlagAgrees, OthersAgree, ZeroEnds, TimeAgrees,
              WritingFlag, CallbackAt, WriteAt, Contexts
  <1>1. CalibrationTypeOK /\ Flag \in BOOLEAN /\ Runs \in BOOLEAN
    BY DEF CalibrationTypeOK, Detection, Flag, Runs
  <1>2. CASE LoadLeft(c)
    <2>1. /\ at["service"] = "load" /\ at'["service"] = "store"
          /\ at'["rainmaker"] = at["rainmaker"] /\ CalibrationTypeOK'
      BY <1>1, <1>2, ServiceMoves DEF LoadLeft, CalibrationTypeOK, timerVars
    <2>2. loaded'["service"] = timerleft /\ loaded'["rainmaker"] = loaded["rainmaker"]
          /\ Runs' = Runs /\ Flag' = Flag
      BY <1>1, <1>2, RunsAsBefore DEF LoadLeft, CalibrationTypeOK, timerVars, Flag
    <2>3. UNCHANGED <<g_detect_config, nvs, timerleft, training, cloudFlag, val, astray, span, ticks>>
      BY <1>2 DEF LoadLeft, timerVars
    <2>4. QED
      BY <1>1, <2>1, <2>2, <2>3
  <1>3. CASE StoreLeft(c)
    <2> DEFINE next == IF loaded[c] - Interval < Interval THEN "reset" ELSE "param"
    <2>1. /\ at["service"] = "store" /\ at'["service"] = next
          /\ at'["rainmaker"] = at["rainmaker"]
          /\ at' \in [Contexts -> CallbackAt \cup WriteAt \cup {"idle", "blob", "drain"}]
          /\ at'["rainmaker"] # "drain" /\ at'["service"] \notin WriteAt \cup {"blob"}
      <3>1. Move("service", "store", next) /\ next \in CallbackAt \cup {"idle", "drain"}
        BY <1>3 DEF StoreLeft
      <3>2. QED
        BY <1>1, <3>1, ServiceMoves
    <2>2. loaded'["rainmaker"] = loaded["rainmaker"] /\ loaded["service"] \in Int
          /\ loaded' \in [Contexts -> Int]
          /\ Runs' = Runs /\ Flag' = Flag
      BY <1>1, <1>3, RunsAsBefore DEF StoreLeft, CalibrationTypeOK, Flag
    <2>3. /\ UNCHANGED <<g_detect_config, nvs, active, posted, training, cloudFlag, val, writes,
                         astray, span, ticks>>
          /\ timerleft' = loaded["service"] - Interval
      BY <1>3 DEF StoreLeft
    <2>4. Used(ticks) \in Nat /\ Interval \in Nat /\ span \in Nat /\ timerleft \in Int
      BY <1>1, Intervals DEF CalibrationTypeOK
    <2>5. CalibrationTypeOK'
      BY <1>1, <2>1, <2>2, <2>3, <2>4 DEF CalibrationTypeOK
    <2>6. ASSUME ~ astray, Flag, ~ WritingFlag
          PROVE  /\ timerleft' = span - Used(ticks)
                 /\ next = "param" => Used(ticks) + Interval <= span
      BY <2>1, <2>2, <2>3, <2>4, <2>6
    <2>7. next \in {"reset", "param"}
      OBVIOUS
    <2> HIDE DEF next
    <2>8. QED
      BY <1>1, <2>1, <2>2, <2>3, <2>5, <2>6, <2>7
  <1>4. CASE ResetLeft(c)
    <2>1. /\ at["service"] = "reset" /\ at'["service"] = "clear"
          /\ at'["rainmaker"] = at["rainmaker"] /\ CalibrationTypeOK'
      <3>1. g_detect_config.timeout \in Int
        BY <1>1 DEF CalibrationTypeOK, Detection
      <3>2. QED
        BY <1>1, <1>4, <3>1, ServiceMoves DEF ResetLeft, CalibrationTypeOK
    <2>2. Runs' = Runs /\ Flag' = Flag
          /\ UNCHANGED <<g_detect_config, nvs, training, cloudFlag, val, astray, span, ticks, loaded>>
      BY <1>4, RunsAsBefore DEF ResetLeft, Flag
    <2>3. QED
      BY <1>1, <2>1, <2>2
  <1>5. CASE ClearFlag(c)
    <2>1. /\ at["service"] = "clear" /\ at'["service"] = "stop"
          /\ at'["rainmaker"] = at["rainmaker"] /\ CalibrationTypeOK' /\ Flag' = FALSE
      BY <1>1, <1>5, ServiceMoves, SetField DEF ClearFlag, CalibrationTypeOK, timerVars, Flag
    <2>2. Runs' = Runs
          /\ UNCHANGED <<nvs, timerleft, training, cloudFlag, val, astray, span, ticks, loaded>>
      BY <1>5, RunsAsBefore DEF ClearFlag, timerVars
    <2>3. QED
      BY <1>1, <2>1, <2>2
  <1>6. CASE StopTimer(c)
    <2>1. /\ at["service"] = "stop" /\ at'["service"] = "trained"
          /\ at'["rainmaker"] = at["rainmaker"] /\ CalibrationTypeOK' /\ Runs' = FALSE
      BY <1>1, <1>6, ServiceMoves, RunsAsPosted DEF StopTimer, CalibrationTypeOK
    <2>2. Flag' = Flag
          /\ UNCHANGED <<g_detect_config, nvs, timerleft, training, cloudFlag, val, astray, span, ticks,
                         loaded>>
      BY <1>6 DEF StopTimer, Flag
    <2>3. QED
      BY <1>1, <2>1, <2>2
  <1>7. CASE TrainStop(c)
    <2>1. /\ at["service"] = "trained" /\ at'["service"] = "save"
          /\ at'["rainmaker"] = at["rainmaker"] /\ CalibrationTypeOK' /\ Flag' = Flag
      BY <1>1, <1>7, ServiceMoves, SetField DEF TrainStop, CalibrationTypeOK, timerVars, Flag
    <2>2. Runs' = Runs /\ training' = FALSE
          /\ UNCHANGED <<nvs, timerleft, cloudFlag, val, astray, span, ticks, loaded>>
      BY <1>7, RunsAsBefore DEF TrainStop, timerVars
    <2>3. QED
      BY <1>1, <2>1, <2>2
  <1>8. CASE StoreBlob(c)
    <2>1. /\ at["service"] = "save" /\ at'["service"] = "param"
          /\ at'["rainmaker"] = at["rainmaker"] /\ CalibrationTypeOK'
      BY <1>1, <1>8, ServiceMoves DEF StoreBlob, CalibrationTypeOK, timerVars
    <2>2. Runs' = Runs /\ Flag' = Flag /\ nvs' = g_detect_config
          /\ UNCHANGED <<g_detect_config, timerleft, training, cloudFlag, val, astray, span, ticks,
                         loaded>>
      BY <1>8, RunsAsBefore DEF StoreBlob, timerVars, Flag
    <2>3. QED
      BY <1>1, <2>1, <2>2
  <1>9. CASE TellFlag(c)
    <2>1. /\ at["service"] = "param" /\ at'["service"] = "drain"
          /\ at'["rainmaker"] = at["rainmaker"] /\ CalibrationTypeOK'
      BY <1>1, <1>9, ServiceMoves DEF TellFlag, CalibrationTypeOK, timerVars, Detection
    <2>2. Runs' = Runs /\ Flag' = Flag /\ cloudFlag' = Flag
          /\ UNCHANGED <<g_detect_config, nvs, timerleft, training, val, astray, span, ticks, loaded>>
      BY <1>9, RunsAsBefore DEF TellFlag, timerVars, Flag
    <2>3. QED
      BY <1>1, <2>1, <2>2
  <1>10. QED
    BY <1>2, <1>3, <1>4, <1>5, <1>6, <1>7, <1>8, <1>9 DEF auto_calibrate_timercb

(* The callback in RainMaker's task: a write ends the calibration.          *)
LEMMA RainmakerCallbackKeeps ==
  ASSUME CalibrationIInv, auto_calibrate_timercb("rainmaker")
  PROVE  CalibrationIInv'
  <1> DEFINE c == "rainmaker"
  <1> USE DEF CalibrationIInv, WillStore, Apart, FlagAgrees, OthersAgree, ZeroEnds, TimeAgrees,
              WritingFlag, CallbackAt, WriteAt, Contexts
  <1>1. CalibrationTypeOK /\ Flag \in BOOLEAN /\ Runs \in BOOLEAN
    BY DEF CalibrationTypeOK, Detection, Flag, Runs
  <1>2. CASE LoadLeft(c)
    <2>1. /\ at["rainmaker"] = "load" /\ at'["rainmaker"] = "store"
          /\ at'["service"] = at["service"] /\ CalibrationTypeOK'
      BY <1>1, <1>2, RainmakerMoves DEF LoadLeft, CalibrationTypeOK, timerVars
    <2>2. loaded'["rainmaker"] = timerleft /\ loaded'["service"] = loaded["service"]
          /\ Runs' = Runs /\ Flag' = Flag
      BY <1>1, <1>2, RunsAsBefore DEF LoadLeft, CalibrationTypeOK, timerVars, Flag
    <2>3. UNCHANGED <<g_detect_config, nvs, timerleft, training, cloudFlag, val, astray, span, ticks>>
      BY <1>2 DEF LoadLeft, timerVars
    <2>4. QED
      BY <1>1, <2>1, <2>2, <2>3
  <1>3. CASE StoreLeft(c)
    <2> DEFINE next == IF loaded[c] - Interval < Interval THEN "reset" ELSE "param"
    <2>1. /\ at["rainmaker"] = "store" /\ at'["rainmaker"] = next
          /\ at'["service"] = at["service"]
          /\ at' \in [Contexts -> CallbackAt \cup WriteAt \cup {"idle", "blob", "drain"}]
          /\ at'["rainmaker"] # "drain" /\ at'["service"] \notin WriteAt \cup {"blob"}
      <3>1. Move("rainmaker", "store", next) /\ next \in CallbackAt \cup WriteAt \cup {"idle", "blob"}
        BY <1>3 DEF StoreLeft
      <3>2. QED
        BY <1>1, <3>1, RainmakerMoves
    <2>2. loaded'["service"] = loaded["service"] /\ loaded["rainmaker"] \in Int
          /\ loaded' \in [Contexts -> Int]
          /\ Runs' = Runs /\ Flag' = Flag
      BY <1>1, <1>3, RunsAsBefore DEF StoreLeft, CalibrationTypeOK, Flag
    <2>3. /\ UNCHANGED <<g_detect_config, nvs, active, posted, training, cloudFlag, val, writes,
                         astray, span, ticks>>
          /\ timerleft' = loaded["rainmaker"] - Interval
      BY <1>3 DEF StoreLeft
    <2>4. Interval \in Nat /\ Interval > 0
      BY Intervals
    <2>5. CalibrationTypeOK'
      BY <1>1, <2>1, <2>2, <2>3, <2>4 DEF CalibrationTypeOK
    <2>6. ASSUME ~ astray
          PROVE  next = "reset"
      BY <2>1, <2>4, <2>6
    <2>7. next \in {"reset", "param"}
      OBVIOUS
    <2> HIDE DEF next
    <2>8. QED
      BY <1>1, <2>1, <2>2, <2>3, <2>5, <2>6, <2>7
  <1>4. CASE ResetLeft(c)
    <2>1. /\ at["rainmaker"] = "reset" /\ at'["rainmaker"] = "clear"
          /\ at'["service"] = at["service"] /\ CalibrationTypeOK'
      <3>1. g_detect_config.timeout \in Int
        BY <1>1 DEF CalibrationTypeOK, Detection
      <3>2. QED
        BY <1>1, <1>4, <3>1, RainmakerMoves DEF ResetLeft, CalibrationTypeOK
    <2>2. Runs' = Runs /\ Flag' = Flag
          /\ UNCHANGED <<g_detect_config, nvs, training, cloudFlag, val, astray, span, ticks, loaded>>
      BY <1>4, RunsAsBefore DEF ResetLeft, Flag
    <2>3. QED
      BY <1>1, <2>1, <2>2
  <1>5. CASE ClearFlag(c)
    <2>1. /\ at["rainmaker"] = "clear" /\ at'["rainmaker"] = "stop"
          /\ at'["service"] = at["service"] /\ CalibrationTypeOK' /\ Flag' = FALSE
      BY <1>1, <1>5, RainmakerMoves, SetField DEF ClearFlag, CalibrationTypeOK, timerVars, Flag
    <2>2. Runs' = Runs
          /\ UNCHANGED <<nvs, timerleft, training, cloudFlag, val, astray, span, ticks, loaded>>
      BY <1>5, RunsAsBefore DEF ClearFlag, timerVars
    <2>3. QED
      BY <1>1, <2>1, <2>2
  <1>6. CASE StopTimer(c)
    <2>1. /\ at["rainmaker"] = "stop" /\ at'["rainmaker"] = "trained"
          /\ at'["service"] = at["service"] /\ CalibrationTypeOK' /\ Runs' = FALSE
      BY <1>1, <1>6, RainmakerMoves, RunsAsPosted DEF StopTimer, CalibrationTypeOK
    <2>2. Flag' = Flag
          /\ UNCHANGED <<g_detect_config, nvs, timerleft, training, cloudFlag, val, astray, span, ticks,
                         loaded>>
      BY <1>6 DEF StopTimer, Flag
    <2>3. QED
      BY <1>1, <2>1, <2>2
  <1>7. CASE TrainStop(c)
    <2>1. /\ at["rainmaker"] = "trained" /\ at'["rainmaker"] = "save"
          /\ at'["service"] = at["service"] /\ CalibrationTypeOK' /\ Flag' = Flag
      BY <1>1, <1>7, RainmakerMoves, SetField DEF TrainStop, CalibrationTypeOK, timerVars, Flag
    <2>2. Runs' = Runs /\ training' = FALSE
          /\ UNCHANGED <<nvs, timerleft, cloudFlag, val, astray, span, ticks, loaded>>
      BY <1>7, RunsAsBefore DEF TrainStop, timerVars
    <2>3. QED
      BY <1>1, <2>1, <2>2
  <1>8. CASE StoreBlob(c)
    <2>1. /\ at["rainmaker"] = "save" /\ at'["rainmaker"] = "param"
          /\ at'["service"] = at["service"] /\ CalibrationTypeOK'
      BY <1>1, <1>8, RainmakerMoves DEF StoreBlob, CalibrationTypeOK, timerVars
    <2>2. Runs' = Runs /\ Flag' = Flag /\ nvs' = g_detect_config
          /\ UNCHANGED <<g_detect_config, timerleft, training, cloudFlag, val, astray, span, ticks,
                         loaded>>
      BY <1>8, RunsAsBefore DEF StoreBlob, timerVars, Flag
    <2>3. QED
      BY <1>1, <2>1, <2>2
  <1>9. CASE TellFlag(c)
    <2>1. /\ at["rainmaker"] = "param" /\ at'["rainmaker"] = "report"
          /\ at'["service"] = at["service"] /\ CalibrationTypeOK'
      BY <1>1, <1>9, RainmakerMoves DEF TellFlag, CalibrationTypeOK, timerVars, Detection
    <2>2. Runs' = Runs /\ Flag' = Flag /\ cloudFlag' = Flag
          /\ UNCHANGED <<g_detect_config, nvs, timerleft, training, val, astray, span, ticks, loaded>>
      BY <1>9, RunsAsBefore DEF TellFlag, timerVars, Flag
    <2>3. QED
      BY <1>1, <2>1, <2>2
  <1>10. QED
    BY <1>2, <1>3, <1>4, <1>5, <1>6, <1>7, <1>8, <1>9 DEF auto_calibrate_timercb

(* The timer service between the callbacks.                                 *)
LEMMA ServiceKeeps ==
  ASSUME CalibrationIInv, Expire \/ TimerCommand \/ Drained
  PROVE  CalibrationIInv'
  <1> USE DEF CalibrationIInv, WillStore, Apart, FlagAgrees, OthersAgree, ZeroEnds, TimeAgrees,
              WritingFlag, CallbackAt, WriteAt, Contexts
  <1>1. CalibrationTypeOK /\ Flag \in BOOLEAN /\ Runs \in BOOLEAN
    BY DEF CalibrationTypeOK, Detection, Flag, Runs
  <1>2. CASE Expire
    <2>1. /\ at["service"] = "idle" /\ at'["service"] = "load" /\ at'["rainmaker"] = at["rainmaker"]
          /\ at' \in [Contexts -> CallbackAt \cup WriteAt \cup {"idle", "blob", "drain"}]
      BY <1>1, <1>2, ServiceMoves DEF Expire
    <2>2. /\ ticks' = ticks + 1 /\ astray' = (astray \/ WritingFlag)
          /\ UNCHANGED <<g_detect_config, nvs, timerleft, active, posted, training, cloudFlag,
                         loaded, val, writes, span>>
      BY <1>2 DEF Expire, timerVars
    <2>3. CalibrationTypeOK'
      BY <1>1, <2>1, <2>2 DEF CalibrationTypeOK
    <2>4. Runs' = Runs /\ Flag' = Flag
      BY <2>2, RunsAsBefore DEF Flag
    <2>5. /\ Used(ticks) \in Nat /\ Used(ticks') = Used(ticks) + Interval
          /\ Interval \in Nat /\ span \in Nat /\ timerleft \in Int
      BY <1>1, <2>2, Intervals DEF CalibrationTypeOK
    <2>6. astray' = FALSE => astray = FALSE /\ ~ WritingFlag
      BY <1>1, <2>2 DEF CalibrationTypeOK
    <2>7. astray' \in BOOLEAN /\ (WritingFlag' <=> WritingFlag)
      BY <2>1, <2>3 DEF CalibrationTypeOK
    <2>8. WillStore'
      BY <2>1, <2>2
    <2>9. ASSUME astray' = FALSE
          PROVE  Apart' /\ FlagAgrees' /\ OthersAgree' /\ ZeroEnds'
      BY <1>1, <2>1, <2>2, <2>4, <2>6, <2>7, <2>9
    <2>10. ASSUME astray' = FALSE
           PROVE  TimeAgrees'
      BY <1>1, <2>1, <2>2, <2>4, <2>5, <2>6, <2>7, <2>10
    <2>11. QED
      BY <2>3, <2>7, <2>8, <2>9, <2>10
  <1>3. CASE TimerCommand
    <2>1. /\ posted' \in Seq({"start", "stop"}) /\ active' \in BOOLEAN /\ Runs' = Runs
          /\ UNCHANGED <<g_detect_config, nvs, timerleft, training, cloudFlag, at, loaded, val,
                         writes, astray, span, ticks>>
      BY <1>1, <1>3, RunsAsCommanded DEF TimerCommand
    <2>2. CalibrationTypeOK' /\ Flag' = Flag
      BY <1>1, <2>1 DEF CalibrationTypeOK, Flag
    <2>3. QED
      BY <1>1, <2>1, <2>2
  <1>4. CASE Drained
    <2>1. /\ at["service"] = "drain" /\ at'["service"] = "idle" /\ at'["rainmaker"] = at["rainmaker"]
          /\ at' \in [Contexts -> CallbackAt \cup WriteAt \cup {"idle", "blob", "drain"}]
      BY <1>1, <1>4, ServiceMoves DEF Drained
    <2>2. UNCHANGED <<g_detect_config, nvs, timerleft, active, posted, training, cloudFlag,
                      loaded, val, writes, astray, span, ticks>>
      BY <1>4 DEF Drained, timerVars
    <2>3. CalibrationTypeOK' /\ Runs' = Runs /\ Flag' = Flag
      BY <1>1, <2>1, <2>2, RunsAsBefore DEF CalibrationTypeOK, Flag
    <2>4. QED
      BY <1>1, <2>1, <2>2, <2>3
  <1>5. QED
    BY <1>2, <1>3, <1>4

(* A write from the cloud, up to the flag.                                  *)
LEMMA WriteBegins ==
  ASSUME CalibrationIInv, WriteField \/ WriteFlag \/ TestFlag \/ SetLeft
  PROVE  CalibrationIInv'
  <1> USE DEF CalibrationIInv, WillStore, Apart, FlagAgrees, OthersAgree, ZeroEnds, TimeAgrees,
              WritingFlag, CallbackAt, WriteAt, Contexts
  <1>1. /\ CalibrationTypeOK /\ Flag \in BOOLEAN /\ Runs \in BOOLEAN
        /\ g_detect_config.timeout \in Nat
    BY DEF CalibrationTypeOK, Detection, Flag, Runs
  <1>2. CASE WriteField
    <2>1. /\ at["rainmaker"] = "idle" /\ at'["rainmaker"] = "blob" /\ at'["service"] = at["service"]
          /\ at' \in [Contexts -> CallbackAt \cup WriteAt \cup {"idle", "blob", "drain"}]
      BY <1>1, <1>2, RainmakerMoves DEF WriteField
    <2>2. g_detect_config' \in Detection /\ Flag' = Flag
      <3>1. \A t \in TimeoutsSent : t % Width \in Nat
        BY CalibrationAssumption DEF CalibrationAssumption
      <3>2. QED
        BY <1>1, <1>2, <3>1, SetField DEF WriteField, CalibrationTypeOK, Flag
    <2>3. /\ writes' = writes + 1
          /\ UNCHANGED <<nvs, timerleft, active, posted, training, cloudFlag, loaded, val, astray,
                         span, ticks>>
      BY <1>2 DEF WriteField, Write, timerVars
    <2>4. CalibrationTypeOK' /\ Runs' = Runs
      BY <1>1, <2>1, <2>2, <2>3, RunsAsBefore DEF CalibrationTypeOK
    <2>5. QED
      BY <1>1, <2>1, <2>2, <2>3, <2>4
  <1>3. CASE WriteFlag
    <2>1. /\ at["rainmaker"] = "idle" /\ at'["rainmaker"] = "test" /\ at'["service"] = at["service"]
          /\ at' \in [Contexts -> CallbackAt \cup WriteAt \cup {"idle", "blob", "drain"}]
      BY <1>1, <1>3, RainmakerMoves DEF WriteFlag
    <2>2. /\ val' \in BOOLEAN /\ writes' = writes + 1
          /\ g_detect_config' = [g_detect_config EXCEPT !.calibrate = val']
          /\ astray' = (at["service"] \notin {"idle", "drain"})
          /\ UNCHANGED <<nvs, timerleft, active, posted, training, cloudFlag, loaded, span, ticks>>
      BY <1>3 DEF WriteFlag, Write, timerVars
    <2>3. g_detect_config' \in Detection /\ Flag' = val'
      BY <1>1, <2>2, SetField DEF CalibrationTypeOK, Flag
    <2>4. astray' \in BOOLEAN /\ (astray' = FALSE => at["service"] \in {"idle", "drain"})
      BY <2>2
    <2>5. CalibrationTypeOK' /\ Runs' = Runs
      BY <1>1, <2>1, <2>2, <2>3, <2>4, RunsAsBefore DEF CalibrationTypeOK
    <2>6. QED
      BY <1>1, <2>1, <2>3, <2>4, <2>5
  <1>4. CASE TestFlag
    <2> DEFINE next == IF g_detect_config.calibrate THEN "left" ELSE "zero"
    <2>1. Move("rainmaker", "test", next) /\ next \in WriteAt
      BY <1>4 DEF TestFlag
    <2>2. /\ at["rainmaker"] = "test" /\ at'["rainmaker"] = next /\ at'["service"] = at["service"]
          /\ at' \in [Contexts -> CallbackAt \cup WriteAt \cup {"idle", "blob", "drain"}]
      BY <1>1, <2>1, RainmakerMoves
    <2>3. (Flag /\ next = "left") \/ (~ Flag /\ next = "zero")
      BY <1>1 DEF Flag
    <2>4. UNCHANGED <<g_detect_config, nvs, timerleft, active, posted, training, cloudFlag, loaded,
                      val, writes, astray, span, ticks>>
      BY <1>4 DEF TestFlag, timerVars
    <2> HIDE DEF next
    <2>5. CalibrationTypeOK' /\ Runs' = Runs /\ Flag' = Flag
      BY <1>1, <2>2, <2>3, <2>4, RunsAsBefore DEF CalibrationTypeOK, Flag
    <2>6. QED
      BY <1>1, <2>2, <2>3, <2>4, <2>5
  <1>5. CASE SetLeft
    <2>1. /\ at["rainmaker"] = "left" /\ at'["rainmaker"] = "start"
          /\ at'["service"] = at["service"]
          /\ at' \in [Contexts -> CallbackAt \cup WriteAt \cup {"idle", "blob", "drain"}]
      BY <1>1, <1>5, RainmakerMoves DEF SetLeft
    <2>2. /\ timerleft' = span' /\ span' = g_detect_config.timeout /\ ticks' = 0
          /\ UNCHANGED <<g_detect_config, nvs, active, posted, training, cloudFlag, loaded, val,
                         writes, astray>>
      BY <1>5 DEF SetLeft
    <2>3. CalibrationTypeOK' /\ Runs' = Runs /\ Flag' = Flag
      BY <1>1, <2>1, <2>2, RunsAsBefore DEF CalibrationTypeOK, Flag
    <2>4. QED
      BY <1>1, <2>1, <2>2, <2>3
  <1>6. QED
    BY <1>2, <1>3, <1>4, <1>5

(* The rest of a write.                                                     *)
LEMMA WriteEnds ==
  ASSUME CalibrationIInv, StartTimer \/ TrainStart \/ ZeroLeft \/ ReportFlag \/ StoreWritten
  PROVE  CalibrationIInv'
  <1> USE DEF CalibrationIInv, WillStore, Apart, FlagAgrees, OthersAgree, ZeroEnds, TimeAgrees,
              WritingFlag, CallbackAt, WriteAt, Contexts
  <1>1. CalibrationTypeOK /\ Flag \in BOOLEAN /\ Runs \in BOOLEAN
    BY DEF CalibrationTypeOK, Detection, Flag, Runs
  <1>2. CASE StartTimer
    <2>1. /\ at["rainmaker"] = "start" /\ at'["rainmaker"] = "train"
          /\ at'["service"] = at["service"] /\ CalibrationTypeOK' /\ Runs' = TRUE
      BY <1>1, <1>2, RainmakerMoves, RunsAsPosted DEF StartTimer, CalibrationTypeOK
    <2>2. Flag' = Flag
          /\ UNCHANGED <<g_detect_config, nvs, timerleft, training, cloudFlag, val, astray, span, ticks,
                         loaded>>
      BY <1>2 DEF StartTimer, Flag
    <2>3. QED
      BY <1>1, <2>1, <2>2
  <1>3. CASE TrainStart
    <2>1. /\ at["rainmaker"] = "train" /\ at'["rainmaker"] = "report"
          /\ at'["service"] = at["service"] /\ CalibrationTypeOK' /\ training' = TRUE
      BY <1>1, <1>3, RainmakerMoves DEF TrainStart, CalibrationTypeOK, timerVars
    <2>2. Runs' = Runs /\ Flag' = Flag
          /\ UNCHANGED <<g_detect_config, nvs, timerleft, cloudFlag, val, astray, span, ticks, loaded>>
      BY <1>3, RunsAsBefore DEF TrainStart, timerVars, Flag
    <2>3. QED
      BY <1>1, <2>1, <2>2
  <1>4. CASE ZeroLeft
    <2>1. /\ at["rainmaker"] = "zero" /\ at'["rainmaker"] = "load"
          /\ at'["service"] = at["service"] /\ CalibrationTypeOK' /\ timerleft' = 0
      BY <1>1, <1>4, RainmakerMoves DEF ZeroLeft, CalibrationTypeOK
    <2>2. Runs' = Runs /\ Flag' = Flag
          /\ UNCHANGED <<g_detect_config, nvs, training, cloudFlag, val, astray, span, ticks, loaded>>
      BY <1>4, RunsAsBefore DEF ZeroLeft, Flag
    <2>3. QED
      BY <1>1, <2>1, <2>2
  <1>5. CASE ReportFlag
    <2>1. /\ at["rainmaker"] = "report" /\ at'["rainmaker"] = "blob"
          /\ at'["service"] = at["service"] /\ CalibrationTypeOK' /\ cloudFlag' = val
      BY <1>1, <1>5, RainmakerMoves DEF ReportFlag, CalibrationTypeOK, timerVars
    <2>2. Runs' = Runs /\ Flag' = Flag
          /\ UNCHANGED <<g_detect_config, nvs, timerleft, training, astray, span, ticks, loaded>>
      BY <1>5, RunsAsBefore DEF ReportFlag, timerVars, Flag
    <2>3. val \in BOOLEAN /\ Used(0) = 0 /\ Interval \in Nat /\ span \in Nat
      BY <1>1, Intervals DEF CalibrationTypeOK
    <2>4. WillStore' /\ (~ astray => Apart' /\ FlagAgrees' /\ OthersAgree' /\ ZeroEnds')
      BY <1>1, <2>1, <2>2, <2>3
    <2>5. ~ astray => TimeAgrees'
      BY <1>1, <2>1, <2>2, <2>3
    <2>6. QED
      BY <2>1, <2>2, <2>4, <2>5
  <1>6. CASE StoreWritten
    <2>1. /\ at["rainmaker"] = "blob" /\ at'["rainmaker"] = "idle"
          /\ at'["service"] = at["service"] /\ CalibrationTypeOK' /\ nvs' = g_detect_config
      BY <1>1, <1>6, RainmakerMoves DEF StoreWritten, CalibrationTypeOK, timerVars
    <2>2. Runs' = Runs /\ Flag' = Flag
          /\ UNCHANGED <<g_detect_config, timerleft, training, cloudFlag, val, astray, span, ticks,
                         loaded>>
      BY <1>6, RunsAsBefore DEF StoreWritten, timerVars, Flag
    <2>3. QED
      BY <1>1, <2>1, <2>2
  <1>7. QED
    BY <1>2, <1>3, <1>4, <1>5, <1>6

(* After a boot the configuration is what was stored, and nothing runs.     *)
Booted ==
  /\ g_detect_config \in Detection /\ nvs = g_detect_config
  /\ timerleft = 0 /\ active = FALSE /\ posted = << >> /\ training = FALSE /\ val = FALSE
  /\ cloudFlag = Flag /\ astray = Flag
  /\ at = [c \in Contexts |-> "idle"] /\ loaded = [c \in Contexts |-> 0]
  /\ writes \in Nat /\ span = 0 /\ ticks = 0

LEMMA BootAgrees == Booted => CalibrationIInv
<1> SUFFICES ASSUME Booted PROVE CalibrationIInv
  OBVIOUS
<1>1. at["rainmaker"] = "idle" /\ at["service"] = "idle" /\ Runs = FALSE /\ Flag \in BOOLEAN
  BY DEF Booted, Contexts, Runs, Flag, Detection
<1>2. CalibrationTypeOK
  <2>1. at \in [Contexts -> CallbackAt \cup WriteAt \cup {"idle", "blob", "drain"}]
    BY DEF Booted
  <2>2. loaded \in [Contexts -> Int]
    BY DEF Booted
  <2>3. posted \in Seq({"start", "stop"})
    BY DEF Booted
  <2>4. cloudFlag \in BOOLEAN /\ astray \in BOOLEAN /\ active \in BOOLEAN /\ training \in BOOLEAN
        /\ val \in BOOLEAN /\ nvs \in Detection /\ g_detect_config \in Detection
    BY <1>1, Zenon DEF Booted
  <2>5. timerleft \in Int /\ writes \in Nat /\ span \in Nat /\ ticks \in Nat
    BY DEF Booted
  <2>6. at["rainmaker"] # "drain" /\ at["service"] \notin WriteAt \cup {"blob"}
    BY <1>1 DEF WriteAt
  <2>7. QED
    BY <2>1, <2>2, <2>3, <2>4, <2>5, <2>6 DEF CalibrationTypeOK
<1>3. WillStore /\ (~ astray => ~ Flag)
  BY DEF Booted, WillStore
<1>4. QED
  BY <1>1, <1>2, <1>3 DEF Booted, CalibrationIInv, Apart, FlagAgrees, OthersAgree, ZeroEnds,
                          TimeAgrees, WritingFlag, CallbackAt, WriteAt

LEMMA RebootKeeps == CalibrationIInv /\ Reboot => CalibrationIInv'
<1>1. CalibrationIInv /\ Reboot => Booted'
  BY DEF Booted, Flag, Reboot, CalibrationIInv, CalibrationTypeOK
<1>2. QED
  BY <1>1, BootAgrees, PTL

LEMMA CalibrationInitIInv == CalibrationInit => CalibrationIInv
<1>1. \A t \in TimeoutsSent : t % Width \in Nat
  BY CalibrationAssumption DEF CalibrationAssumption
<1>2. CalibrationInit => g_detect_config \in Detection /\ Flag = FALSE /\ writes \in Nat
  BY <1>1 DEF CalibrationInit, Detection, Flag
<1>3. CalibrationInit => Booted
  BY <1>2, Zenon DEF CalibrationInit, Booted
<1>4. QED
  BY <1>3, BootAgrees

(* CalibrationAgrees holds in every state, for any timeouts and writes: what *)
(* is in force is stored whenever no handler is at work, and the flag, the   *)
(* timer, the training and the cloud agree then, except after a write of     *)
(* the flag that met the callback.                                          *)
THEOREM CalibrationAgreesAlways == CalibrationSpec => []CalibrationAgrees
<1>1. CalibrationInit => CalibrationIInv
  BY CalibrationInitIInv
<1>2. CalibrationIInv /\ [CalibrationNext]_calibrationVars => CalibrationIInv'
  <2> SUFFICES ASSUME CalibrationIInv, [CalibrationNext]_calibrationVars
               PROVE  CalibrationIInv'
    OBVIOUS
  <2>1. ASSUME NEW c \in Contexts, auto_calibrate_timercb(c)
        PROVE  CalibrationIInv'
    <3>1. CASE c = "rainmaker"
      BY <2>1, <3>1, RainmakerCallbackKeeps
    <3>2. CASE c = "service"
      BY <2>1, <3>2, ServiceCallbackKeeps
    <3>3. QED
      BY <2>1, <3>1, <3>2 DEF Contexts
  <2>2. CASE Expire \/ TimerCommand \/ Drained
    BY <2>2, ServiceKeeps
  <2>3. CASE write_cb
    BY <2>3, WriteBegins, WriteEnds DEF write_cb
  <2>4. CASE Reboot
    BY <2>4, RebootKeeps
  <2>5. CASE UNCHANGED calibrationVars
    BY <2>5 DEF calibrationVars, timerVars, CalibrationIInv, CalibrationTypeOK, WillStore, Apart,
                FlagAgrees, OthersAgree, ZeroEnds, TimeAgrees, WritingFlag, Flag, Runs
  <2>6. QED
    BY <2>1, <2>2, <2>3, <2>4, <2>5 DEF CalibrationNext
<1>3. CalibrationIInv => CalibrationAgrees
  <2> SUFFICES ASSUME CalibrationIInv, AtRest
               PROVE  CalibrationAgrees
    BY DEF CalibrationAgrees
  <2>1. at["rainmaker"] = "idle" /\ at["service"] \in {"idle", "drain"}
    BY DEF AtRest, Contexts, CalibrationIInv, CalibrationTypeOK
  <2>2. nvs = g_detect_config
    BY <2>1 DEF CalibrationIInv, WillStore
  <2>3. ASSUME ~ astray
        PROVE  /\ Runs = Flag /\ training = Flag /\ cloudFlag = Flag
               /\ Flag => timerleft = span - Used(ticks)
               /\ Flag /\ ticks > 0 => Used(ticks) + Interval <= span
    BY <2>1, <2>3 DEF CalibrationIInv, OthersAgree, TimeAgrees, WritingFlag
  <2>4. ticks \in Nat /\ Interval \in Nat
    BY CalibrationAssumption DEF CalibrationIInv, CalibrationTypeOK, CalibrationAssumption
  <2>5. Used(ticks) = Interval * ticks /\ Used(ticks) + Interval = Interval * (ticks + 1)
    BY <2>4 DEF Used
  <2>6. QED
    BY <2>2, <2>3, <2>5 DEF CalibrationAgrees, Flag, Runs
<1>4. QED
  BY <1>1, <1>2, <1>3, PTL DEF CalibrationSpec

-----------------------------------------------------------------------------
(* Presence.                                                                *)

Clock == 0..(TimeWidth - 1)

PresenceTypeOK ==
  /\ now \in Clock /\ s_report_move_timestamp \in Clock
  /\ timeSet \in BOOLEAN
  /\ s_report_someone_status \in BOOLEAN /\ s_report_move_status \in BOOLEAN
  /\ s_report_move_count \in Nat /\ untold \in Nat /\ late \in Nat
  /\ cloud \in [someone : BOOLEAN, move : BOOLEAN]
  /\ sight \in {"none", "move", "still", "still_again"}

(* A move that the cloud was not told of lasts: it is told within the time   *)
(* that has passed since the last report.                                   *)
UntoldLasts ==
  /\ untold = s_report_move_count
  /\ untold > 0 => s_report_move_status /\ sight \notin {"still", "still_again"}
  /\ untold > 0 /\ sight # "none" =>
       /\ late <= Elapsed(s_report_move_timestamp, now)
       /\ Elapsed(s_report_move_timestamp, now) <= ReportAfter
  /\ untold = 0 \/ sight = "none" => late = 0

(* The cloud has the status that was reported.                              *)
CloudAgrees ==
  /\ cloud.move = s_report_move_status
  /\ sight = "move" => cloud.move
  /\ sight = "still_again" => ~ cloud.move

NothingBeforeTime == ~ timeSet => sight = "none" /\ untold = 0

PresenceIInv == PresenceTypeOK /\ UntoldLasts /\ CloudAgrees /\ NothingBeforeTime

(* What has passed, with or without a turn of the clock in between.         *)
LEMMA ElapsedTurns ==
  ASSUME NEW from \in Clock, NEW to \in Clock
  PROVE  Elapsed(from, to) = IF to < from THEN to + TimeWidth - from ELSE to - from
<1>1. TimeWidth \in Nat \ {0} /\ from \in 0..(TimeWidth - 1) /\ to \in 0..(TimeWidth - 1)
  BY PresenceAssumption DEF PresenceAssumption, Clock
<1>2. CASE to < from
  <2>1. to + TimeWidth - from \in 0..(TimeWidth - 1)
    BY <1>1, <1>2
  <2>2. QED
    BY <1>1, <1>2, <2>1 DEF Elapsed
<1>3. CASE ~ (to < from)
  <2>1. /\ to + TimeWidth - from \in TimeWidth..(TimeWidth + TimeWidth - 1)
        /\ to + TimeWidth - from - TimeWidth = to - from
    BY <1>1, <1>3
  <2>2. (to + TimeWidth - from) % TimeWidth = to + TimeWidth - from - TimeWidth
    BY <1>1, <2>1
  <2>3. QED
    BY <1>3, <2>1, <2>2 DEF Elapsed
<1>4. QED
  BY <1>2, <1>3

(* Time goes on from a moment no longer ago than a report may be late.      *)
LEMMA ElapsedGrows ==
  ASSUME NEW from \in Clock, NEW time \in Clock, NEW gap \in Gaps, NEW then,
         then = (time + gap) % TimeWidth,
         Elapsed(from, time) <= ReportAfter
  PROVE  then \in Clock /\ Elapsed(from, then) = Elapsed(from, time) + gap
<1>1. /\ TimeWidth \in Nat \ {0} /\ ReportAfter \in Nat /\ gap \in Nat
      /\ gap + ReportAfter < TimeWidth
      /\ from \in 0..(TimeWidth - 1) /\ time \in 0..(TimeWidth - 1)
  BY PresenceAssumption DEF PresenceAssumption, Clock
<1>2. Elapsed(from, time) = IF time < from THEN time + TimeWidth - from ELSE time - from
  BY ElapsedTurns
<1>3. CASE time + gap < TimeWidth
  <2>1. time + gap \in 0..(TimeWidth - 1)
    BY <1>1, <1>3
  <2>2. then = time + gap /\ then \in Clock
    BY <1>1, <2>1 DEF Clock
  <2>3. Elapsed(from, then) = IF then < from THEN then + TimeWidth - from ELSE then - from
    BY <2>2, ElapsedTurns
  <2>4. QED
    BY <1>1, <1>2, <2>2, <2>3
<1>4. CASE ~ (time + gap < TimeWidth)
  <2>1. time + gap \in TimeWidth..(TimeWidth + TimeWidth - 1)
    BY <1>1, <1>4
  <2>2. then = time + gap - TimeWidth
    BY <1>1, <2>1
  <2>3. then \in Clock
    BY <1>1, <1>4, <2>2 DEF Clock
  <2>4. Elapsed(from, then) = IF then < from THEN then + TimeWidth - from ELSE then - from
    BY <2>3, ElapsedTurns
  <2>5. QED
    BY <1>1, <1>2, <1>4, <2>2, <2>3, <2>4
<1>5. QED
  BY <1>3, <1>4

LEMMA ClockTurns ==
  ASSUME NEW from \in Clock, NEW time \in Clock, NEW gap \in Gaps, NEW then,
         then = (time + gap) % TimeWidth
  PROVE  /\ then \in Clock /\ gap \in Nat
         /\ Elapsed(from, time) \in Nat
         /\ Elapsed(time, time) = 0
         /\ Elapsed(time, then) = gap
<1>1. TimeWidth \in Nat \ {0} /\ ReportAfter \in Nat /\ gap \in Nat
  BY PresenceAssumption DEF PresenceAssumption
<1>2. Elapsed(from, time) \in Nat /\ Elapsed(time, time) = 0
  BY <1>1, ElapsedTurns DEF Clock
<1>3. QED
  BY <1>1, <1>2, ElapsedGrows

(* A sample that is judged, once the time is known.                         *)
LEMMA ReportKeeps ==
  ASSUME PresenceIInv, NEW gap \in Gaps, NEW move \in BOOLEAN,
         timeSet, Sample(gap), TellLeft(Someone(now')), TellMove(Someone(now'), move),
         sight' = IF move THEN "move"
                  ELSE IF sight \in {"still", "still_again"} THEN "still_again" ELSE "still",
         UNCHANGED timeSet
  PROVE  PresenceIInv'
<1> DEFINE someone == Elapsed(s_last_move_time, now') < someone_timeout
           tells   == \/ move # s_report_move_status
                      \/ move /\ Elapsed(s_report_move_timestamp, now') > ReportAfter
           one     == IF move THEN 1 ELSE 0
<1>1. /\ PresenceTypeOK /\ ReportAfter \in Nat
      /\ now' \in Clock /\ gap \in Nat
      /\ Elapsed(s_report_move_timestamp, now) \in Nat
      /\ Elapsed(s_report_move_timestamp, now') \in Nat
      /\ Elapsed(now, now') = gap /\ Elapsed(now', now') = 0
  BY PresenceAssumption, ClockTurns DEF PresenceIInv, PresenceTypeOK, Sample, PresenceAssumption
<1>2. Elapsed(s_report_move_timestamp, now) <= ReportAfter
        => Elapsed(s_report_move_timestamp, now') = Elapsed(s_report_move_timestamp, now) + gap
  BY <1>1, ElapsedGrows DEF PresenceTypeOK, Sample
<1>3. someone \in BOOLEAN /\ s_report_someone_status' \in BOOLEAN
  <2>1. s_report_someone_status \in BOOLEAN
    BY <1>1 DEF PresenceTypeOK
  <2>2. someone \in BOOLEAN /\ Someone(now') = someone
    BY DEF Someone
  <2> HIDE DEF someone
  <2>3. QED
    BY <2>1, <2>2, Zenon DEF TellLeft
<1>4. \/ move /\ sight' = "move"
      \/ ~ move /\ sight \in {"still", "still_again"} /\ sight' = "still_again"
      \/ ~ move /\ sight \notin {"still", "still_again"} /\ sight' = "still"
  OBVIOUS
<1>5. one \in Nat /\ (move => one = 1) /\ (~ move => one = 0) /\ Count(move) = s_report_move_count + one
  BY DEF Count
<1>6. CASE tells
  <2>1. /\ cloud' = [someone |-> someone, move |-> move \/ Count(move) > 0]
        /\ s_report_move_status' = IF ~ s_report_move_status \/ Count(move) = 0 THEN move
                                   ELSE s_report_move_status
        /\ s_report_move_count' = 0 /\ s_report_move_timestamp' = now'
        /\ untold' = untold + one - Count(move) /\ late' = 0
    BY <1>6 DEF TellMove, Someone
  <2>2. untold' = 0
    BY <1>1, <1>5, <2>1 DEF PresenceIInv, UntoldLasts, PresenceTypeOK
  <2>3. /\ cloud' \in [someone : BOOLEAN, move : BOOLEAN]
        /\ cloud'.move = (move \/ Count(move) > 0)
    BY <1>3, <2>1
  <2>4. s_report_move_status' \in BOOLEAN /\ (cloud'.move <=> s_report_move_status')
    BY <1>1, <1>5, <1>6, <2>1, <2>3 DEF PresenceIInv, UntoldLasts, PresenceTypeOK
  <2>5. (sight' = "move" => cloud'.move) /\ (sight' = "still_again" => ~ cloud'.move)
    BY <1>1, <1>4, <1>5, <2>3 DEF PresenceIInv, UntoldLasts, PresenceTypeOK
  <2>6. PresenceTypeOK'
    BY <1>1, <1>3, <1>4, <2>1, <2>2, <2>3, <2>4 DEF PresenceTypeOK
  <2>7. UntoldLasts'
    BY <1>1, <2>1, <2>2 DEF UntoldLasts
  <2>8. CloudAgrees' /\ NothingBeforeTime'
    BY <2>3, <2>4, <2>5 DEF CloudAgrees, NothingBeforeTime
  <2>9. QED
    BY <2>6, <2>7, <2>8 DEF PresenceIInv
<1>7. CASE ~ tells
  <2>1. /\ s_report_move_count' = Count(move) /\ untold' = untold + one
        /\ late' = IF untold = 0 \/ sight = "none" THEN 0 ELSE late + Elapsed(now, now')
        /\ UNCHANGED <<cloud, s_report_move_status, s_report_move_timestamp>>
    BY <1>7 DEF TellMove
  <2>2. /\ move <=> s_report_move_status
        /\ move => Elapsed(s_report_move_timestamp, now') <= ReportAfter
    BY <1>1, <1>7 DEF PresenceTypeOK
  <2>3. untold' \in Nat /\ late' \in Nat /\ untold' = s_report_move_count'
    BY <1>1, <1>5, <2>1 DEF PresenceIInv, UntoldLasts, PresenceTypeOK
  <2>4. untold' > 0 => move
    BY <1>1, <1>5, <2>1, <2>2 DEF PresenceIInv, UntoldLasts, PresenceTypeOK
  <2>5. late' <= Elapsed(s_report_move_timestamp, now')
    BY <1>1, <1>2, <2>1 DEF PresenceIInv, UntoldLasts, PresenceTypeOK
  <2>6. untold' = 0 \/ sight' = "none" => late' = 0
    BY <1>1, <1>4, <1>5, <2>1 DEF PresenceTypeOK
  <2>7. PresenceTypeOK'
    BY <1>1, <1>3, <1>4, <1>5, <2>1, <2>3 DEF PresenceTypeOK
  <2>8. UntoldLasts'
    <3>1. Elapsed(s_report_move_timestamp, now)' = Elapsed(s_report_move_timestamp, now')
      BY <2>1 DEF Elapsed
    <3>2. QED
      BY <1>1, <1>4, <2>1, <2>2, <2>3, <2>4, <2>5, <2>6, <3>1 DEF UntoldLasts
  <2>9. CloudAgrees' /\ NothingBeforeTime'
    BY <1>1, <1>4, <2>1, <2>2 DEF PresenceIInv, CloudAgrees, NothingBeforeTime, PresenceTypeOK
  <2>10. QED
    BY <2>7, <2>8, <2>9 DEF PresenceIInv
<1>8. QED
  BY <1>6, <1>7

(* MovesReported holds in every state, for any clock, gaps and timeouts: no  *)
(* move is lost on the way to the cloud, told twice or told too late, and    *)
(* its status follows the room by two samples, through wraps of the clock,   *)
(* calibrations and changes of the configuration.                           *)
THEOREM MovesReportedAlways == PresenceSpec => []MovesReported
<1>1. PresenceInit => PresenceIInv
  <2> SUFFICES ASSUME PresenceInit PROVE PresenceIInv
    OBVIOUS
  <2>1. TimeWidth \in Nat \ {0} /\ ReportAfter \in Nat
    BY PresenceAssumption DEF PresenceAssumption
  <2>2. cloud \in [someone : BOOLEAN, move : BOOLEAN] /\ cloud.move = FALSE
    <3>1. cloud = [someone |-> FALSE, move |-> FALSE]
      BY DEF PresenceInit
    <3>2. QED
      BY <3>1
  <2>3. PresenceTypeOK
    <3>1. 0 \in Clock /\ 0 \in Nat
      BY <2>1 DEF Clock
    <3>2. /\ timeSet \in BOOLEAN /\ s_report_someone_status \in BOOLEAN
          /\ s_report_move_status \in BOOLEAN
      BY DEF PresenceInit
    <3>3. /\ now = 0 /\ s_report_move_timestamp = 0 /\ s_report_move_count = 0 /\ untold = 0
          /\ late = 0 /\ sight = "none"
      BY DEF PresenceInit
    <3>4. QED
      BY <2>2, <3>1, <3>2, <3>3, Zenon DEF PresenceTypeOK
  <2>4. CloudAgrees
    BY <2>2, Zenon DEF PresenceInit, CloudAgrees
  <2>5. UntoldLasts /\ NothingBeforeTime
    BY DEF PresenceInit, UntoldLasts, NothingBeforeTime
  <2>6. QED
    BY <2>3, <2>4, <2>5 DEF PresenceIInv
<1>2. PresenceIInv /\ [PresenceNext]_presenceVars => PresenceIInv'
  <2> SUFFICES ASSUME PresenceIInv, [PresenceNext]_presenceVars
               PROVE  PresenceIInv'
    OBVIOUS
  <2>1. CASE SkipSample
    <3>1. now' \in Clock
      BY <2>1, ClockTurns DEF SkipSample, Sample, PresenceIInv, PresenceTypeOK
    <3>2. QED
      BY <2>1, <3>1 DEF SkipSample, reportVars, PresenceIInv, PresenceTypeOK, UntoldLasts,
                        CloudAgrees, NothingBeforeTime
  <2>2. CASE UnreportedSample
    <3>1. now' \in Clock
      BY <2>2, ClockTurns DEF UnreportedSample, Sample, PresenceIInv, PresenceTypeOK
    <3>2. QED
      BY <2>2, <3>1 DEF UnreportedSample, reportVars, PresenceIInv, PresenceTypeOK, UntoldLasts,
                        CloudAgrees, NothingBeforeTime
  <2>3. CASE ReportSample
    BY <2>3, ReportKeeps DEF ReportSample
  <2>4. CASE SetTime \/ Configure \/ Calibrate \/ UNCHANGED presenceVars
    <3>1. /\ UNCHANGED <<now, reportVars, cloud, untold, late, sight>>
          /\ timeSet' \in BOOLEAN /\ (~ timeSet' => ~ timeSet)
      BY <2>4 DEF SetTime, Configure, Calibrate, presenceVars, PresenceIInv, PresenceTypeOK
    <3>2. QED
      BY <3>1 DEF reportVars, PresenceIInv, PresenceTypeOK, UntoldLasts, CloudAgrees,
                  NothingBeforeTime, Elapsed
  <2>5. QED
    BY <2>1, <2>2, <2>3, <2>4 DEF PresenceNext, radar_cb
<1>3. PresenceIInv => MovesReported
  <2> SUFFICES ASSUME PresenceIInv PROVE MovesReported
    OBVIOUS
  <2>1. PresenceTypeOK /\ ReportAfter \in Nat /\ TimeWidth \in Nat \ {0}
    BY PresenceAssumption DEF PresenceIInv, PresenceAssumption
  <2>2. Elapsed(s_report_move_timestamp, now) \in Nat
    BY <2>1, ElapsedTurns DEF PresenceTypeOK, Clock
  <2>3. late <= ReportAfter
    BY <2>1, <2>2 DEF PresenceIInv, UntoldLasts, PresenceTypeOK
  <2>4. QED
    BY <2>1, <2>3 DEF MovesReported, PresenceIInv, UntoldLasts, CloudAgrees, PresenceTypeOK
<1>4. QED
  BY <1>1, <1>2, <1>3, PTL DEF PresenceSpec

-----------------------------------------------------------------------------
(* Detect.  A count's remainder is the slot of a ring.                      *)

LEMMA Quotient ==
  ASSUME NEW w \in Nat \ {0}, NEW a \in Nat
  PROVE  \E q \in Nat : a - w * q = a % w
<1>1. a - w * (a \div w) = a % w /\ a \div w \in Nat
  OBVIOUS
<1>2. QED
  BY <1>1

(* What is less than a turn apart has different slots.                      *)
LEMMA DifferentSlots ==
  ASSUME NEW w \in Nat \ {0}, NEW a \in Nat, NEW b \in Nat, b < a, a < b + w
  PROVE  a % w # b % w
<1> SUFFICES ASSUME a % w = b % w PROVE FALSE
  OBVIOUS
<1>1. PICK p \in Nat : a - w * p = a % w
  BY Quotient
<1>2. PICK q \in Nat : b - w * q = a % w
  BY Quotient
<1>3. a - b = w * (p - q) /\ p - q \in Int
  <2>1. w * p - w * q = w * (p - q)
    OBVIOUS
  <2>2. w * p \in Int /\ w * q \in Int /\ a % w \in Int
    OBVIOUS
  <2>3. QED
    BY <1>1, <1>2, <2>1, <2>2
<1>4. \A d \in Int : (d >= 1 => w * d >= w) /\ (d <= 0 => w * d <= 0)
  OBVIOUS
<1>5. QED
  BY <1>3, <1>4

LEMMA OneToOneIsOnto ==
  ASSUME NEW S, NEW T, IsFiniteSet(S), IsFiniteSet(T), Cardinality(S) = Cardinality(T),
         NEW f \in [S -> T], \A k, l \in S : f[k] = f[l] => k = l
  PROVE  \A t \in T : \E k \in S : f[k] = t
<1>1. f \in Injection(S, T)
  BY Fun_IsInj
<1>2. f \in Surjection(S, T)
  BY <1>1, FS_Injection
<1>3. QED
  BY <1>2, Fun_SurjectionProperties

(* What differs is in slots that differ: as many of the one as of the other  *)
(* have a property.                                                         *)
LEMMA SameCount ==
  ASSUME NEW S, NEW T, IsFiniteSet(S), IsFiniteSet(T), Cardinality(S) = Cardinality(T),
         NEW f \in [S -> T], \A k, l \in S : f[k] = f[l] => k = l,
         NEW A \in SUBSET S, NEW B \in SUBSET T, \A k \in S : k \in A <=> f[k] \in B
  PROVE  Cardinality(A) = Cardinality(B)
<1> DEFINE from == [k \in A |-> f[k]]
<1>1. \A t \in T : \E k \in S : f[k] = t
  BY OneToOneIsOnto
<1>2. from \in [A -> B] /\ \A k \in A : from[k] = f[k]
  OBVIOUS
<1>3. \A k, l \in A : from[k] = from[l] => k = l
  BY <1>2
<1>4. \A t \in B : \E k \in A : from[k] = t
  BY <1>1, <1>2
<1>5. from \in Injection(A, B) /\ from \in Surjection(A, B)
  BY <1>2, <1>3, <1>4, Fun_IsInj, Fun_IsSurj
<1>6. IsFiniteSet(A) /\ IsFiniteSet(B)
  BY FS_Subset
<1> HIDE DEF from
<1>7. Cardinality(A) = Cardinality(B) <=> from \in Surjection(A, B)
  BY <1>5, <1>6, FS_Injection
<1>8. QED
  BY <1>5, <1>7

(* The callback's loop counts one slot after another.                       *)
JudgedAbove(ring, threshold) == {k \in 0..(i - 1) : ring[k] > threshold}

CountAgrees ==
  steady => /\ someone_count = Cardinality(JudgedAbove(s_buff_wander, predict_someone_threshold))
            /\ move_count = Cardinality(JudgedAbove(s_buff_jitter, predict_move_threshold))

(* The ring holds the last samples that were stored with the same size.     *)
Held(k) == k <= since /\ k <= lastSize /\ k <= s_buff_count

RingHolds ==
  \A k \in 1..ArraySize : Held(k) =>
    /\ s_buff_wander[(s_buff_count - k) % lastSize] = recent[k].wander
    /\ s_buff_jitter[(s_buff_count - k) % lastSize] = recent[k].jitter

JudgesFilled ==
  /\ since <= Len(recent)
  /\ callback = "judge" => buff_max_size = lastSize /\ buff_max_size <= s_buff_count
  /\ callback = "idle"  => i = 0

DetectIInv == TypeOK /\ JudgesFilled /\ RingHolds /\ CountAgrees

LEMMA SizesFit ==
  ASSUME NEW size \in Sizes
  PROVE  size \in Nat /\ size > 0 /\ size <= ArraySize /\ ArraySize \in Nat /\ Modulus \in Nat
         /\ ArraySize < Modulus
  BY SizeAssumption, ModulusAssumption DEF SizeAssumption, ModulusAssumption

(* The newest sample comes first, and the others move on.                   *)
LEMMA RememberShifts ==
  ASSUME TypeOK, NEW sample \in Samples, Remember(sample)
  PROVE  /\ recent' \in Seq(Samples) /\ Len(recent') = Least(Len(recent) + 1, ArraySize)
         /\ recent'[1] = sample
         /\ \A k \in 1..Len(recent) : k + 1 <= ArraySize => recent'[k + 1] = recent[k]
<1>1. /\ recent \in Seq(Samples) /\ Len(recent) \in Nat /\ Len(recent) <= ArraySize
      /\ ArraySize \in Nat /\ ArraySize > 0
  BY SizeAssumption DEF TypeOK, SizeAssumption
<1> DEFINE long == <<sample>> \o recent
           n    == Least(Len(recent) + 1, ArraySize)
<1>2. /\ long \in Seq(Samples) /\ Len(long) = Len(recent) + 1
      /\ long[1] = sample
      /\ \A k \in 1..Len(recent) : long[k + 1] = recent[k]
  BY <1>1
<1>3. n \in 1..Len(long) /\ n <= ArraySize
  BY <1>1, <1>2 DEF Least
<1>4. recent' = SubSeq(long, 1, n)
  BY DEF Remember
<1> HIDE DEF long, n
<1>5. /\ recent' \in Seq(Samples) /\ Len(recent') = n
      /\ \A k \in 1..n : recent'[k] = long[k]
  BY <1>2, <1>3, <1>4
<1>6. \A k \in 1..Len(recent) : k + 1 <= ArraySize => k + 1 \in 1..n
  BY <1>1, <1>2 DEF n, Least
<1>7. recent'[1] = sample
  BY <1>2, <1>3, <1>5
<1>8. \A k \in 1..Len(recent) : k + 1 <= ArraySize => recent'[k + 1] = recent[k]
  BY <1>1, <1>2, <1>5, <1>6
<1>9. QED
  BY <1>5, <1>7, <1>8 DEF n

(* The ring before the sample that is stored, which takes a slot of its own. *)
LEMMA RingKeeps ==
  ASSUME DetectIInv, NEW size \in Sizes, NEW count \in Nat, count + 1 < Modulus,
         count = s_buff_count, lastSize = size,
         NEW k \in 1..ArraySize, k + 1 <= size, k <= since, k <= count
  PROVE  /\ (count - k) % size # count % size
         /\ (count - k) % size \in Slots
         /\ s_buff_wander[(count - k) % size] = recent[k].wander
         /\ s_buff_jitter[(count - k) % size] = recent[k].jitter
<1>1. /\ size \in Nat \ {0} /\ size <= ArraySize /\ ArraySize \in Nat
      /\ count - k \in Nat /\ count - k < count /\ count < (count - k) + size
  BY SizesFit
<1>2. (count - k) % size # count % size
  BY <1>1, DifferentSlots
<1>3. Held(k)
  BY <1>1 DEF Held
<1>4. QED
  BY <1>1, <1>2, <1>3 DEF DetectIInv, RingHolds, Slots

LEMMA StoreTyped ==
  ASSUME DetectIInv, Store
  PROVE  TypeOK' /\ JudgesFilled' /\ CountAgrees'
<1>1. PICK sample \in Samples :
        /\ s_buff_wander' = [s_buff_wander EXCEPT ![s_buff_count % buff_max_size'] = sample.wander]
        /\ s_buff_jitter' = [s_buff_jitter EXCEPT ![s_buff_count % buff_max_size'] = sample.jitter]
        /\ Remember(sample)
  BY DEF Store
<1>2. /\ TypeOK /\ callback = "idle" /\ i = 0
      /\ buff_max_size' = predict_buff_size /\ buff_outliers_num' = predict_outliers_number
      /\ s_buff_count' = (s_buff_count + 1) % Modulus
      /\ callback' = IF s_buff_count' < buff_max_size' THEN "idle" ELSE "judge"
      /\ UNCHANGED <<configVars, i, someone_count, move_count>>
  BY DEF DetectIInv, JudgesFilled, Store
<1>3. /\ predict_buff_size \in Sizes /\ predict_buff_size \in Nat /\ Modulus \in Nat /\ Modulus > 0
      /\ ArraySize \in Nat /\ ArraySize > 0
  BY <1>2, SizesFit DEF TypeOK
<1>4. sample.wander \in Levels /\ sample.jitter \in Levels
  BY <1>1 DEF Samples
<1>5. s_buff_wander' \in [Slots -> Levels] /\ s_buff_jitter' \in [Slots -> Levels]
  BY <1>1, <1>2, <1>4 DEF TypeOK
<1>6. s_buff_count' \in 0..(Modulus - 1)
  BY <1>2, <1>3 DEF TypeOK
<1>7. /\ recent' \in Seq(Samples) /\ Len(recent') = Least(Len(recent) + 1, ArraySize)
      /\ lastSize' = predict_buff_size
      /\ since' = (IF lastSize = predict_buff_size THEN Least(since + 1, ArraySize) ELSE 1)
      /\ steady' = TRUE
  BY <1>1, <1>2, RememberShifts DEF Remember
<1>8. Len(recent) \in Nat /\ since \in Nat /\ since <= Len(recent)
  BY <1>2 DEF TypeOK, DetectIInv, JudgesFilled
<1>9. since' \in 0..ArraySize /\ since' <= Len(recent') /\ Len(recent') <= ArraySize
  BY <1>3, <1>7, <1>8 DEF Least
<1>10. UNCHANGED <<predict_buff_size, predict_outliers_number, predict_someone_threshold,
                   predict_move_threshold>>
  BY <1>2 DEF configVars
<1>11. someone_count' = 0 /\ move_count' = 0 /\ i' = 0
  BY <1>2 DEF TypeOK
<1>12. callback' \in {"idle", "judge"} /\ (callback' = "judge" => buff_max_size' <= s_buff_count')
  BY <1>2, <1>3, <1>6
<1>13. TypeOK'
  BY <1>2, <1>3, <1>5, <1>6, <1>7, <1>9, <1>10, <1>11, <1>12 DEF TypeOK
<1>14. JudgesFilled'
  BY <1>2, <1>7, <1>9, <1>11, <1>12 DEF JudgesFilled
<1>15. CountAgrees'
  <2>1. JudgedAbove(s_buff_wander, predict_someone_threshold)' = {}
        /\ JudgedAbove(s_buff_jitter, predict_move_threshold)' = {}
    BY <1>11 DEF JudgedAbove
  <2>2. QED
    BY <1>11, <2>1, FS_EmptySet DEF CountAgrees
<1>16. QED
  BY <1>13, <1>14, <1>15

(* The sample gets its slot, whether the size is the one before or not, and  *)
(* whether the count wraps or not.                                          *)
LEMMA StoreRing ==
  ASSUME DetectIInv, Store
  PROVE  RingHolds'
<1>1. PICK sample \in Samples :
        /\ s_buff_wander' = [s_buff_wander EXCEPT ![s_buff_count % buff_max_size'] = sample.wander]
        /\ s_buff_jitter' = [s_buff_jitter EXCEPT ![s_buff_count % buff_max_size'] = sample.jitter]
        /\ Remember(sample)
  BY DEF Store
<1> DEFINE size  == predict_buff_size
           count == s_buff_count
<1>2. /\ TypeOK /\ buff_max_size' = size /\ s_buff_count' = (count + 1) % Modulus
      /\ lastSize' = size
      /\ since' = (IF lastSize = size THEN Least(since + 1, ArraySize) ELSE 1)
  BY <1>1 DEF DetectIInv, Store, Remember
<1>3. /\ size \in Sizes /\ size \in Nat /\ size > 0 /\ size <= ArraySize
      /\ ArraySize \in Nat /\ Modulus \in Nat /\ Modulus > 0
      /\ count \in Nat /\ count < Modulus /\ since \in Nat /\ since <= Len(recent)
      /\ Len(recent) \in Nat
  BY <1>2, SizesFit DEF TypeOK, DetectIInv, JudgesFilled
<1>4. count + 1 = Modulus \/ count + 1 < Modulus
  BY <1>3
<1>5. CASE count + 1 = Modulus
  <2>1. s_buff_count' = 0
    BY <1>2, <1>3, <1>5
  <2>2. QED
    BY <2>1 DEF RingHolds, Held
<1>6. CASE count + 1 < Modulus
  <2>1. s_buff_count' = count + 1
    BY <1>2, <1>3, <1>6
  <2>2. /\ count % size \in Slots
        /\ s_buff_wander'[count % size] = sample.wander
        /\ s_buff_jitter'[count % size] = sample.jitter
        /\ \A slot \in Slots : slot # count % size =>
             s_buff_wander'[slot] = s_buff_wander[slot] /\ s_buff_jitter'[slot] = s_buff_jitter[slot]
    <3>1. count % size \in Slots
      BY <1>3 DEF Slots
    <3>2. /\ s_buff_wander \in [Slots -> Levels] /\ s_buff_jitter \in [Slots -> Levels]
      BY <1>2 DEF TypeOK
    <3>3. QED
      BY <1>1, <1>2, <3>1, <3>2
  <2> SUFFICES ASSUME NEW k \in 1..ArraySize, Held(k)'
               PROVE  /\ s_buff_wander'[(s_buff_count' - k) % lastSize'] = recent'[k].wander
                      /\ s_buff_jitter'[(s_buff_count' - k) % lastSize'] = recent'[k].jitter
    BY DEF RingHolds
  <2>3. k <= since' /\ k <= size /\ k <= count + 1
    BY <1>2, <2>1 DEF Held
  <2>4. CASE k = 1
    <3>1. recent'[1] = sample
      BY <1>1, <1>2, RememberShifts
    <3>2. (count + 1) - 1 = count
      BY <1>3
    <3>3. QED
      BY <1>2, <2>1, <2>2, <2>4, <3>1, <3>2
  <2>5. CASE k # 1
    <3> DEFINE j == k - 1
    <3>1. /\ j \in 1..ArraySize /\ j + 1 <= size /\ j <= count /\ k = j + 1
          /\ lastSize = size /\ j <= since
      BY <1>2, <1>3, <2>3, <2>5 DEF Least
    <3>2. j \in 1..Len(recent) /\ j + 1 <= ArraySize
      BY <1>3, <3>1
    <3>3. recent'[k] = recent[j]
      BY <1>1, <1>2, <3>1, <3>2, RememberShifts
    <3> HIDE DEF j
    <3>4. /\ (count - j) % size # count % size
          /\ (count - j) % size \in Slots
          /\ s_buff_wander[(count - j) % size] = recent[j].wander
          /\ s_buff_jitter[(count - j) % size] = recent[j].jitter
      BY <1>3, <1>6, <3>1, RingKeeps
    <3>5. (count + 1) - k = count - j
      BY <1>3, <3>1
    <3>6. QED
      BY <1>2, <2>1, <2>2, <3>3, <3>4, <3>5
  <2>6. QED
    BY <2>4, <2>5
<1>7. QED
  BY <1>4, <1>5, <1>6

(* One turn of the loop.                                                    *)
LEMMA JudgedMore ==
  ASSUME TypeOK, NEW STATE ring, NEW STATE threshold, i' = i + 1, i < ArraySize
  PROVE  /\ IsFiniteSet(JudgedAbove(ring, threshold))
         /\ Cardinality({k \in 0..(i' - 1) : ring[k] > threshold})
              = IF ring[i] > threshold THEN Cardinality(JudgedAbove(ring, threshold)) + 1
                ELSE Cardinality(JudgedAbove(ring, threshold))
<1>1. i \in Nat
  <2>1. buff_max_size \in Nat
    BY SizesFit DEF TypeOK
  <2>2. QED
    BY <2>1 DEF TypeOK
<1> DEFINE before == {k \in 0..(i - 1) : ring[k] > threshold}
           after  == {k \in 0..i : ring[k] > threshold}
<1>2. IsFiniteSet(before)
  <2>1. IsFiniteSet(0..(i - 1)) /\ before \in SUBSET (0..(i - 1))
    BY <1>1, FS_Interval
  <2>2. QED
    BY <2>1, FS_Subset
<1>3. i \notin before /\ i' - 1 = i
  BY <1>1
<1>4. CASE ring[i] > threshold
  <2>1. after = before \cup {i}
    BY <1>1, <1>4
  <2>2. Cardinality(before \cup {i}) = Cardinality(before) + 1
    BY <1>2, <1>3, FS_AddElement
  <2>3. QED
    BY <1>2, <1>3, <1>4, <2>1, <2>2 DEF JudgedAbove
<1>5. CASE ~ (ring[i] > threshold)
  <2>1. after = before
    BY <1>1, <1>5
  <2>2. QED
    BY <1>2, <1>3, <1>5, <2>1 DEF JudgedAbove
<1>6. QED
  BY <1>4, <1>5

LEMMA JudgeKeeps ==
  ASSUME DetectIInv, Judge
  PROVE  DetectIInv'
<1>1. /\ TypeOK /\ callback = "judge" /\ i < buff_max_size /\ i' = i + 1
      /\ UNCHANGED <<predict_buff_size, predict_outliers_number, predict_someone_threshold,
                     predict_move_threshold, s_buff_wander, s_buff_jitter, s_buff_count, callback,
                     buff_max_size, buff_outliers_num, recent, lastSize, since, steady>>
  BY DEF DetectIInv, Judge, configVars, ringVars, historyVars
<1>2. i \in Nat /\ buff_max_size \in Nat /\ i < ArraySize
  BY <1>1, SizesFit DEF TypeOK
<1>3. /\ someone_count' =
           (IF s_buff_wander[i] > predict_someone_threshold THEN someone_count + 1 ELSE someone_count)
      /\ move_count' =
           (IF s_buff_jitter[i] > predict_move_threshold THEN move_count + 1 ELSE move_count)
  BY DEF Judge
<1>4. TypeOK'
  <2>1. i' \in 0..buff_max_size /\ someone_count' \in 0..i' /\ move_count' \in 0..i'
    BY <1>1, <1>2, <1>3 DEF TypeOK
  <2>2. QED
    BY <1>1, <2>1 DEF TypeOK
<1>5. JudgesFilled' /\ RingHolds'
  BY <1>1 DEF DetectIInv, JudgesFilled, RingHolds, Held
<1>6. CountAgrees'
  <2>1. CASE steady
    <3>1. /\ someone_count = Cardinality(JudgedAbove(s_buff_wander, predict_someone_threshold))
          /\ move_count = Cardinality(JudgedAbove(s_buff_jitter, predict_move_threshold))
      BY <2>1 DEF DetectIInv, CountAgrees
    <3>2. /\ someone_count' = Cardinality({k \in 0..(i' - 1) : s_buff_wander[k] > predict_someone_threshold})
          /\ move_count' = Cardinality({k \in 0..(i' - 1) : s_buff_jitter[k] > predict_move_threshold})
      BY <1>1, <1>2, <1>3, <3>1, JudgedMore
    <3>3. QED
      BY <1>1, <3>2 DEF CountAgrees, JudgedAbove
  <2>2. CASE ~ steady
    BY <1>1, <2>2 DEF CountAgrees
  <2>3. QED
    BY <2>1, <2>2
<1>7. QED
  BY <1>4, <1>5, <1>6 DEF DetectIInv

LEMMA DetectKeeps == DetectIInv /\ [Next]_vars => DetectIInv'
<1> SUFFICES ASSUME DetectIInv, [Next]_vars PROVE DetectIInv'
  OBVIOUS
<1>1. CASE SetSize \/ SetOutliers \/ UNCHANGED vars
  <2>1. /\ predict_buff_size' \in Sizes /\ predict_outliers_number' \in Outliers
        /\ UNCHANGED <<predict_someone_threshold, predict_move_threshold, s_buff_wander,
                       s_buff_jitter, s_buff_count, callback, buff_max_size, buff_outliers_num, i,
                       someone_count, move_count, recent, lastSize, since, steady>>
    BY <1>1 DEF SetSize, SetOutliers, vars, configVars, ringVars, localVars, historyVars,
                DetectIInv, TypeOK
  <2>2. TypeOK'
    BY <2>1 DEF DetectIInv, TypeOK
  <2>3. JudgesFilled' /\ RingHolds' /\ CountAgrees'
    BY <2>1 DEF DetectIInv, JudgesFilled, RingHolds, Held, CountAgrees, JudgedAbove
  <2>4. QED
    BY <2>2, <2>3 DEF DetectIInv
<1>2. CASE SetThreshold
  <2>1. /\ predict_someone_threshold' \in Levels /\ predict_move_threshold' \in Levels
        /\ steady' = FALSE
        /\ UNCHANGED <<predict_buff_size, predict_outliers_number, s_buff_wander, s_buff_jitter,
                       s_buff_count, callback, buff_max_size, buff_outliers_num, i, someone_count,
                       move_count, recent, lastSize, since>>
    BY <1>2 DEF SetThreshold, ringVars, localVars, DetectIInv, TypeOK
  <2>2. TypeOK'
    BY <2>1 DEF DetectIInv, TypeOK
  <2>3. JudgesFilled' /\ RingHolds' /\ CountAgrees'
    BY <2>1 DEF DetectIInv, JudgesFilled, RingHolds, Held, CountAgrees
  <2>4. QED
    BY <2>2, <2>3 DEF DetectIInv
<1>3. CASE Store
  BY <1>3, StoreTyped, StoreRing DEF DetectIInv
<1>4. CASE Judge
  BY <1>4, JudgeKeeps
<1>5. CASE Report
  <2>1. /\ callback' = "idle" /\ i' = 0 /\ someone_count' = 0 /\ move_count' = 0
        /\ UNCHANGED <<predict_buff_size, predict_outliers_number, predict_someone_threshold,
                       predict_move_threshold, s_buff_wander, s_buff_jitter, s_buff_count,
                       buff_max_size, buff_outliers_num, recent, lastSize, since, steady>>
    BY <1>5 DEF Report, configVars, ringVars, historyVars
  <2>2. buff_max_size \in Nat
    BY SizesFit DEF DetectIInv, TypeOK
  <2>3. TypeOK'
    BY <2>1, <2>2 DEF DetectIInv, TypeOK
  <2>4. JudgesFilled' /\ RingHolds'
    BY <2>1 DEF DetectIInv, JudgesFilled, RingHolds, Held
  <2>5. CountAgrees'
    <3>1. /\ JudgedAbove(s_buff_wander, predict_someone_threshold)' = {}
          /\ JudgedAbove(s_buff_jitter, predict_move_threshold)' = {}
      BY <2>1 DEF JudgedAbove
    <3>2. QED
      BY <2>1, <3>1, FS_EmptySet DEF CountAgrees
  <2>6. QED
    BY <2>3, <2>4, <2>5 DEF DetectIInv
<1>6. QED
  BY <1>1, <1>2, <1>3, <1>4, <1>5 DEF Next

LEMMA DetectInitIInv == Init => DetectIInv
<1> SUFFICES ASSUME Init PROVE DetectIInv
  OBVIOUS
<1>1. /\ predict_buff_size \in Nat /\ ArraySize \in Nat /\ Modulus \in Nat /\ Modulus > 0
      /\ 0 \in Levels
  BY SizesFit, LevelAssumption DEF Init, LevelAssumption
<1>2. recent = << >> /\ since = 0 /\ i = 0 /\ s_buff_count = 0 /\ callback = "idle"
      /\ someone_count = 0 /\ move_count = 0
  BY DEF Init
<1>3. TypeOK
  BY <1>1 DEF Init, TypeOK
<1>4. JudgesFilled /\ RingHolds
  BY <1>2 DEF JudgesFilled, RingHolds, Held
<1>5. CountAgrees
  <2>1. /\ JudgedAbove(s_buff_wander, predict_someone_threshold) = {}
        /\ JudgedAbove(s_buff_jitter, predict_move_threshold) = {}
    BY <1>2 DEF JudgedAbove
  <2>2. QED
    BY <1>2, <2>1, FS_EmptySet DEF CountAgrees
<1>6. QED
  BY <1>3, <1>4, <1>5 DEF DetectIInv

(* The ring buffers, the counts and the history of samples keep their types, *)
(* whatever sizes and thresholds the console sets in between: no slot is     *)
(* written or read that is not allocated.                                   *)
THEOREM DetectTypeCorrect == Spec => []TypeOK
<1>1. Init => DetectIInv
  BY DetectInitIInv
<1>2. DetectIInv /\ [Next]_vars => DetectIInv'
  BY DetectKeeps
<1>3. DetectIInv => TypeOK
  BY DEF DetectIInv
<1>4. QED
  BY <1>1, <1>2, <1>3, PTL DEF Spec

(* The count that is judged is that of the last samples.                    *)
LEMMA CountOfRecent ==
  ASSUME DetectIInv, Judged, since >= buff_max_size, NEW STATE ring,
         NEW waveform \in {"wander", "jitter"}, NEW STATE threshold,
         \A k \in 1..ArraySize : Held(k) =>
           ring[(s_buff_count - k) % lastSize] = recent[k][waveform]
  PROVE  Cardinality(Above(buff_max_size, waveform, threshold))
           = Cardinality(JudgedAbove(ring, threshold))
<1>1. /\ callback = "judge" /\ i = buff_max_size
      /\ buff_max_size = lastSize /\ buff_max_size <= s_buff_count
      /\ buff_max_size \in Nat \ {0} /\ buff_max_size <= ArraySize /\ ArraySize \in Nat
      /\ s_buff_count \in Nat /\ since \in Nat
  BY SizesFit DEF DetectIInv, TypeOK, JudgesFilled, Judged
<1>2. \A k \in 1..buff_max_size :
        k \in 1..ArraySize /\ Held(k) /\ (s_buff_count - k) % buff_max_size \in 0..(buff_max_size - 1)
  BY <1>1 DEF Held
<1>3. \A k \in 1..buff_max_size :
        ring[(s_buff_count - k) % buff_max_size] = recent[k][waveform]
  BY <1>1, <1>2
<1> DEFINE A     == Above(buff_max_size, waveform, threshold)
           B     == JudgedAbove(ring, threshold)
           last  == 1..buff_max_size
           slots == 0..(buff_max_size - 1)
           slot  == [k \in last |-> (s_buff_count - k) % buff_max_size]
<1>4. A \in SUBSET last /\ B \in SUBSET slots
  BY <1>1 DEF Above, JudgedAbove
<1>5. \A k \in last : k \in A <=> slot[k] \in B
  BY <1>1, <1>2, <1>3 DEF Above, JudgedAbove
<1>6. slot \in [last -> slots]
  BY <1>1
<1>7. \A k, l \in last : slot[k] = slot[l] => k = l
  <2> SUFFICES ASSUME NEW k \in last, NEW l \in last, k < l PROVE slot[k] # slot[l]
    BY <1>1
  <2>1. /\ s_buff_count - k \in Nat /\ s_buff_count - l \in Nat
        /\ s_buff_count - l < s_buff_count - k
        /\ s_buff_count - k < (s_buff_count - l) + buff_max_size
    BY <1>1
  <2>2. QED
    BY <1>1, <2>1, DifferentSlots
<1>8. IsFiniteSet(last) /\ IsFiniteSet(slots) /\ Cardinality(last) = Cardinality(slots)
  BY <1>1, FS_Interval
<1> HIDE DEF A, B, last, slots, slot
<1>9. Cardinality(A) = Cardinality(B)
  BY <1>4, <1>5, <1>6, <1>7, <1>8, SameCount
<1>10. QED
  BY <1>9 DEF A, B

(* StatusOfRecentSamples holds in every state, for any sizes, thresholds and *)
(* width of the count: what the callback counts in the ring is the number of *)
(* the last samples above the threshold, each of them once.                 *)
THEOREM StatusOfRecentSamplesAlways == Spec => []StatusOfRecentSamples
<1>1. Init => DetectIInv
  BY DetectInitIInv
<1>2. DetectIInv /\ [Next]_vars => DetectIInv'
  BY DetectKeeps
<1>3. DetectIInv => StatusOfRecentSamples
  <2> SUFFICES ASSUME DetectIInv, Judged, steady, since >= buff_max_size
               PROVE  /\ room_status <=>
                           Cardinality(Above(buff_max_size, "wander", predict_someone_threshold))
                             >= buff_outliers_num
                      /\ human_status <=>
                           Cardinality(Above(buff_max_size, "jitter", predict_move_threshold))
                             >= buff_outliers_num
    BY DEF StatusOfRecentSamples
  <2>1. /\ someone_count = Cardinality(JudgedAbove(s_buff_wander, predict_someone_threshold))
        /\ move_count = Cardinality(JudgedAbove(s_buff_jitter, predict_move_threshold))
    BY DEF DetectIInv, CountAgrees
  <2>2. Cardinality(Above(buff_max_size, "wander", predict_someone_threshold)) = someone_count
    <3>1. \A k \in 1..ArraySize : Held(k) =>
            s_buff_wander[(s_buff_count - k) % lastSize] = recent[k]["wander"]
      BY DEF DetectIInv, RingHolds
    <3>2. QED
      BY <2>1, <3>1, CountOfRecent
  <2>3. Cardinality(Above(buff_max_size, "jitter", predict_move_threshold)) = move_count
    <3>1. \A k \in 1..ArraySize : Held(k) =>
            s_buff_jitter[(s_buff_count - k) % lastSize] = recent[k]["jitter"]
      BY DEF DetectIInv, RingHolds
    <3>2. QED
      BY <2>1, <3>1, CountOfRecent
  <2>4. QED
    BY <2>2, <2>3 DEF room_status, human_status
<1>4. QED
  BY <1>1, <1>2, <1>3, PTL DEF Spec
=============================================================================
