------------------------------ MODULE HostTrain ------------------------------
(***************************************************************************)
(* Who tells the device to train: the train panel of esp_csi_tool.py with   *)
(* its two timers, and the processes that evaluate_data_send runs in, one   *)
(* for each press of the evaluate button.  Their commands reach the device  *)
(* in the order in which they are put.                                      *)
(***************************************************************************)
EXTENDS Naturals, FiniteSets

CONSTANTS MaxSeconds,    \* bound of the two time fields
          Evaluations    \* bound: the processes that are started

ASSUME TrainAssumption ==
  MaxSeconds \in Nat /\ IsFiniteSet(Evaluations) /\ "panel" \notin Evaluations

VARIABLES
  trainText,                     \* of pushButton_train_start
  trainDelay, trainDuration,     \* timeEdit_train_delay, timeEdit_train_duration
  train_delay, train_duration,   \* their values at the start
  timer_train_delay, timer_train_duration,
  csiText,                       \* of pushButton_evaluate_csi_start
  evaluation,                    \* of each process: "none", "start", "connect",
                                 \* "send", "sleep", "ended"; its folder is "train"
  training,                      \* the device trains
  sendingCsi,                    \* the device was told to use received frames
  cutOff,                        \* history: trainers that another one's stop
                                 \* command, the last command, left without device
  failed                         \* history: a process failed since the last stop

trainPanelVars == <<trainText, trainDelay, trainDuration, train_delay, train_duration,
                    timer_train_delay, timer_train_duration>>
trainVars == <<trainPanelVars, csiText, evaluation, training, sendingCsi, cutOff, failed>>

Training(p) == evaluation[p] \in {"connect", "send", "sleep"}

(* Who means the device to train.                                           *)
Trainers == {p \in Evaluations : Training(p)}
              \cup (IF timer_train_duration THEN {"panel"} ELSE {})

TrainInit ==
  /\ trainText = "start"
  /\ trainDelay = 0 /\ trainDuration = MaxSeconds
  /\ train_delay = trainDelay /\ train_duration = trainDuration
  /\ timer_train_delay = FALSE /\ timer_train_duration = FALSE
  /\ csiText = "csi stop"
  /\ evaluation = [p \in Evaluations |-> "none"]
  /\ training = FALSE /\ sendingCsi = TRUE
  /\ cutOff = {} /\ failed = FALSE

-----------------------------------------------------------------------------
(* The commands, as the device sees them: a stop does not say whose training *)
(* it is to stop.                                                           *)
command_train_start ==
  /\ training' = TRUE /\ cutOff' = {}
  /\ UNCHANGED failed

command_train_stop(sender) ==
  /\ training' = FALSE /\ cutOff' = Trainers \ {sender}
  /\ failed' = FALSE

(* spinBox_train_duration_show, with and without a second left.             *)
CountDuration(text) ==
  /\ trainDuration > 0
  /\ trainDuration' = trainDuration - 1
  /\ timer_train_duration' = TRUE
  /\ trainText' = text

EndDuration ==
  /\ trainDuration = 0
  /\ timer_train_duration' = FALSE
  /\ trainDelay' = train_delay' /\ trainDuration' = train_duration'
  /\ trainText' = "start"

DurationTick ==
  /\ timer_train_duration
  /\ UNCHANGED <<train_delay, train_duration, timer_train_delay, csiText, evaluation,
                 sendingCsi>>
  /\ \/ CountDuration(trainText) /\ UNCHANGED <<trainDelay, training, cutOff, failed>>
     \/ EndDuration /\ command_train_stop("panel")

(* timeEdit_train_delay_show: at zero the training starts and its first      *)
(* second is counted; if there is none, both commands are sent.             *)
DelayShow(text) ==
  \/ /\ trainDelay > 0
     /\ trainDelay' = trainDelay - 1
     /\ timer_train_delay' = TRUE
     /\ trainText' = text
     /\ UNCHANGED <<trainDuration, timer_train_duration, training, cutOff, failed>>
  \/ /\ trainDelay = 0
     /\ timer_train_delay' = FALSE
     /\ \/ CountDuration(text) /\ UNCHANGED trainDelay /\ command_train_start
        \/ EndDuration /\ command_train_stop("panel")

TrainDelayTick ==
  /\ timer_train_delay
  /\ UNCHANGED <<train_delay, train_duration, csiText, evaluation, sendingCsi>>
  /\ DelayShow(trainText)

EditTimes ==
  /\ trainDelay' \in 0..MaxSeconds /\ trainDuration' \in 0..MaxSeconds
  /\ UNCHANGED <<trainText, train_delay, train_duration, timer_train_delay,
                 timer_train_duration, csiText, evaluation, training, sendingCsi,
                 cutOff, failed>>

(* pushButton_train_show; the dialog that asks first may be cancelled.       *)
PressTrain ==
  /\ trainText = "start"
  /\ train_delay' = trainDelay /\ train_duration' = trainDuration
  /\ UNCHANGED <<csiText, evaluation, sendingCsi>>
  /\ DelayShow("stop")

(* Mutation: the second press stops the timers and tells the device nothing. *)
PressStopQuietly ==
  /\ trainText = "stop"
  /\ timer_train_delay' = FALSE /\ timer_train_duration' = FALSE
  /\ trainDelay' = train_delay /\ trainDuration' = train_duration
  /\ trainText' = "start"
  /\ UNCHANGED <<train_delay, train_duration, csiText, evaluation, training,
                 sendingCsi, cutOff, failed>>

PressStop ==
  /\ trainText = "stop"
  /\ timer_train_delay' = FALSE /\ timer_train_duration' = FALSE
  /\ trainDelay' = train_delay /\ trainDuration' = train_duration
  /\ trainText' = "start"
  /\ UNCHANGED <<train_delay, train_duration, csiText, evaluation, sendingCsi>>
  /\ command_train_stop("panel")

-----------------------------------------------------------------------------
(* pushButton_evaluate_csi_start_show.                                      *)
PressCsi ==
  /\ csiText' = IF csiText = "csi stop" THEN "csi start" ELSE "csi stop"
  /\ sendingCsi' = (csiText # "csi stop")
  /\ UNCHANGED <<trainPanelVars, evaluation, training, cutOff, failed>>

(* pushButton_evaluate_start_show, for the folder "train": received frames   *)
(* are stopped if the button started them, and a process is started.  What   *)
(* it clears is in HostRecords.                                             *)
PressEvaluate(p) ==
  /\ evaluation[p] = "none"
  /\ IF csiText = "csi stop"
     THEN csiText' = "csi start" /\ sendingCsi' = FALSE
     ELSE UNCHANGED <<csiText, sendingCsi>>
  /\ evaluation' = [evaluation EXCEPT ![p] = "start"]
  /\ UNCHANGED <<trainPanelVars, training, cutOff, failed>>

(* evaluate_data_send in process p.                                         *)
Step(p, from, to) == evaluation[p] = from /\ evaluation' = [evaluation EXCEPT ![p] = to]

EvaluateTrain(p) ==
  /\ Step(p, "start", "connect")
  /\ command_train_start
  /\ UNCHANGED <<trainPanelVars, csiText, sendingCsi>>

EvaluateConnect(p) ==
  /\ Step(p, "connect", "send")
  /\ UNCHANGED <<trainPanelVars, csiText, training, sendingCsi, cutOff, failed>>

EvaluateSend(p) ==
  /\ Step(p, "send", "sleep")
  /\ UNCHANGED <<trainPanelVars, csiText, training, sendingCsi, cutOff, failed>>

EvaluateStop(p) ==
  /\ Step(p, "sleep", "ended")
  /\ UNCHANGED <<trainPanelVars, csiText, sendingCsi>>
  /\ command_train_stop(p)

(* No log/device_info.csv, no connection, a file that does not parse or a    *)
(* broken connection: the exception ends the process before the stop.       *)
EvaluateFails(p) ==
  /\ evaluation[p] \in {"connect", "send"}
  /\ evaluation' = [evaluation EXCEPT ![p] = "ended"]
  /\ failed' = TRUE
  /\ UNCHANGED <<trainPanelVars, csiText, training, sendingCsi, cutOff>>

evaluate_data_send(p) ==
  \/ EvaluateTrain(p) \/ EvaluateConnect(p) \/ EvaluateSend(p) \/ EvaluateStop(p)
  \/ EvaluateFails(p)

TrainNext ==
  \/ EditTimes \/ PressTrain \/ PressStop \/ TrainDelayTick \/ DurationTick \/ PressCsi
  \/ \E p \in Evaluations : PressEvaluate(p) \/ evaluate_data_send(p)

TrainSpec == TrainInit /\ [][TrainNext]_trainVars

-----------------------------------------------------------------------------
(* The device trains as the panel, which counts a training down, and the     *)
(* processes, which send it one, mean it to, whatever is pressed, edited or  *)
(* counted in between.  It trains for nobody only after a process failed and *)
(* before the next stop.  It rests although somebody trains only if the last *)
(* command was the stop of another: of a process that is done, or of a panel *)
(* whose duration is over or zero, or whose button is pressed, be it in the  *)
(* delay before a training of its own.                                      *)
TrainingMatches ==
  /\ training /\ Trainers = {} => failed
  /\ ~ training => Trainers \subseteq cutOff
=============================================================================
