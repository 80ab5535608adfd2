----------------------------- MODULE HostProofs -----------------------------
(***************************************************************************)
(* Proofs about the host tool's modules: for any routers, any bounds of     *)
(* the panels' fields, any number of evaluation processes, queues of any    *)
(* size, and any number of radar rows at any times.                         *)
(***************************************************************************)
EXTENDS HostTool, HostConfig, HostCollect, HostTrain, HostRecords,
        FiniteSetTheorems, SequenceTheorems, WellFoundedInduction, TLAPS

-----------------------------------------------------------------------------
(* HostConfig: the configuration file and the window.                       *)

ConfigTypeOK ==
  /\ file \in Configurations \cup {Torn}
  /\ app \in {"down", "up"}
  /\ todo \in {<<"raw_data", "radar_model", "eigenvalues_table">>,
               <<"radar_model", "eigenvalues_table">>,
               <<"eigenvalues_table">>, <<>>}
  /\ dump \in {<<>>} \cup {<<c>> : c \in Configurations}
  /\ checked \subseteq Boxes
  /\ ssid \in SSIDs \cup {NoSsid}
  /\ asking \in BOOLEAN /\ missed \in BOOLEAN
  /\ button \in {"connect", "disconnect"}
  /\ boot \in BOOLEAN /\ touched \in BOOLEAN

(* The panels whose handler __init__ has not called yet. *)
Pending ==
  CASE Len(todo) = 3 -> Panels
    [] Len(todo) = 2 -> {"radar_model", "eigenvalues_table"}
    [] Len(todo) = 1 -> {"eigenvalues_table"}
    [] OTHER -> {}

(* Whatever is half done: what the file holds or is about to hold is what   *)
(* the window shows, and the router that was last saved.                    *)
FileAgrees ==
  /\ file # Torn => file.ssid = lastSaved
  /\ app = "up" /\ dump = <<>> => file # Torn /\ file.checked = checked
  /\ dump # <<>> => /\ app = "up" /\ file = Torn
                    /\ Head(dump).checked = checked
                    /\ Head(dump).ssid = lastSaved

PanelsAgree == app = "up" => panels = checked \cap (Panels \ Pending)

(* A press that is under way has the window and the file to itself, and is   *)
(* for the router in the field; only one that is under way or was cut off is *)
(* not saved.                                                               *)
AskAgrees ==
  /\ asking => app = "up" /\ todo = <<>> /\ dump = <<>> /\ lastAsked = ssid
  /\ lastSaved # lastAsked => asking \/ missed

(* Before the boot command, a window that was left alone is as it started.  *)
BootReady ==
  boot => /\ app = "up"
          /\ ~ touched => ssid = lastSaved /\ button = "connect" /\ ~ asking

ConfigIInv == ConfigTypeOK /\ FileAgrees /\ PanelsAgree /\ AskAgrees /\ BootReady

(* What a save leaves behind, given what was saved.                         *)
LEMMA SaveAgrees ==
  ASSUME ConfigTypeOK, app = "up", file # Torn,
         NEW config \in Configurations, Save(config),
         config.checked = checked', config.ssid = lastSaved',
         app' = app
  PROVE  /\ file' \in Configurations \cup {Torn}
         /\ dump' \in {<<>>} \cup {<<c>> : c \in Configurations}
         /\ FileAgrees'
  BY DEF Save, FileAgrees

(* The two changes that handlers make to the configuration.                 *)
LEMMA WithBoxChecked ==
  ASSUME NEW box \in Boxes, file \in Configurations, checked' \subseteq Boxes,
         file.checked \ {box} = checked' \ {box}
  PROVE  /\ WithBox(box) \in Configurations
         /\ WithBox(box).checked = checked'
         /\ WithBox(box).ssid = file.ssid
  <1>1. WithBox(box) = [checked |-> IF box \in checked' THEN file.checked \cup {box}
                                                       ELSE file.checked \ {box},
                        ssid |-> file.ssid]
    BY DEF WithBox, Configurations
  <1>2. (IF box \in checked' THEN file.checked \cup {box} ELSE file.checked \ {box})
          = checked'
    OBVIOUS
  <1>3. QED
    BY <1>1, <1>2 DEF Configurations

LEMMA WithSsid ==
  ASSUME file \in Configurations, NEW name \in SSIDs \cup {NoSsid}
  PROVE  /\ [file EXCEPT !.ssid = name] \in Configurations
         /\ [file EXCEPT !.ssid = name].checked = file.checked
         /\ [file EXCEPT !.ssid = name].ssid = name
  BY DEF Configurations

LEMMA StartAgrees == ConfigIInv /\ Start => ConfigIInv'
  <1> SUFFICES ASSUME ConfigIInv, Start PROVE ConfigIInv'
    OBVIOUS
  <1>1. file \in Configurations /\ file.ssid = lastSaved /\ dump = <<>>
    BY DEF ConfigIInv, ConfigTypeOK, FileAgrees, Start
  <1>2. file.checked \subseteq Boxes /\ file.ssid \in SSIDs \cup {NoSsid}
    BY <1>1 DEF Configurations
  <1>3. ConfigTypeOK'
    BY <1>2 DEF ConfigIInv, ConfigTypeOK, askVars, Start
  <1>4. FileAgrees' /\ BootReady' /\ AskAgrees'
    BY <1>1 DEF FileAgrees, BootReady, AskAgrees, askVars, ConfigIInv, Start
  <1>5. PanelsAgree'
    BY DEF PanelsAgree, Pending, Start
  <1>6. QED
    BY <1>3, <1>4, <1>5 DEF ConfigIInv

LEMMA EndOfHandlerAgrees == ConfigIInv /\ EndOfHandler => ConfigIInv'
  <1> SUFFICES ASSUME ConfigIInv, EndOfHandler PROVE ConfigIInv'
    OBVIOUS
  <1>1. PICK c \in Configurations : dump = <<c>>
    BY DEF ConfigIInv, ConfigTypeOK, EndOfHandler
  <1>2. file' = c /\ dump' = <<>> /\ c.checked = checked /\ c.ssid = lastSaved
    BY <1>1 DEF ConfigIInv, FileAgrees, EndOfHandler
  <1>3. c # Torn
    BY ConfigAssumption DEF ConfigAssumption
  <1>4. QED
    BY <1>2, <1>3 DEF ConfigIInv, ConfigTypeOK, FileAgrees, PanelsAgree, Pending,
       BootReady, AskAgrees, askVars, EndOfHandler

LEMMA InitShowsAgrees == ConfigIInv /\ InitShows => ConfigIInv'
  <1> SUFFICES ASSUME ConfigIInv, InitShows PROVE ConfigIInv'
    OBVIOUS
  <1> DEFINE box == Head(todo)
  <1>1. box \in Panels /\ Pending' = Pending \ {box} /\ box \in Pending
        /\ Pending \subseteq Panels
        /\ todo' \in {<<"radar_model", "eigenvalues_table">>,
                      <<"eigenvalues_table">>, <<>>}
    <2>1. todo' = Tail(todo)
      BY DEF InitShows
    <2>2. CASE todo = <<"raw_data", "radar_model", "eigenvalues_table">>
      <3>1. box = "raw_data" /\ todo' = <<"radar_model", "eigenvalues_table">>
        BY <2>1, <2>2
      <3>2. Pending = Panels /\ Pending' = {"radar_model", "eigenvalues_table"}
        BY <2>2, <3>1 DEF Pending
      <3>3. QED
        BY <3>1, <3>2 DEF Panels
    <2>3. CASE todo = <<"radar_model", "eigenvalues_table">>
      <3>1. box = "radar_model" /\ todo' = <<"eigenvalues_table">>
        BY <2>1, <2>3
      <3>2. Pending = {"radar_model", "eigenvalues_table"}
            /\ Pending' = {"eigenvalues_table"}
        BY <2>3, <3>1 DEF Pending
      <3>3. QED
        BY <3>1, <3>2 DEF Panels
    <2>4. CASE todo = <<"eigenvalues_table">>
      <3>1. box = "eigenvalues_table" /\ todo' = <<>>
        BY <2>1, <2>4
      <3>2. Pending = {"eigenvalues_table"} /\ Pending' = {}
        BY <2>4, <3>1 DEF Pending
      <3>3. QED
        BY <3>1, <3>2 DEF Panels
    <2>5. QED
      BY <2>2, <2>3, <2>4 DEF ConfigIInv, ConfigTypeOK, InitShows
  <1>2. file \in Configurations /\ file # Torn /\ file.checked = checked'
        /\ file.ssid = lastSaved' /\ checked' \subseteq Boxes /\ app = "up" /\ app' = app
    BY DEF ConfigIInv, ConfigTypeOK, FileAgrees, askVars, InitShows
  <1>3. /\ WithBox(box) \in Configurations
        /\ WithBox(box).checked = checked' /\ WithBox(box).ssid = lastSaved'
    BY <1>1, <1>2, WithBoxChecked DEF Boxes
  <1>4. Save(WithBox(box))
    BY DEF InitShows, ShowPanel
  <1>5. /\ file' \in Configurations \cup {Torn}
        /\ dump' \in {<<>>} \cup {<<c>> : c \in Configurations}
        /\ FileAgrees'
    BY <1>2, <1>3, <1>4, SaveAgrees DEF ConfigIInv
  <1>6. ConfigTypeOK'
    BY <1>1, <1>5 DEF ConfigIInv, ConfigTypeOK, askVars, InitShows
  <1>7. PanelsAgree'
    BY <1>1 DEF ConfigIInv, PanelsAgree, InitShows, ShowPanel
  <1>8. BootReady' /\ AskAgrees'
    BY DEF ConfigIInv, BootReady, AskAgrees, askVars, InitShows, Save, ShowPanel
  <1>9. QED
    BY <1>5, <1>6, <1>7, <1>8 DEF ConfigIInv

LEMMA RunningAgrees ==
  ASSUME ConfigIInv, Running
  PROVE  /\ file \in Configurations /\ file # Torn /\ app = "up"
         /\ file.checked = checked /\ file.ssid = lastSaved
         /\ Pending = {} /\ panels = checked \cap Panels
  BY DEF ConfigIInv, ConfigTypeOK, FileAgrees, PanelsAgree, Pending, Running

LEMMA TogglePanelAgrees ==
  ASSUME ConfigIInv, NEW box \in Panels, TogglePanel(box)
  PROVE  ConfigIInv'
  <1>1. Running /\ UNCHANGED <<app, todo, ssid, button, boot, link, askVars, touched>>
    BY DEF TogglePanel
  <1>2. file.checked \ {box} = checked' \ {box} /\ checked' \subseteq Boxes
    BY <1>1, RunningAgrees DEF TogglePanel, Toggle, ConfigIInv, ConfigTypeOK, Boxes
  <1>3. /\ WithBox(box) \in Configurations
        /\ WithBox(box).checked = checked' /\ WithBox(box).ssid = lastSaved'
    BY <1>1, <1>2, RunningAgrees, WithBoxChecked DEF Boxes, askVars
  <1>4. Save(WithBox(box))
    BY DEF TogglePanel, ShowPanel
  <1>5. /\ file' \in Configurations \cup {Torn}
        /\ dump' \in {<<>>} \cup {<<c>> : c \in Configurations}
        /\ FileAgrees'
    BY <1>1, <1>3, <1>4, RunningAgrees, SaveAgrees DEF ConfigIInv, askVars
  <1>6. ConfigTypeOK'
    BY <1>1, <1>2, <1>5 DEF ConfigIInv, ConfigTypeOK, askVars
  <1>7. Pending' = {} /\ panels' = checked' \cap Panels
    BY <1>1, RunningAgrees DEF Pending, TogglePanel, ShowPanel, Toggle
  <1>8. PanelsAgree' /\ BootReady' /\ AskAgrees'
    BY <1>1, <1>7 DEF ConfigIInv, PanelsAgree, BootReady, AskAgrees, askVars, Running
  <1>9. QED
    BY <1>5, <1>6, <1>8 DEF ConfigIInv

LEMMA ToggleAutoConnectAgrees == ConfigIInv /\ ToggleAutoConnect => ConfigIInv'
  <1> SUFFICES ASSUME ConfigIInv, ToggleAutoConnect PROVE ConfigIInv'
    OBVIOUS
  <1> DEFINE box == "auto_connect"
  <1>1. Running /\ UNCHANGED <<app, todo, panels, ssid, button, boot, link, askVars>>
    BY DEF ToggleAutoConnect
  <1>2. file.checked \ {box} = checked' \ {box} /\ checked' \subseteq Boxes
    BY <1>1, RunningAgrees DEF ToggleAutoConnect, Toggle, ConfigIInv, ConfigTypeOK, Boxes
  <1>3. /\ WithBox(box) \in Configurations
        /\ WithBox(box).checked = checked' /\ WithBox(box).ssid = lastSaved'
    BY <1>1, <1>2, RunningAgrees, WithBoxChecked DEF Boxes, askVars
  <1>4. Save(WithBox(box)) /\ touched' = (touched \/ boot)
    BY DEF ToggleAutoConnect
  <1>5. /\ file' \in Configurations \cup {Torn}
        /\ dump' \in {<<>>} \cup {<<c>> : c \in Configurations}
        /\ FileAgrees'
    BY <1>1, <1>3, <1>4, RunningAgrees, SaveAgrees DEF ConfigIInv, askVars
  <1>6. ConfigTypeOK'
    BY <1>1, <1>2, <1>4, <1>5 DEF ConfigIInv, ConfigTypeOK, askVars
  <1>7. Pending' = {} /\ panels' = checked' \cap Panels
    BY <1>1, RunningAgrees DEF Pending, ToggleAutoConnect, Toggle, Panels
  <1>8. PanelsAgree' /\ BootReady' /\ AskAgrees'
    BY <1>1, <1>4, <1>7 DEF ConfigIInv, PanelsAgree, BootReady, AskAgrees, askVars, Running
  <1>9. QED
    BY <1>5, <1>6, <1>8 DEF ConfigIInv

LEMMA EditSsidAgrees == ConfigIInv /\ EditSsid => ConfigIInv'
  <1> SUFFICES ASSUME ConfigIInv, EditSsid PROVE ConfigIInv'
    OBVIOUS
  <1>1. ConfigTypeOK'
    BY DEF ConfigIInv, ConfigTypeOK, askVars, EditSsid
  <1>2. FileAgrees' /\ AskAgrees'
    BY DEF ConfigIInv, FileAgrees, AskAgrees, askVars, EditSsid, Running
  <1>3. PanelsAgree' /\ BootReady'
    BY DEF ConfigIInv, PanelsAgree, Pending, BootReady, askVars, EditSsid
  <1>4. QED
    BY <1>1, <1>2, <1>3 DEF ConfigIInv

(* A press, by the user or by the boot command.                             *)
LEMMA RouterConnectAgrees ==
  ASSUME ConfigIInv, Running, RouterConnect,
         UNCHANGED <<app, todo, checked, panels, ssid>>,
         boot' \in BOOLEAN, touched' \in BOOLEAN, boot' => touched'
  PROVE  ConfigIInv'
  <1>1. UNCHANGED <<file, dump, lastSaved, missed>> /\ asking' = TRUE /\ lastAsked' = ssid
        /\ button' \in {"connect", "disconnect"}
    BY DEF RouterConnect
  <1>2. ConfigTypeOK'
    BY <1>1 DEF ConfigIInv, ConfigTypeOK
  <1>3. FileAgrees' /\ AskAgrees'
    BY <1>1 DEF ConfigIInv, FileAgrees, AskAgrees, Running
  <1>4. PanelsAgree' /\ BootReady'
    BY RunningAgrees DEF ConfigIInv, PanelsAgree, Pending, BootReady
  <1>5. QED
    BY <1>2, <1>3, <1>4 DEF ConfigIInv

LEMMA PressRouterAgrees == ConfigIInv /\ PressRouter => ConfigIInv'
  <1> SUFFICES ASSUME ConfigIInv, PressRouter PROVE ConfigIInv'
    OBVIOUS
  <1>1. boot \in BOOLEAN /\ touched \in BOOLEAN
    BY DEF ConfigIInv, ConfigTypeOK
  <1>2. boot' \in BOOLEAN /\ touched' \in BOOLEAN /\ (boot' => touched')
    BY <1>1 DEF PressRouter
  <1>3. QED
    BY <1>2, RouterConnectAgrees DEF PressRouter

LEMMA SaveRouterAgrees == ConfigIInv /\ SaveRouter => ConfigIInv'
  <1> SUFFICES ASSUME ConfigIInv, SaveRouter PROVE ConfigIInv'
    OBVIOUS
  <1>1. /\ Save([file EXCEPT !.ssid = ssid]) /\ lastSaved' = ssid
        /\ asking' = FALSE /\ missed' = FALSE
        /\ UNCHANGED <<app, todo, checked, panels, ssid, button, boot, lastAsked, touched>>
    BY DEF SaveRouter
  <1>2. /\ app = "up" /\ todo = <<>> /\ dump = <<>>
        /\ file # Torn /\ file.checked = checked
    BY DEF SaveRouter, ConfigIInv, AskAgrees, FileAgrees
  <1>3. file \in Configurations /\ ssid \in SSIDs \cup {NoSsid}
    BY <1>2 DEF ConfigIInv, ConfigTypeOK
  <1>4. /\ [file EXCEPT !.ssid = ssid] \in Configurations
        /\ [file EXCEPT !.ssid = ssid].checked = checked'
        /\ [file EXCEPT !.ssid = ssid].ssid = lastSaved'
    BY <1>1, <1>2, <1>3, WithSsid
  <1>5. /\ file' \in Configurations \cup {Torn}
        /\ dump' \in {<<>>} \cup {<<c>> : c \in Configurations}
        /\ FileAgrees'
    BY <1>1, <1>2, <1>4, SaveAgrees DEF ConfigIInv
  <1>6. ConfigTypeOK'
    BY <1>1, <1>5 DEF ConfigIInv, ConfigTypeOK
  <1>7. lastAsked = ssid
    BY DEF ConfigIInv, AskAgrees, SaveRouter
  <1>8. AskAgrees' /\ PanelsAgree' /\ BootReady'
    BY <1>1, <1>7 DEF ConfigIInv, AskAgrees, PanelsAgree, Pending, BootReady, SaveRouter
  <1>9. QED
    BY <1>5, <1>6, <1>8 DEF ConfigIInv

LEMMA BootAgrees == ConfigIInv /\ Boot => ConfigIInv'
  <1> SUFFICES ASSUME ConfigIInv, Boot PROVE ConfigIInv'
    OBVIOUS
  <1>1. Running /\ boot' = FALSE /\ UNCHANGED <<app, todo, checked, panels, ssid, touched>>
        /\ touched' \in BOOLEAN
    BY DEF ConfigIInv, ConfigTypeOK, Boot
  <1>2. CASE RouterConnect
    BY <1>1, <1>2, RouterConnectAgrees
  <1>3. CASE UNCHANGED <<file, dump, button, link, askVars>>
    BY <1>1, <1>3 DEF ConfigIInv, ConfigTypeOK, FileAgrees, PanelsAgree, Pending, BootReady,
       AskAgrees, askVars
  <1>4. QED
    BY <1>2, <1>3 DEF Boot

LEMMA StopAgrees == ConfigIInv /\ Stop => ConfigIInv'
  BY DEF ConfigIInv, ConfigTypeOK, FileAgrees, PanelsAgree, Pending, AskAgrees, BootReady,
     Stop

LEMMA ConfigInitAgrees == ConfigInit => ConfigIInv
  <1> SUFFICES ASSUME ConfigInit PROVE ConfigIInv
    OBVIOUS
  <1>1. file.ssid \in SSIDs \cup {NoSsid}
    BY DEF ConfigInit, Configurations
  <1>2. QED
    BY <1>1 DEF ConfigInit, ConfigIInv, ConfigTypeOK, FileAgrees, PanelsAgree, AskAgrees,
       BootReady

LEMMA ConfigNextAgrees == ConfigIInv /\ [ConfigNext]_configVars => ConfigIInv'
  <1>1. ConfigIInv /\ UNCHANGED configVars => ConfigIInv'
    BY DEF ConfigIInv, ConfigTypeOK, FileAgrees, PanelsAgree, Pending, AskAgrees,
       BootReady, configVars, askVars
  <1>2. QED
    BY <1>1, StartAgrees, EndOfHandlerAgrees, InitShowsAgrees, TogglePanelAgrees,
       ToggleAutoConnectAgrees, EditSsidAgrees, PressRouterAgrees, SaveRouterAgrees,
       BootAgrees, StopAgrees
    DEF ConfigNext

LEMMA ConfigInvariant == ConfigSpec => []ConfigIInv
  BY ConfigInitAgrees, ConfigNextAgrees, PTL DEF ConfigSpec

(* Between handlers the file and the window agree, and the file names the   *)
(* router of the last press that got as far as saving it, for any routers,  *)
(* however handlers, restarts and interruptions follow one another.         *)
THEOREM ConfigAgreesAlways == ConfigSpec => []ConfigAgrees
  <1>1. ConfigIInv => ConfigAgrees
    BY RunningAgrees DEF ConfigAgrees, ConfigIInv, FileAgrees, AskAgrees
  <1>2. QED
    BY <1>1, ConfigInvariant, PTL

(* A tool that starts with auto connect connects the device to the router    *)
(* of the last press that got as far as saving it, if the user leaves the    *)
(* window alone until the boot command.                                     *)
THEOREM AutoConnectsAlways == ConfigSpec => AutoConnects
  <1> DEFINE A == (Boot /\ ~ touched /\ "auto_connect" \in file.checked
                   /\ lastSaved # NoSsid) => link' = lastSaved
  <1>1. ASSUME ConfigIInv, Boot, ~ touched, "auto_connect" \in file.checked,
               lastSaved # NoSsid
        PROVE  link' = lastSaved
    <2>1. Running /\ boot /\ ssid = lastSaved /\ button = "connect"
      BY <1>1 DEF Boot, ConfigIInv, BootReady
    <2>2. "auto_connect" \in checked
      BY <1>1, <2>1, RunningAgrees
    <2>3. QED
      BY <1>1, <2>1, <2>2 DEF Boot, RouterConnect
  <1>2. ConfigIInv /\ [ConfigNext]_configVars => [A]_configVars
    BY <1>1
  <1>3. QED
    BY <1>2, ConfigInvariant, PTL DEF ConfigSpec, AutoConnects

-----------------------------------------------------------------------------
(* HostCollect: the collect panel.                                          *)

(* What the fields are put back to is what the user had set.                *)
CollectIInv ==
  /\ collectText \in {"start", "stop"}
  /\ timer_collect_delay \in BOOLEAN /\ timer_collect_duration \in BOOLEAN
  /\ CollectAtRest
  /\ collectText = "stop" => Fields(label_number, label_delay) = wanted

LEMMA CollectNextKeeps == CollectIInv /\ [CollectPanelNext]_panelVars => CollectIInv'
  <1> SUFFICES ASSUME CollectIInv, [CollectPanelNext]_panelVars PROVE CollectIInv'
    OBVIOUS
  <1> USE DEF CollectIInv, CollectAtRest
  <1>1. CASE EditFields
    BY <1>1 DEF EditFields
  <1>2. CASE ChooseTarget
    BY <1>2 DEF ChooseTarget
  <1>3. CASE StartCollect
    BY <1>3 DEF StartCollect
  <1>4. CASE StopCollect
    BY <1>4 DEF StopCollect, PutBack
  <1>5. CASE DelayTick
    BY <1>5 DEF DelayTick
  <1>6. CASE NumberTick
    BY <1>6 DEF NumberTick, PutBack
  <1>7. CASE DeviceCounted
    BY <1>7 DEF DeviceCounted
  <1>8. CASE UNCHANGED panelVars
    BY <1>8 DEF panelVars
  <1>9. QED
    BY <1>1, <1>2, <1>3, <1>4, <1>5, <1>6, <1>7, <1>8 DEF CollectPanelNext

(* At rest nothing counts and the fields are as the user set them, for any   *)
(* bounds of the fields and whatever is edited while they count.            *)
THEOREM CollectRests == CollectPanelSpec => []CollectAtRest
  <1>1. CollectPanelInit => CollectIInv
    BY DEF CollectPanelInit, CollectIInv, CollectAtRest
  <1>2. CollectIInv => CollectAtRest
    BY DEF CollectIInv
  <1>3. QED
    BY <1>1, <1>2, CollectNextKeeps, PTL DEF CollectPanelSpec

-----------------------------------------------------------------------------
(* HostTrain: who tells the device to train.                                *)

(* The button of the train panel says "stop" while one of its timers runs,  *)
(* and they never run together.                                             *)
OneTrainTimer ==
  /\ trainText = "start" => ~ timer_train_delay /\ ~ timer_train_duration
  /\ trainText = "stop"  => timer_train_delay # timer_train_duration

TrainIInv ==
  /\ trainText \in {"start", "stop"}
  /\ timer_train_delay \in BOOLEAN /\ timer_train_duration \in BOOLEAN
  /\ training \in BOOLEAN /\ failed \in BOOLEAN
  /\ evaluation \in [Evaluations ->
                       {"none", "start", "connect", "send", "sleep", "ended"}]
  /\ OneTrainTimer
  /\ TrainingMatches

(* A stop leaves those without device who trained, its sender excepted.      *)
LEMMA StopMatches ==
  ASSUME NEW sender, command_train_stop(sender), Trainers' \subseteq Trainers \ {sender}
  PROVE  TrainingMatches' /\ failed' \in BOOLEAN /\ training' \in BOOLEAN
  BY DEF command_train_stop, TrainingMatches

(* What the panel's stop leaves of the trainers.                            *)
LEMMA PanelStops ==
  ASSUME timer_train_duration' = FALSE, evaluation' = evaluation
  PROVE  Trainers' \subseteq Trainers \ {"panel"}
  BY TrainAssumption DEF Trainers, Training

(* The panel's own steps.                                                   *)
LEMMA DelayShowKeeps ==
  ASSUME TrainIInv, NEW text, text = "stop", ~ timer_train_duration,
         DelayShow(text), evaluation' = evaluation
  PROVE  TrainIInv'
  <1>1. CASE trainDelay > 0 /\ timer_train_delay' = TRUE /\ trainText' = text
             /\ UNCHANGED <<timer_train_duration, training, cutOff, failed>>
    BY <1>1 DEF TrainIInv, OneTrainTimer, TrainingMatches, Trainers, Training
  <1>2. CASE timer_train_delay' = FALSE /\ CountDuration(text) /\ command_train_start
    BY <1>2 DEF TrainIInv, OneTrainTimer, TrainingMatches, Trainers, Training,
       CountDuration, command_train_start
  <1>3. CASE timer_train_delay' = FALSE /\ EndDuration /\ command_train_stop("panel")
    BY <1>3, StopMatches, PanelStops DEF TrainIInv, OneTrainTimer, EndDuration
  <1>4. QED
    BY <1>1, <1>2, <1>3 DEF DelayShow

LEMMA PanelKeeps ==
  ASSUME TrainIInv,
         EditTimes \/ PressTrain \/ PressStop \/ TrainDelayTick \/ DurationTick \/ PressCsi
  PROVE  TrainIInv'
  <1>1. CASE EditTimes
    BY <1>1 DEF EditTimes, TrainIInv, OneTrainTimer, TrainingMatches, Trainers, Training
  <1>2. CASE PressTrain
    BY <1>2, DelayShowKeeps DEF PressTrain, TrainIInv, OneTrainTimer
  <1>3. CASE PressStop
    BY <1>3, StopMatches, PanelStops DEF PressStop, TrainIInv, OneTrainTimer
  <1>4. CASE TrainDelayTick
    <2>1. trainText = "stop" /\ ~ timer_train_duration
      BY <1>4 DEF TrainDelayTick, TrainIInv, OneTrainTimer
    <2>2. QED
      BY <1>4, <2>1, DelayShowKeeps DEF TrainDelayTick
  <1>5. CASE DurationTick
    <2>1. CASE CountDuration(trainText) /\ UNCHANGED <<trainDelay, training, cutOff, failed>>
      BY <1>5, <2>1 DEF DurationTick, CountDuration, TrainIInv, OneTrainTimer,
         TrainingMatches, Trainers, Training
    <2>2. CASE EndDuration /\ command_train_stop("panel")
      BY <1>5, <2>2, StopMatches, PanelStops DEF DurationTick, EndDuration, TrainIInv,
         OneTrainTimer
    <2>3. QED
      BY <1>5, <2>1, <2>2 DEF DurationTick
  <1>6. CASE PressCsi
    BY <1>6 DEF PressCsi, trainPanelVars, TrainIInv, OneTrainTimer, TrainingMatches,
       Trainers, Training
  <1>7. QED
    BY <1>1, <1>2, <1>3, <1>4, <1>5, <1>6

(* The steps of one process.                                                *)
LEMMA ProcessKeeps ==
  ASSUME TrainIInv, NEW p \in Evaluations, PressEvaluate(p) \/ evaluate_data_send(p)
  PROVE  TrainIInv'
  <1>1. UNCHANGED trainPanelVars
    BY DEF PressEvaluate, evaluate_data_send, EvaluateTrain, EvaluateConnect, EvaluateSend,
       EvaluateStop, EvaluateFails
  <1>2. OneTrainTimer' /\ trainText' \in {"start", "stop"}
        /\ timer_train_delay' \in BOOLEAN /\ timer_train_duration' \in BOOLEAN
    BY <1>1 DEF trainPanelVars, TrainIInv, OneTrainTimer
  <1>3. timer_train_duration' = timer_train_duration
    BY <1>1 DEF trainPanelVars
  <1> USE DEF TrainIInv, TrainingMatches, Trainers, Training, Step
  <1>4. CASE PressEvaluate(p)
    BY <1>2, <1>3, <1>4 DEF PressEvaluate
  <1>5. CASE EvaluateTrain(p)
    BY <1>2, <1>3, <1>5 DEF EvaluateTrain, command_train_start
  <1>6. CASE EvaluateConnect(p)
    BY <1>2, <1>3, <1>6 DEF EvaluateConnect
  <1>7. CASE EvaluateSend(p)
    BY <1>2, <1>3, <1>7 DEF EvaluateSend
  <1>8. CASE EvaluateStop(p)
    <2>1. Trainers' \subseteq Trainers \ {p}
      BY <1>3, <1>8, TrainAssumption DEF EvaluateStop
    <2>2. TrainingMatches' /\ failed' \in BOOLEAN /\ training' \in BOOLEAN
      BY <1>8, <2>1, StopMatches DEF EvaluateStop
    <2>3. QED
      BY <1>2, <1>8, <2>2 DEF EvaluateStop
  <1>9. CASE EvaluateFails(p)
    <2>1. Trainers' = Trainers \ {p}
      BY <1>3, <1>9, TrainAssumption DEF EvaluateFails
    <2>2. QED
      BY <1>2, <1>9, <2>1 DEF EvaluateFails
  <1>10. QED
    BY <1>4, <1>5, <1>6, <1>7, <1>8, <1>9 DEF evaluate_data_send

LEMMA TrainInvariant == TrainSpec => []TrainIInv
  <1>1. TrainInit => TrainIInv
    BY DEF TrainInit, TrainIInv, OneTrainTimer, TrainingMatches, Trainers, Training
  <1>2. TrainIInv /\ UNCHANGED trainVars => TrainIInv'
    BY DEF trainVars, trainPanelVars, TrainIInv, OneTrainTimer, TrainingMatches,
       Trainers, Training
  <1>3. TrainIInv /\ [TrainNext]_trainVars => TrainIInv'
    BY <1>2, PanelKeeps, ProcessKeeps DEF TrainNext
  <1>4. QED
    BY <1>1, <1>3, PTL DEF TrainSpec

(* The device trains as the panel and the processes mean it to, for any       *)
(* number of processes; it trains for nobody only until the stop after a     *)
(* failure, and rests although somebody trains only if the last command was  *)
(* the stop of another.                                                     *)
THEOREM TrainingMatchesAlways == TrainSpec => []TrainingMatches
  <1>1. TrainIInv => TrainingMatches
    BY DEF TrainIInv
  <1>2. QED
    BY <1>1, TrainInvariant, PTL

(* The train panel never counts the delay and the duration at once, and its  *)
(* button says which press comes next.                                      *)
THEOREM OneTrainTimerAlways == TrainSpec => []OneTrainTimer
  <1>1. TrainIInv => OneTrainTimer
    BY DEF TrainIInv
  <1>2. QED
    BY <1>1, TrainInvariant, PTL

-----------------------------------------------------------------------------
(* HostTool: the queue of rows.                                             *)

Rows == [type : Lasting \cup Droppable \cup {"FAIL_EVENT"}, seq : Nat]

(* The lasting rows among some that wait are those from first to last.      *)
Waiting(rowsAhead) == {k \in 1..Len(rowsAhead) : rowsAhead[k].type \in Lasting}
Kept(rowsAhead, first, last) ==
  /\ first <= last + 1
  /\ \A k \in Waiting(rowsAhead) : rowsAhead[k].seq \in first..last
  /\ \A n \in first..last : \E k \in Waiting(rowsAhead) : rowsAhead[k].seq = n
  /\ \A j, k \in Waiting(rowsAhead) : j < k => rowsAhead[j].seq < rowsAhead[k].seq

ToolIInv == ToolTypeOK /\ Kept(queue_read \o inHand, shown + 1, rows)

LEMMA AppendDroppable ==
  ASSUME NEW w \in Seq(Rows), NEW row \in Rows, row.type \notin Lasting,
         NEW first, NEW last, Kept(w, first, last)
  PROVE  Kept(Append(w, row), first, last)
  <1>1. Waiting(Append(w, row)) = Waiting(w)
    BY AppendProperties DEF Waiting
  <1>2. \A k \in Waiting(w) : Append(w, row)[k] = w[k]
    BY AppendProperties DEF Waiting
  <1>3. QED
    BY <1>1, <1>2 DEF Kept

LEMMA AppendLasting ==
  ASSUME NEW w \in Seq(Rows), NEW row \in Rows, row.type \in Lasting,
         NEW first \in Nat, NEW last \in Nat, row.seq = last + 1, Kept(w, first, last)
  PROVE  Kept(Append(w, row), first, last + 1)
  <1> DEFINE v == Append(w, row)
  <1>1. /\ Len(v) = Len(w) + 1 /\ Len(w) \in Nat
        /\ v[Len(w) + 1] = row
        /\ \A k \in 1..Len(w) : v[k] = w[k]
    BY AppendProperties, LenProperties
  <1> HIDE DEF v
  <1>2. Waiting(v) = Waiting(w) \cup {Len(w) + 1}
    BY <1>1 DEF Waiting
  <1>3. Waiting(w) \subseteq 1..Len(w)
    BY DEF Waiting
  <1>4. \A k \in Waiting(v) : v[k].seq \in first..(last + 1)
    BY <1>1, <1>2, <1>3 DEF Kept
  <1>5. \A n \in first..(last + 1) : \E k \in Waiting(v) : v[k].seq = n
    <2>1. TAKE n \in first..(last + 1)
    <2>2. CASE n = last + 1
      BY <1>1, <1>2, <2>2
    <2>3. CASE n \in first..last
      <3>1. PICK k \in Waiting(w) : w[k].seq = n
        BY <2>3 DEF Kept
      <3>2. QED
        BY <1>1, <1>2, <1>3, <3>1
    <2>4. QED
      BY <2>2, <2>3
  <1>6. \A k \in Waiting(w) : w[k].seq < last + 1
    BY DEF Kept
  <1>7. ASSUME NEW j \in Waiting(v), NEW k \in Waiting(v), j < k
        PROVE  v[j].seq < v[k].seq
    <2>1. j \in Waiting(w) /\ v[j] = w[j]
      BY <1>1, <1>2, <1>3, <1>7
    <2>2. CASE k \in Waiting(w)
      BY <1>1, <1>3, <1>7, <2>1, <2>2 DEF Kept
    <2>3. CASE k = Len(w) + 1
      BY <1>1, <1>6, <2>1, <2>3
    <2>4. QED
      BY <1>2, <2>2, <2>3
  <1>8. first <= last + 2
    BY DEF Kept
  <1>9. Kept(v, first, last + 1)
    BY <1>4, <1>5, <1>7, <1>8 DEF Kept
  <1>10. QED
    BY <1>9 DEF v

(* The row that is handled is the next one.                                 *)
LEMMA TakeRow ==
  ASSUME NEW w \in Seq(Rows), w # <<>>, NEW first \in Nat, NEW last \in Nat,
         Kept(w, first, last)
  PROVE  /\ Head(w).type \in Lasting => first <= last /\ Kept(Tail(w), first + 1, last)
         /\ Head(w).type \notin Lasting => Kept(Tail(w), first, last)
  <1> DEFINE v == Tail(w)
  <1>1. /\ Len(v) = Len(w) - 1 /\ Len(w) \in Nat \ {0} /\ Head(w) = w[1]
        /\ \A k \in 1..Len(v) : v[k] = w[k + 1]
    BY HeadTailProperties, LenProperties, EmptySeq
  <1> HIDE DEF v
  <1>2. \A k \in Waiting(v) : k \in Nat /\ k >= 1 /\ k + 1 \in Waiting(w) /\ v[k] = w[k + 1]
    BY <1>1 DEF Waiting
  <1>3. \A k \in Waiting(w) : k = 1 \/ (k - 1 \in Waiting(v) /\ v[k - 1] = w[k])
    BY <1>1 DEF Waiting
  <1>4. \A j, k \in Waiting(v) : j < k => v[j].seq < v[k].seq
    BY <1>2 DEF Kept
  <1>5. CASE w[1].type \notin Lasting
    <2>1. 1 \notin Waiting(w)
      BY <1>5 DEF Waiting
    <2>2. \A k \in Waiting(v) : v[k].seq \in first..last
      BY <1>2 DEF Kept
    <2>3. \A n \in first..last : \E k \in Waiting(v) : v[k].seq = n
      BY <1>3, <2>1 DEF Kept
    <2>4. Kept(v, first, last)
      BY <1>4, <2>2, <2>3 DEF Kept
    <2>5. QED
      BY <1>1, <1>5, <2>4 DEF v
  <1>6. CASE w[1].type \in Lasting
    <2>1. 1 \in Waiting(w)
      BY <1>1, <1>6 DEF Waiting
    <2>2. \A k \in Waiting(v) : w[1].seq < v[k].seq /\ v[k].seq \in first..last
      BY <1>2, <2>1 DEF Kept
    <2>3. w[1].seq \in first..last
      BY <2>1 DEF Kept
    <2>4. \A n \in first..last : n = w[1].seq \/ \E k \in Waiting(v) : v[k].seq = n
      BY <1>3 DEF Kept
    <2>5. w[1].seq = first /\ first <= last
      <3>1. first \in first..last
        BY <2>3
      <3>2. QED
        BY <2>2, <2>3, <2>4, <3>1
    <2>6. \A k \in Waiting(v) : v[k].seq \in (first + 1)..last
      BY <2>2, <2>5
    <2>7. \A n \in (first + 1)..last : \E k \in Waiting(v) : v[k].seq = n
      BY <2>4, <2>5
    <2>8. Kept(v, first + 1, last)
      BY <1>4, <2>5, <2>6, <2>7 DEF Kept
    <2>9. QED
      BY <1>1, <1>6, <2>5, <2>8 DEF v
  <1>7. QED
    BY <1>5, <1>6

(* What is neither put nor handled stays as it is.                          *)
LEMMA SameRows ==
  ASSUME ToolIInv, UNCHANGED <<queue_read, inHand, rows, shown>>
  PROVE  Kept(queue_read' \o inHand', shown' + 1, rows')
  BY DEF ToolIInv

LEMMA QueuesAreRows ==
  ASSUME ToolTypeOK
  PROVE  /\ queue_read \in Seq(Rows) /\ inHand \in Seq(Rows)
         /\ queue_read \o inHand \in Seq(Rows)
  <1>1. queue_read \in Seq(Rows)
    BY DEF ToolTypeOK, Rows
  <1>2. inHand \in Seq(Rows)
    <2>1. [type : Lasting \cup {"FAIL_EVENT"}, seq : Nat] \subseteq Rows
      BY DEF Rows
    <2>2. inHand \in Seq([type : Lasting \cup {"FAIL_EVENT"}, seq : Nat])
      BY DEF ToolTypeOK
    <2>3. QED
      BY <2>1, <2>2, SeqMonotonic
  <1>3. QED
    BY <1>1, <1>2, ConcatProperties

(* With nothing in hand, the rows that wait are those in the queue.         *)
LEMMA NothingInHand ==
  ASSUME ToolTypeOK, serial \notin {"put", "fail"}
  PROVE  inHand = <<>> /\ queue_read \o inHand = queue_read
  <1>1. Len(inHand) = 0 /\ inHand \in Seq(Rows) /\ queue_read \in Seq(Rows)
    BY QueuesAreRows DEF ToolTypeOK
  <1>2. inHand = <<>>
    BY <1>1, EmptySeq
  <1>3. QED
    BY <1>1, <1>2, ConcatEmptySeq

LEMMA PutType ==
  ASSUME ToolTypeOK, Put
  PROVE  queue_read' \in Seq(Rows) /\ Len(queue_read') <= QueueSize
  <1>1. inHand \in Seq(Rows) /\ queue_read \in Seq(Rows)
    BY QueuesAreRows
  <1>2. queue_read' = queue_read \o inHand /\ Len(inHand) = 1
    BY DEF Put, ToolTypeOK
  <1>3. queue_read' \in Seq(Rows)
    BY <1>1, <1>2, ConcatProperties
  <1>4. Len(queue_read') = Len(queue_read) + 1 /\ Len(queue_read) \in Nat
    <2>1. Len(queue_read \o inHand) = Len(queue_read) + Len(inHand)
      BY <1>1, ConcatProperties
    <2>2. QED
      BY <1>1, <1>2, <2>1, LenProperties
  <1>5. ~ (Len(queue_read) >= QueueSize)
    BY DEF Put, Full
  <1>6. QED
    BY <1>3, <1>4, <1>5, ToolAssumption DEF ToolAssumption

LEMMA SerialType ==
  ASSUME ToolTypeOK, serial_handle
  PROVE  ToolTypeOK'
  <1> USE DEF ToolTypeOK, Row, FailEvent, Droppable, Lasting, Full, Reads
  <1>1. CASE OpenPort
    BY <1>1 DEF OpenPort
  <1>2. CASE OpenFails
    BY <1>2 DEF OpenFails
  <1>3. CASE TakeCommand
    BY <1>3, ToolAssumption DEF TakeCommand, ToolAssumption
  <1>4. CASE ReadFails
    BY <1>4 DEF ReadFails
  <1>5. ASSUME NEW type \in Droppable, ReadDroppable(type) PROVE ToolTypeOK'
    BY <1>5, ToolAssumption DEF ReadDroppable, ToolAssumption
  <1>6. ASSUME NEW type \in Lasting, ReadLasting(type) PROVE ToolTypeOK'
    BY <1>6, ToolAssumption DEF ReadLasting, ToolAssumption
  <1>7. CASE Put
    BY <1>7, PutType DEF Put, Rows
  <1>8. CASE FindFolder
    BY <1>8 DEF FindFolder
  <1>9. CASE OpenFile
    <2>1. CASE Full(queue_read)
      BY <1>9, <2>1 DEF OpenFile
    <2>2. CASE ~ Full(queue_read)
      BY <1>9, <2>2, ToolAssumption DEF OpenFile, ToolAssumption
    <2>3. QED
      BY <2>1, <2>2
  <1>10. CASE OpenFileFails
    BY <1>10 DEF OpenFileFails
  <1>11. QED
    BY <1>1, <1>2, <1>3, <1>4, <1>5, <1>6, <1>7, <1>8, <1>9, <1>10 DEF serial_handle

LEMMA SerialKeeps ==
  ASSUME ToolIInv, serial_handle
  PROVE  Kept(queue_read' \o inHand', shown' + 1, rows')
  <1> DEFINE waiting == queue_read \o inHand
  <1>1. /\ ToolTypeOK /\ Kept(waiting, shown + 1, rows)
        /\ waiting \in Seq(Rows) /\ shown + 1 \in Nat /\ rows \in Nat
    BY QueuesAreRows, ToolAssumption DEF ToolIInv, ToolTypeOK, ToolAssumption
  <1>2. CASE OpenPort \/ TakeCommand \/ FindFolder \/ OpenFileFails
    BY <1>2, SameRows DEF OpenPort, TakeCommand, FindFolder, OpenFileFails
  <1>3. CASE OpenFails \/ ReadFails
    <2>1. inHand' = <<FailEvent>> /\ UNCHANGED <<queue_read, rows, shown>>
          /\ queue_read \o inHand = queue_read
      BY <1>1, <1>3, NothingInHand DEF OpenFails, ReadFails, Reads
    <2>2. FailEvent \in Rows /\ FailEvent.type \notin Lasting
      BY DEF FailEvent, Row, Rows, Lasting
    <2>3. queue_read' \o inHand' = Append(queue_read, FailEvent)
      BY <1>1, <2>1, <2>2, QueuesAreRows, AppendIsConcat
    <2>4. QED
      BY <1>1, <2>1, <2>2, <2>3, AppendDroppable
  <1>4. ASSUME NEW type \in Droppable,
               queue_read' = Append(queue_read, Row(type, 0)),
               serial \notin {"put", "fail"}, UNCHANGED <<inHand, rows, shown>>
        PROVE  Kept(queue_read' \o inHand', shown' + 1, rows')
    <2>1. Row(type, 0) \in Rows /\ Row(type, 0).type \notin Lasting
      BY DEF Row, Rows, Droppable, Lasting
    <2>2. /\ inHand = <<>> /\ queue_read \o inHand = queue_read
          /\ queue_read \in Seq(Rows) /\ queue_read' \in Seq(Rows)
      BY <1>1, <1>4, <2>1, NothingInHand, QueuesAreRows, AppendProperties
    <2>3. queue_read' \o inHand' = Append(queue_read, Row(type, 0))
      BY <1>4, <2>2, ConcatEmptySeq
    <2>4. QED
      BY <1>1, <1>4, <2>1, <2>2, <2>3, AppendDroppable
  <1>5. ASSUME NEW type \in Droppable, ReadDroppable(type)
        PROVE  Kept(queue_read' \o inHand', shown' + 1, rows')
    BY <1>4, <1>5 DEF ReadDroppable, Reads
  <1>6. CASE OpenFile
    BY <1>4, <1>6, SameRows DEF OpenFile, Droppable
  <1>7. ASSUME NEW type \in Lasting, ReadLasting(type)
        PROVE  Kept(queue_read' \o inHand', shown' + 1, rows')
    <2> DEFINE row == Row(type, rows + 1)
    <2>1. row \in Rows /\ row.type \in Lasting /\ row.seq = rows + 1
      BY <1>1 DEF Row, Rows
    <2>2. /\ queue_read \o inHand = queue_read /\ queue_read \in Seq(Rows)
          /\ inHand' = <<row>> /\ rows' = rows + 1 /\ UNCHANGED <<queue_read, shown>>
      BY <1>1, <1>7, NothingInHand, QueuesAreRows DEF ReadLasting, Reads
    <2>3. queue_read' \o inHand' = Append(queue_read, row)
      BY <2>1, <2>2, AppendIsConcat
    <2>4. QED
      BY <1>1, <2>1, <2>2, <2>3, AppendLasting
  <1>8. CASE Put
    <2>1. queue_read' = waiting /\ inHand' = <<>> /\ UNCHANGED <<rows, shown>>
      BY <1>8 DEF Put
    <2>2. queue_read' \o inHand' = waiting
      BY <1>1, <2>1, ConcatEmptySeq
    <2>3. QED
      BY <1>1, <2>1, <2>2
  <1>9. QED
    BY <1>2, <1>3, <1>5, <1>6, <1>7, <1>8 DEF serial_handle

(* The thread takes the first of the rows that wait.                        *)
LEMMA HandleKeeps ==
  ASSUME ToolIInv, Handle
  PROVE  ToolIInv'
  <1>1. /\ ToolTypeOK /\ Kept(queue_read \o inHand, shown + 1, rows)
        /\ queue_read \in Seq(Rows) /\ inHand \in Seq(Rows)
        /\ queue_read \o inHand \in Seq(Rows)
        /\ shown + 1 \in Nat /\ rows \in Nat /\ queue_read # <<>>
    BY QueuesAreRows, ToolAssumption DEF ToolIInv, ToolTypeOK, ToolAssumption, Handle
  <1>2. /\ Head(queue_read \o inHand) = Head(queue_read)
        /\ Tail(queue_read \o inHand) = queue_read' \o inHand'
        /\ queue_read \o inHand # <<>>
    <2>1. queue_read' = Tail(queue_read) /\ inHand' = inHand
      BY DEF Handle
    <2>2. QED
      BY <1>1, <2>1
  <1>3. CASE Head(queue_read).type \in Lasting
    <2>1. shown' = shown + 1 /\ rows' = rows
      BY <1>3 DEF Handle
    <2>2. shown + 1 <= rows /\ Kept(queue_read' \o inHand', shown' + 1, rows')
      BY <1>1, <1>2, <1>3, <2>1, TakeRow
    <2>3. shown' \in 0..MaxRows
      BY <1>1, <2>1, <2>2, ToolAssumption DEF ToolTypeOK, ToolAssumption
    <2>4. ToolTypeOK'
      BY <1>1, <2>3, ToolAssumption DEF ToolTypeOK, Handle, ToolAssumption
    <2>5. QED
      BY <2>2, <2>4 DEF ToolIInv
  <1>4. CASE Head(queue_read).type \notin Lasting
    <2>1. shown' = shown /\ rows' = rows
      BY <1>4 DEF Handle
    <2>2. Kept(queue_read' \o inHand', shown' + 1, rows')
      BY <1>1, <1>2, <1>4, <2>1, TakeRow
    <2>3. ToolTypeOK'
      BY <1>1, <2>1, ToolAssumption DEF ToolTypeOK, Handle, ToolAssumption
    <2>4. QED
      BY <2>2, <2>3 DEF ToolIInv
  <1>5. QED
    BY <1>3, <1>4

(* The steps that touch neither queue_read nor what is in hand.             *)
LEMMA WindowKeeps ==
  ASSUME ToolIInv, ThreadExits \/ MainThread
  PROVE  ToolIInv'
  <1>1. UNCHANGED <<queue_read, inHand, rows, shown, serial>>
    BY DEF ThreadExits, MainThread, Command, PutCommand, Clean, closeEvent, PutExit, Exit
  <1>2. queue_write' \in Seq({"command", "exit"}) /\ Len(queue_write') <= QueueSize
    <2>1. queue_write \in Seq({"command", "exit"}) /\ Len(queue_write) <= QueueSize
      BY DEF ToolIInv, ToolTypeOK
    <2>2. CASE UNCHANGED queue_write
      BY <2>1, <2>2
    <2>3. CASE PutCommand
      BY <2>1, <2>3, ToolAssumption DEF PutCommand, Full, ToolAssumption
    <2>4. CASE PutExit
      BY <2>1, <2>4, ToolAssumption DEF PutExit, Full, ToolAssumption
    <2>5. QED
      BY <2>2, <2>3, <2>4 DEF ThreadExits, MainThread, Command, Clean, closeEvent, Exit
  <1>3. ToolTypeOK'
    BY <1>1, <1>2 DEF ToolIInv, ToolTypeOK, ThreadExits, MainThread, Command, PutCommand,
       Clean, closeEvent, PutExit, Exit
  <1>4. QED
    BY <1>1, <1>3, SameRows DEF ToolIInv

LEMMA ToolInvariant == ToolSpec => []ToolIInv
  <1>1. ToolInit => ToolIInv
    <2> SUFFICES ASSUME ToolInit PROVE ToolIInv
      OBVIOUS
    <2>1. ToolTypeOK
      <3>1. inHand = <<>> /\ queue_read = <<>> /\ queue_write = <<>>
        BY DEF ToolInit
      <3>2. \A S : <<>> \in Seq(S) /\ Len(<<>>) = 0
        BY EmptySeq
      <3>3. /\ inHand \in Seq([type : Lasting \cup {"FAIL_EVENT"}, seq : Nat])
            /\ queue_read \in Seq([type : Lasting \cup Droppable \cup {"FAIL_EVENT"},
                                  seq : Nat])
            /\ queue_write \in Seq({"command", "exit"})
            /\ Len(inHand) = 0 /\ Len(queue_read) = 0 /\ Len(queue_write) = 0
        BY <3>1, <3>2, Zenon
      <3>4. /\ serial = "open" /\ folder = FALSE /\ signal_exit = FALSE
            /\ thread = "get" /\ window = "open"
            /\ rows \in 0..MaxRows /\ shown \in 0..MaxRows
        BY ToolAssumption DEF ToolInit, ToolAssumption
      <3>5. /\ Len(inHand) = (IF serial \in {"put", "fail"} THEN 1 ELSE 0)
            /\ Len(queue_read) <= QueueSize /\ Len(queue_write) <= QueueSize
        BY <3>3, <3>4, ToolAssumption DEF ToolAssumption
      <3>6. QED
        BY <3>3, <3>4, <3>5, Zenon DEF ToolTypeOK
    <2>2. queue_read \o inHand = <<>>
      BY DEF ToolInit
    <2>3. Kept(<<>>, shown + 1, rows)
      BY DEF ToolInit, Kept, Waiting
    <2>4. QED
      BY <2>1, <2>2, <2>3 DEF ToolIInv
  <1>2. ToolIInv /\ UNCHANGED toolVars => ToolIInv'
    BY DEF ToolIInv, ToolTypeOK, toolVars
  <1>3. ToolIInv /\ serial_handle => ToolIInv'
    BY SerialType, SerialKeeps DEF ToolIInv
  <1>4. ToolIInv /\ [ToolNext]_toolVars => ToolIInv'
    BY <1>2, <1>3, HandleKeeps, WindowKeeps DEF ToolNext, run
  <1>5. QED
    BY <1>1, <1>4, PTL DEF ToolSpec

(* Both queues keep within any size, and a row is in hand exactly while it   *)
(* is put.                                                                  *)
THEOREM ToolTypeCorrect == ToolSpec => []ToolTypeOK
  <1>1. ToolIInv => ToolTypeOK
    BY DEF ToolIInv
  <1>2. QED
    BY <1>1, ToolInvariant, PTL

(* No radar row or device row is lost, repeated or overtaken between the     *)
(* port and the thread, for queues of any size and any number of rows.      *)
THEOREM LastingRowsKeptAlways == ToolSpec => []LastingRowsKept
  <1>1. ToolIInv => LastingRowsKept
    <2> SUFFICES ASSUME ToolIInv PROVE LastingRowsKept
      OBVIOUS
    <2> DEFINE waiting == queue_read \o inHand
    <2>1. Kept(waiting, shown + 1, rows) /\ shown \in Nat /\ rows \in Nat
      BY ToolAssumption DEF ToolIInv, ToolTypeOK, ToolAssumption
    <2> HIDE DEF waiting
    <2>2. shown <= rows
      BY <2>1 DEF Kept
    <2>3. {waiting[k].seq : k \in Waiting(waiting)} = (shown + 1)..rows
      BY <2>1 DEF Kept
    <2>4. \A j, k \in Waiting(waiting) : j < k => waiting[j].seq < waiting[k].seq
      BY <2>1 DEF Kept
    <2>5. QED
      BY <2>2, <2>3, <2>4 DEF LastingRowsKept, Waiting, waiting
  <1>2. QED
    BY <1>1, ToolInvariant, PTL

-----------------------------------------------------------------------------
(* HostRecords: the table of status changes.                                *)

RecordRow == [room : {0, 1}, human : {0, 1}, spend : Int, start : Nat, stop : Nat]

Clearings == {<<"moves", "records", "status", "statistics">>,
              <<"records", "status", "statistics">>, <<"status", "statistics">>,
              <<"statistics">>, <<>>}

RecordsTypeOK ==
  /\ now \in Nat
  /\ status \in Status /\ lastStatus \in Status
  /\ record \in [1..Records -> RecordRow]
  /\ handling \in {"idle", "record", "spend", "parse", "move", "count", "aborted"}
  /\ clearing \in Clearings
  /\ overlapped \in Nat

(* The first record stands for a status; without one that is "none".        *)
TopIs(s) ==
  IF record[1].start = 0 THEN s = None
  ELSE record[1].room = s.room /\ record[1].human = s.human

(* Each record ends where the one above begins, with another status.        *)
Chained ==
  \A k \in 2..Records :
    record[k].start # 0 =>
      /\ record[k].stop = record[k - 1].start
      /\ \/ record[k].room # record[k - 1].room
         \/ record[k].human # record[k - 1].human

(* While the button clears, and no row comes: what is cleared already.       *)
ClearedSoFar ==
  clearing # <<>> =>
    /\ handling = "idle"
    /\ clearing \in {<<"status", "statistics">>, <<"statistics">>} =>
         record = [k \in 1..Records |-> EmptyRecord]
    /\ clearing = <<"statistics">> => status = None

(* While a row is handled, and nothing is cleared.                          *)
HalfHandled ==
  clearing = <<>> =>
    /\ Chained
    /\ handling \in {"idle", "spend", "parse", "move", "count"} => TopIs(status)
    /\ handling = "record" => TopIs(lastStatus) /\ now # 0
    /\ handling = "parse" => record[1].start # 0
    /\ handling \in {"idle", "move", "count"} =>
         (record[1].start # 0 => record[1].spend = now - record[1].start)

RecordsIInv ==
  /\ RecordsTypeOK
  /\ handling = "aborted" => torn
  /\ ~ torn => ClearedSoFar /\ HalfHandled

(* A step that leaves the table, the status and the clock alone.            *)
LEMMA TableUntouched ==
  ASSUME UNCHANGED <<record, status, lastStatus>>
  PROVE  /\ Chained' <=> Chained
         /\ TopIs(status)' <=> TopIs(status)
         /\ TopIs(lastStatus)' <=> TopIs(lastStatus)
  BY DEF Chained, TopIs

LEMMA StoreRowKeeps == RecordsIInv /\ StoreRow => RecordsIInv'
  <1> SUFFICES ASSUME RecordsIInv, StoreRow PROVE RecordsIInv'
    OBVIOUS
  <1>1. RecordsTypeOK' /\ handling' = "record" /\ now' # 0
    BY DEF RecordsIInv, RecordsTypeOK, StoreRow, windowVars
  <1>2. ASSUME ~ torn' PROVE ClearedSoFar' /\ HalfHandled'
    <2>1. ~ torn /\ clearing = <<>> /\ clearing' = <<>> /\ handling = "idle"
      BY <1>2 DEF StoreRow, windowVars, torn, RecordsIInv, RecordsTypeOK
    <2>2. Chained /\ TopIs(status)
      BY <2>1 DEF RecordsIInv, HalfHandled
    <2>3. Chained' /\ TopIs(lastStatus)'
      BY <2>2 DEF StoreRow, Chained, TopIs
    <2>4. QED
      BY <1>1, <2>1, <2>3 DEF ClearedSoFar, HalfHandled
  <1>3. QED
    BY <1>1, <1>2 DEF RecordsIInv

LEMMA TwoRecords == Records \in Nat /\ Records >= 2
  BY RecordsAssumption DEF RecordsAssumption

(* The table moves down by one.                                             *)
LEMMA RecordChangeKeeps == RecordsIInv /\ RecordChange => RecordsIInv'
  <1> SUFFICES ASSUME RecordsIInv, RecordChange PROVE RecordsIInv'
    OBVIOUS
  <1>1. /\ RecordsTypeOK
        /\ record[1] \in RecordRow /\ 1 \in 1..Records /\ 2 \in 1..Records
    BY TwoRecords DEF RecordsIInv, RecordsTypeOK
  <1>2. CASE status = lastStatus
    <2>1. UNCHANGED <<record, status, lastStatus, now, clearing, overlapped>> /\ handling = "record"
          /\ handling' = "spend"
      BY <1>2 DEF RecordChange, windowVars
    <2>2. RecordsTypeOK'
      BY <1>1, <2>1 DEF RecordsTypeOK
    <2>3. QED
      BY <1>2, <2>1, <2>2, TableUntouched DEF RecordsIInv, ClearedSoFar, HalfHandled, torn
  <1>3. CASE status # lastStatus
    <2> DEFINE top == [record[1] EXCEPT !.start = now, !.room = status.room,
                                        !.human = status.human]
               ended == IF record[1].start = 0 THEN record[1]
                        ELSE [record[1] EXCEPT !.stop = now]
    <2>1. /\ UNCHANGED <<status, lastStatus, now, clearing, overlapped>>
          /\ handling = "record" /\ handling' = "spend"
          /\ record' = [k \in 1..Records |->
                          CASE k = 1 -> top
                            [] k = 2 -> ended
                            [] OTHER -> record[k - 1]]
      BY <1>3 DEF RecordChange, windowVars
    <2>2. /\ status.room \in {0, 1} /\ status.human \in {0, 1} /\ now \in Nat
          /\ lastStatus.room \in {0, 1} /\ lastStatus.human \in {0, 1}
          /\ status.room # lastStatus.room \/ status.human # lastStatus.human
      BY <1>1, <1>3 DEF RecordsTypeOK, Status
    <2>3. /\ top \in RecordRow /\ top.start = now
          /\ top.room = status.room /\ top.human = status.human
      BY <1>1, <2>2 DEF RecordRow
    <2>4. /\ ended \in RecordRow /\ ended.start = record[1].start
          /\ ended.room = record[1].room /\ ended.human = record[1].human
          /\ record[1].start # 0 => ended.stop = now
      BY <1>1, <2>2 DEF RecordRow
    <2> HIDE DEF top, ended
    <2>5. /\ record'[1] = top /\ record'[2] = ended
          /\ \A k \in 3..Records : record'[k] = record[k - 1]
      BY <2>1, <1>1, TwoRecords
    <2>6. record' \in [1..Records -> RecordRow]
      BY <1>1, <2>1, <2>3, <2>4, TwoRecords DEF RecordsTypeOK
    <2>7. RecordsTypeOK'
      BY <1>1, <2>1, <2>6 DEF RecordsTypeOK
    <2>8. ASSUME ~ torn' PROVE ClearedSoFar' /\ HalfHandled'
      <3>1. clearing = <<>> /\ clearing' = <<>> /\ Chained /\ TopIs(lastStatus) /\ now # 0
        BY <2>1, <2>8 DEF RecordsIInv, RecordsTypeOK, ClearedSoFar, HalfHandled, torn
      <3>2. TopIs(status)'
        BY <2>1, <2>3, <2>5, <3>1 DEF TopIs
      <3>3. ASSUME NEW k \in 2..Records, record'[k].start # 0
            PROVE  /\ record'[k].stop = record'[k - 1].start
                   /\ \/ record'[k].room # record'[k - 1].room
                      \/ record'[k].human # record'[k - 1].human
        <4>1. CASE k = 2
          BY <2>2, <2>3, <2>4, <2>5, <3>1, <3>3, <4>1 DEF TopIs
        <4>2. CASE k = 3
          <5>1. record'[3] = record[2] /\ record'[2] = ended /\ 2 \in 2..Records
            BY <2>5, <4>2, TwoRecords
          <5>2. record[2].start # 0
            BY <3>3, <4>2, <5>1
          <5>3. /\ record[2].stop = record[1].start
                /\ \/ record[2].room # record[1].room
                   \/ record[2].human # record[1].human
            BY <3>1, <5>1, <5>2 DEF Chained
          <5>4. QED
            BY <2>4, <4>2, <5>1, <5>3
        <4>3. CASE k > 3
          <5>1. record'[k] = record[k - 1] /\ record'[k - 1] = record[(k - 1) - 1]
                /\ k - 1 \in 2..Records
            BY <2>5, <4>3, TwoRecords
          <5>2. QED
            BY <3>1, <3>3, <5>1 DEF Chained
        <4>4. QED
          BY <4>1, <4>2, <4>3
      <3>4. QED
        BY <2>1, <3>1, <3>2, <3>3 DEF Chained, ClearedSoFar, HalfHandled
    <2>9. QED
      BY <2>1, <2>7, <2>8 DEF RecordsIInv
  <1>4. QED
    BY <1>2, <1>3

LEMMA TestStartKeeps == RecordsIInv /\ TestStart => RecordsIInv'
  <1> SUFFICES ASSUME RecordsIInv, TestStart PROVE RecordsIInv'
    OBVIOUS
  <1>1. UNCHANGED <<record, status, lastStatus, now, clearing, overlapped>> /\ handling = "spend"
        /\ handling' = IF record[1].start = 0 THEN "move" ELSE "parse"
    BY DEF TestStart, windowVars
  <1>2. RecordsTypeOK'
    BY <1>1 DEF RecordsIInv, RecordsTypeOK
  <1>3. QED
    BY <1>1, <1>2, TableUntouched DEF RecordsIInv, ClearedSoFar, HalfHandled, torn

LEMMA ParseStartKeeps == RecordsIInv /\ ParseStart => RecordsIInv'
  <1> SUFFICES ASSUME RecordsIInv, ParseStart PROVE RecordsIInv'
    OBVIOUS
  <1>1. UNCHANGED <<status, lastStatus, now, clearing, overlapped>> /\ handling = "parse"
        /\ RecordsTypeOK /\ 1 \in 1..Records /\ record[1] \in RecordRow
    BY TwoRecords DEF ParseStart, windowVars, RecordsIInv, RecordsTypeOK
  <1>2. CASE record[1].start = 0 /\ handling' = "aborted" /\ UNCHANGED record
    BY <1>1, <1>2 DEF RecordsIInv, RecordsTypeOK, ClearedSoFar, HalfHandled, torn
  <1>3. CASE /\ record[1].start # 0 /\ handling' = "move"
             /\ record' = [record EXCEPT ![1].spend = now - record[1].start]
    <2> DEFINE top == [record[1] EXCEPT !.spend = now - record[1].start]
    <2>1. /\ top \in RecordRow /\ top.spend = now - record[1].start
          /\ top.start = record[1].start /\ top.stop = record[1].stop
          /\ top.room = record[1].room /\ top.human = record[1].human
      BY <1>1 DEF RecordsTypeOK, RecordRow
    <2>2. record' = [record EXCEPT ![1] = top]
      BY <1>3, Zenon
    <2> HIDE DEF top
    <2>3. /\ record' \in [1..Records -> RecordRow]
          /\ record'[1] = top /\ \A k \in 2..Records : record'[k] = record[k]
      BY <1>1, <2>1, <2>2, TwoRecords DEF RecordsTypeOK
    <2>4. RecordsTypeOK'
      BY <1>1, <1>3, <2>3 DEF RecordsTypeOK
    <2>5. ASSUME ~ torn' PROVE ClearedSoFar' /\ HalfHandled'
      <3>1. clearing = <<>> /\ clearing' = <<>> /\ Chained /\ TopIs(status)
        BY <1>1, <2>5 DEF RecordsIInv, RecordsTypeOK, ClearedSoFar, HalfHandled, torn
      <3>2. TopIs(status)'
        BY <1>1, <2>1, <2>3, <3>1 DEF TopIs
      <3>3. ASSUME NEW k \in 2..Records
            PROVE  /\ record'[k] = record[k] /\ record'[k - 1].start = record[k - 1].start
                   /\ record'[k - 1].room = record[k - 1].room
                   /\ record'[k - 1].human = record[k - 1].human
        <4>1. k - 1 = 1 \/ k - 1 \in 2..Records
          BY TwoRecords
        <4>2. QED
          BY <2>1, <2>3, <4>1
      <3>4. Chained'
        BY <3>1, <3>3 DEF Chained
      <3>5. QED
        BY <1>1, <1>3, <2>1, <2>3, <3>1, <3>2, <3>4 DEF ClearedSoFar, HalfHandled
    <2>6. QED
      BY <1>3, <2>4, <2>5 DEF RecordsIInv
  <1>4. QED
    BY <1>2, <1>3 DEF ParseStart

LEMMA CountRowKeeps == RecordsIInv /\ (AppendMove \/ CountRow) => RecordsIInv'
  <1> SUFFICES ASSUME RecordsIInv, AppendMove \/ CountRow PROVE RecordsIInv'
    OBVIOUS
  <1>1. /\ UNCHANGED <<record, status, lastStatus, now, clearing, overlapped>>
        /\ \/ handling = "move" /\ handling' = "count"
           \/ handling = "count" /\ handling' = "idle"
    BY DEF AppendMove, CountRow, windowVars
  <1>2. RecordsTypeOK'
    BY <1>1 DEF RecordsIInv, RecordsTypeOK
  <1>3. QED
    BY <1>1, <1>2, TableUntouched DEF RecordsIInv, ClearedSoFar, HalfHandled, torn

LEMMA PressKeeps == RecordsIInv /\ Press => RecordsIInv'
  <1> SUFFICES ASSUME RecordsIInv, Press PROVE RecordsIInv'
    OBVIOUS
  <1>1. /\ UNCHANGED <<record, status, lastStatus, now, handling>> /\ handling # "aborted"
        /\ clearing' = <<"moves", "records", "status", "statistics">>
        /\ overlapped' = IF handling = "idle" THEN 0 ELSE 1
    BY DEF Press
  <1>2. RecordsTypeOK'
    BY <1>1 DEF RecordsIInv, RecordsTypeOK, Clearings
  <1>3. /\ clearing' # <<>>
        /\ clearing' \notin {<<"status", "statistics">>, <<"statistics">>}
    BY <1>1
  <1>4. QED
    BY <1>1, <1>2, <1>3 DEF RecordsIInv, ClearedSoFar, HalfHandled, torn

LEMMA ClearNextKeeps == RecordsIInv /\ ClearNext => RecordsIInv'
  <1> SUFFICES ASSUME RecordsIInv, ClearNext PROVE RecordsIInv'
    OBVIOUS
  <1> DEFINE empty == [k \in 1..Records |-> EmptyRecord]
  <1>1. /\ UNCHANGED <<now, handling, overlapped>> /\ RecordsTypeOK /\ clearing # <<>>
        /\ clearing' = Tail(clearing) /\ ClearGlobal(Head(clearing))
    BY DEF ClearNext, RecordsIInv
  <1>2. empty \in [1..Records -> RecordRow] /\ None \in Status
        /\ (\A k \in 1..Records : empty[k].start = 0) /\ 1 \in 1..Records
    BY TwoRecords DEF EmptyRecord, RecordRow, None, Status
  <1>3. /\ record' = record \/ record' = empty
        /\ status' = status \/ status' = None
        /\ lastStatus' = lastStatus \/ lastStatus' = None
    BY <1>1 DEF ClearGlobal
  <1>4. ASSUME ~ torn PROVE ClearedSoFar /\ handling = "idle"
    BY <1>1, <1>4 DEF RecordsIInv, ClearedSoFar
  <1>5. CASE clearing = <<"moves", "records", "status", "statistics">>
    <2>1. clearing' = <<"records", "status", "statistics">>
      BY <1>1, <1>5
    <2>2. clearing' # <<>> /\ clearing' \notin {<<"status", "statistics">>, <<"statistics">>}
          /\ clearing' \in Clearings
      BY <2>1 DEF Clearings
    <2>3. QED
      BY <1>1, <1>2, <1>3, <1>4, <2>2 DEF RecordsIInv, RecordsTypeOK, ClearedSoFar, HalfHandled, torn
  <1>6. CASE clearing = <<"records", "status", "statistics">>
    <2>1. clearing' = <<"status", "statistics">> /\ Head(clearing) = "records"
      BY <1>1, <1>6
    <2>2. record' = empty
      BY <1>1, <2>1 DEF ClearGlobal
    <2>3. clearing' # <<>> /\ clearing' # <<"statistics">> /\ clearing' \in Clearings
      BY <2>1 DEF Clearings
    <2>4. QED
      BY <1>1, <1>2, <1>3, <1>4, <2>2, <2>3
      DEF RecordsIInv, RecordsTypeOK, ClearedSoFar, HalfHandled, torn
  <1>7. CASE clearing = <<"status", "statistics">>
    <2>1. clearing' = <<"statistics">> /\ Head(clearing) = "status"
      BY <1>1, <1>7
    <2>2. record' = record /\ status' = None
      BY <1>1, <2>1 DEF ClearGlobal
    <2>3. clearing' # <<>> /\ clearing' \in Clearings
      BY <2>1 DEF Clearings
    <2>4. ~ torn => record = empty
      BY <1>4, <1>7 DEF ClearedSoFar
    <2>5. QED
      BY <1>1, <1>2, <1>3, <1>4, <2>2, <2>3, <2>4
      DEF RecordsIInv, RecordsTypeOK, ClearedSoFar, HalfHandled, torn
  <1>8. CASE clearing = <<"statistics">>
    <2>1. clearing' = <<>> /\ Head(clearing) = "statistics"
      BY <1>1, <1>8
    <2>2. record' = record /\ status' = status
      BY <1>1, <2>1 DEF ClearGlobal
    <2>3. ~ torn => record' = empty /\ status' = None /\ handling' = "idle"
      BY <1>1, <1>4, <1>8, <2>2 DEF ClearedSoFar
    <2>4. ~ torn => Chained' /\ TopIs(status)' /\ record'[1].start = 0
      BY <1>2, <2>3, TwoRecords DEF Chained, TopIs
    <2>5. RecordsTypeOK'
      BY <1>1, <1>2, <1>3, <2>1 DEF RecordsTypeOK, Clearings
    <2>6. QED
      BY <1>1, <2>1, <2>3, <2>4, <2>5 DEF RecordsIInv, ClearedSoFar, HalfHandled, torn
  <1>9. QED
    BY <1>1, <1>5, <1>6, <1>7, <1>8 DEF RecordsTypeOK, Clearings

(* The steps that the table does not depend on.                             *)
LEMMA OtherRecordsKeep ==
  ASSUME RecordsIInv, ShowThreshold \/ TypeThreshold \/ UNCHANGED recordVars
  PROVE  RecordsIInv'
  <1>1. UNCHANGED <<record, status, lastStatus, now, clearing, overlapped, handling>>
    BY DEF ShowThreshold, TypeThreshold, recordVars
  <1>2. RecordsTypeOK'
    BY <1>1 DEF RecordsIInv, RecordsTypeOK
  <1>3. QED
    BY <1>1, <1>2, TableUntouched DEF RecordsIInv, ClearedSoFar, HalfHandled, torn

LEMMA RecordsInitHolds == RecordsInit => RecordsIInv
  <1> SUFFICES ASSUME RecordsInit PROVE RecordsIInv
    OBVIOUS
  <1>1. record \in [1..Records -> RecordRow] /\ \A k \in 1..Records : record[k].start = 0
    BY DEF RecordsInit, EmptyRecord, RecordRow
  <1>2. RecordsTypeOK
    BY <1>1 DEF RecordsInit, RecordsTypeOK, None, Status, Clearings
  <1>3. Chained /\ TopIs(status) /\ record[1].start = 0
    BY <1>1, TwoRecords DEF RecordsInit, Chained, TopIs
  <1>4. QED
    BY <1>2, <1>3 DEF RecordsInit, RecordsIInv, ClearedSoFar, HalfHandled, torn

LEMMA RecordsInvariant == RecordsSpec => []RecordsIInv
  <1>1. RecordsInit => RecordsIInv
    BY RecordsInitHolds
  <1>2. RecordsIInv /\ [RecordsNext]_recordVars => RecordsIInv'
    BY StoreRowKeeps, RecordChangeKeeps, TestStartKeeps, ParseStartKeeps, CountRowKeeps,
       PressKeeps, ClearNextKeeps, OtherRecordsKeep DEF RecordsNext, radar_data_handle
  <1>3. QED
    BY <1>1, <1>2, PTL DEF RecordsSpec

(* Between rows the first record is the present status and the records are   *)
(* chained, for a table of any length and any number of rows, and the        *)
(* handling of a row aborts only when the table was cleared meanwhile.      *)
THEOREM TopRecordCurrentAlways == RecordsSpec => []TopRecordCurrent
  <1>1. RecordsIInv => TopRecordCurrent
    BY DEF RecordsIInv, HalfHandled, Chained, TopIs, TopRecordCurrent, Between
  <1>2. QED
    BY <1>1, RecordsInvariant, PTL

-----------------------------------------------------------------------------
(* Sums of the numbers a function has on a finite set, for the charts.      *)

(* Induction over the subsets of a finite set, for a set of them.           *)
LEMMA SubsetsClimb ==
  ASSUME NEW S, IsFiniteSet(S), NEW G,
         \A T \in SUBSET S : (\A R \in SUBSET T : R # T => R \in G) => T \in G
  PROVE  SUBSET S \subseteq G
  <1> DEFINE Bad == {T \in SUBSET S : T \notin G}
  <1>1. SUFFICES ASSUME Bad # {} PROVE FALSE
    OBVIOUS
  <1>2. IsWellFoundedOn(StrictSubsetOrdering(S), SUBSET S)
    BY FS_StrictSubsetOrderingWellFounded, FS_FiniteSubsetsOfFinite
  <1>3. Bad \subseteq SUBSET S
    OBVIOUS
  <1>4. PICK T \in Bad : \A R \in Bad : <<R, T>> \notin StrictSubsetOrdering(S)
    <2> HIDE DEF Bad
    <2>1. QED
      BY <1>1, <1>2, <1>3, WFMin
  <1>5. ASSUME NEW R \in SUBSET T, R # T PROVE R \in G
    <2>1. <<R, T>> \in StrictSubsetOrdering(S)
      BY <1>5 DEF StrictSubsetOrdering
    <2>2. QED
      BY <1>4, <2>1
  <1>6. QED
    BY <1>5

(* SumFunctionOnSet, as a function on the subsets of its set.               *)
First(T) == CHOOSE x \in T : TRUE
Sums(f, S, sum) ==
  sum = [T \in SUBSET S |-> IF T = {} THEN 0 ELSE f[First(T)] + sum[T \ {First(T)}]]

LEMMA SumsIs ==
  ASSUME NEW f, NEW S
  PROVE  SumFunctionOnSet(f, S) = (CHOOSE sum : Sums(f, S, sum))[S]
  BY Zenon DEF SumFunctionOnSet, FoldFunctionOnSet, MapThenFoldSet, Sums, First

(* Two such functions agree where both are defined.                         *)
LEMMA SumsAgree ==
  ASSUME NEW f, NEW S, IsFiniteSet(S), NEW T \in SUBSET S,
         NEW a, Sums(f, S, a), NEW b, Sums(f, T, b)
  PROVE  \A R \in SUBSET T : a[R] = b[R]
  <1> DEFINE G == {R \in SUBSET T : a[R] = b[R]}
  <1>1. ASSUME NEW R \in SUBSET T, \A Q \in SUBSET R : Q # R => Q \in G
        PROVE  R \in G
    <2>1. /\ a[R] = IF R = {} THEN 0 ELSE f[First(R)] + a[R \ {First(R)}]
          /\ b[R] = IF R = {} THEN 0 ELSE f[First(R)] + b[R \ {First(R)}]
      BY DEF Sums
    <2>2. ASSUME R # {} PROVE R \ {First(R)} \in G
      <3>1. First(R) \in R
        BY <2>2 DEF First
      <3>2. QED
        BY <1>1, <3>1
    <2>3. QED
      BY <2>1, <2>2
  <1>2. IsFiniteSet(T)
    BY FS_Subset
  <1>3. SUBSET T \subseteq G
    <2> HIDE DEF G
    <2>1. QED
      BY <1>1, <1>2, SubsetsClimb
  <1>4. QED
    BY <1>3

LEMMA SumsExist ==
  ASSUME NEW f, NEW S, IsFiniteSet(S)
  PROVE  \E sum : Sums(f, S, sum)
  <1> DEFINE G == {T \in SUBSET S : \E sum : Sums(f, T, sum)}
  <1>1. ASSUME NEW T \in SUBSET S, \A R \in SUBSET T : R # T => R \in G
        PROVE  T \in G
    <2> DEFINE Val(R) == SumFunctionOnSet(f, R)
               h == [R \in SUBSET T |->
                       IF R = {} THEN 0 ELSE f[First(R)] + Val(R \ {First(R)})]
    <2>1. ASSUME NEW R \in SUBSET T, R # T PROVE Val(R) = h[R]
      <3> DEFINE g == CHOOSE sum : Sums(f, R, sum)
      <3>1. Val(R) = g[R] /\ Sums(f, R, g)
        BY <1>1, <2>1, SumsIs
      <3> HIDE DEF g
      <3>2. g[R] = IF R = {} THEN 0 ELSE f[First(R)] + g[R \ {First(R)}]
        BY <3>1 DEF Sums
      <3>3. ASSUME R # {} PROVE g[R \ {First(R)}] = Val(R \ {First(R)})
        <4> DEFINE Q == R \ {First(R)}
                   k == CHOOSE sum : Sums(f, Q, sum)
        <4>1. Q \in SUBSET R /\ Q # T
          BY <2>1
        <4>2. Sums(f, Q, k) /\ Val(Q) = k[Q]
          BY <1>1, <4>1, SumsIs
        <4>3. IsFiniteSet(R)
          BY FS_Subset
        <4>4. g[Q] = k[Q]
          <5> HIDE DEF k
          <5>1. Q \in SUBSET Q
            OBVIOUS
          <5> HIDE DEF Q
          <5>2. QED
            BY <3>1, <4>1, <4>2, <4>3, <5>1, SumsAgree
        <4>5. QED
          BY <4>2, <4>4
      <3>4. QED
        BY <3>1, <3>2, <3>3
    <2>2. ASSUME NEW R \in SUBSET T, R # {}
          PROVE  Val(R \ {First(R)}) = h[R \ {First(R)}]
      <3>1. First(R) \in R
        BY <2>2 DEF First
      <3>2. R \ {First(R)} \in SUBSET T /\ R \ {First(R)} # T
        BY <3>1
      <3> HIDE DEF h, Val
      <3>3. QED
        BY <2>1, <3>2
    <2>3. h = [R \in SUBSET T |->
                 IF R = {} THEN 0 ELSE f[First(R)] + h[R \ {First(R)}]]
      BY <2>2
    <2>4. QED
      BY <2>3, Zenon DEF Sums
  <1>2. SUBSET S \subseteq G
    <2> HIDE DEF G
    <2>1. QED
      BY <1>1, SubsetsClimb
  <1>3. QED
    BY <1>2

(* What the sum over a set is made of.                                      *)
LEMMA SumEmpty == \A f : SumFunctionOnSet(f, {}) = 0
  <1> TAKE f
  <1>1. PICK sum : Sums(f, {}, sum)
    BY SumsExist, FS_EmptySet
  <1>2. Sums(f, {}, CHOOSE s : Sums(f, {}, s))
    BY <1>1
  <1>3. QED
    BY <1>2, SumsIs DEF Sums

LEMMA SumFirst ==
  ASSUME NEW f, NEW S, IsFiniteSet(S), S # {}
  PROVE  /\ First(S) \in S
         /\ SumFunctionOnSet(f, S)
              = f[First(S)] + SumFunctionOnSet(f, S \ {First(S)})
  <1> DEFINE R == S \ {First(S)}
             a == CHOOSE sum : Sums(f, S, sum)
             b == CHOOSE sum : Sums(f, R, sum)
  <1>1. First(S) \in S
    BY DEF First
  <1>2. R \in SUBSET S /\ R \in SUBSET R /\ IsFiniteSet(R)
    BY FS_Subset
  <1>3. Sums(f, S, a) /\ Sums(f, R, b)
    <2>1. (\E sum : Sums(f, S, sum)) /\ \E sum : Sums(f, R, sum)
      BY <1>2, SumsExist
    <2>2. QED
      BY <2>1
  <1>4. SumFunctionOnSet(f, S) = a[S] /\ SumFunctionOnSet(f, R) = b[R]
    BY SumsIs
  <1> HIDE DEF a, b
  <1>5. a[S] = f[First(S)] + a[R]
    BY <1>3 DEF Sums
  <1>6. a[R] = b[R]
    <2> HIDE DEF R
    <2>1. QED
      BY <1>2, <1>3, SumsAgree
  <1>7. QED
    BY <1>1, <1>4, <1>5, <1>6

(* Sums of numbers: their type, and what does not change them.              *)
LEMMA SumType ==
  ASSUME NEW S, IsFiniteSet(S), NEW f, \A x \in S : f[x] \in Nat
  PROVE  SumFunctionOnSet(f, S) \in Nat
  <1> DEFINE G == {T \in SUBSET S : SumFunctionOnSet(f, T) \in Nat}
  <1>1. ASSUME NEW T \in SUBSET S, \A R \in SUBSET T : R # T => R \in G
        PROVE  T \in G
    <2>1. CASE T = {}
      BY <2>1, SumEmpty
    <2>2. CASE T # {}
      <3>1. IsFiniteSet(T)
        BY FS_Subset
      <3>2. /\ First(T) \in T
            /\ SumFunctionOnSet(f, T) = f[First(T)] + SumFunctionOnSet(f, T \ {First(T)})
        BY <2>2, <3>1, SumFirst
      <3>3. SumFunctionOnSet(f, T \ {First(T)}) \in Nat /\ f[First(T)] \in Nat
        BY <1>1, <3>2
      <3>4. QED
        BY <3>2, <3>3
    <2>3. QED
      BY <2>1, <2>2
  <1>2. SUBSET S \subseteq G
    <2> HIDE DEF G
    <2>1. QED
      BY <1>1, SubsetsClimb
  <1>3. QED
    BY <1>2

LEMMA SumSame ==
  ASSUME NEW S, IsFiniteSet(S), NEW f, NEW g, \A x \in S : f[x] = g[x]
  PROVE  SumFunctionOnSet(f, S) = SumFunctionOnSet(g, S)
  <1> DEFINE G == {T \in SUBSET S : SumFunctionOnSet(f, T) = SumFunctionOnSet(g, T)}
  <1>1. ASSUME NEW T \in SUBSET S, \A R \in SUBSET T : R # T => R \in G
        PROVE  T \in G
    <2>1. CASE T = {}
      BY <2>1, SumEmpty
    <2>2. CASE T # {}
      <3>1. IsFiniteSet(T)
        BY FS_Subset
      <3>2. /\ First(T) \in T
            /\ SumFunctionOnSet(f, T) = f[First(T)] + SumFunctionOnSet(f, T \ {First(T)})
            /\ SumFunctionOnSet(g, T) = g[First(T)] + SumFunctionOnSet(g, T \ {First(T)})
        BY <2>2, <3>1, SumFirst
      <3>3. SumFunctionOnSet(f, T \ {First(T)}) = SumFunctionOnSet(g, T \ {First(T)})
        BY <1>1, <3>2
      <3>4. QED
        BY <3>2, <3>3
    <2>3. QED
      BY <2>1, <2>2
  <1>2. SUBSET S \subseteq G
    <2> HIDE DEF G
    <2>1. QED
      BY <1>1, SubsetsClimb
  <1>3. QED
    BY <1>2

(* Any element may be added first.                                          *)
LEMMA SumWithout ==
  ASSUME NEW S, IsFiniteSet(S), NEW f, \A x \in S : f[x] \in Nat, NEW e \in S
  PROVE  SumFunctionOnSet(f, S) = f[e] + SumFunctionOnSet(f, S \ {e})
  <1> DEFINE Sum(T) == SumFunctionOnSet(f, T)
             G == {T \in SUBSET S : \A x \in T : Sum(T) = f[x] + Sum(T \ {x})}
  <1>1. ASSUME NEW T \in SUBSET S, \A R \in SUBSET T : R # T => R \in G
        PROVE  T \in G
    <2>1. SUFFICES ASSUME NEW x \in T PROVE Sum(T) = f[x] + Sum(T \ {x})
      OBVIOUS
    <2> DEFINE y == First(T)
    <2>2. IsFiniteSet(T)
      BY FS_Subset
    <2>3. y \in T /\ Sum(T) = f[y] + Sum(T \ {y})
      BY <2>1, <2>2, SumFirst
    <2> HIDE DEF y
    <2>4. CASE y = x
      BY <2>3, <2>4
    <2>5. CASE y # x
      <3>1. T \ {y} \in G /\ T \ {x} \in G
        BY <1>1, <2>3
      <3>2. x \in T \ {y} /\ y \in T \ {x}
        BY <2>3, <2>5
      <3>3. Sum(T \ {y}) = f[x] + Sum((T \ {y}) \ {x})
        BY <3>1, <3>2
      <3>4. Sum(T \ {x}) = f[y] + Sum((T \ {x}) \ {y})
        BY <3>1, <3>2
      <3>5. (T \ {y}) \ {x} = (T \ {x}) \ {y} /\ (T \ {x}) \ {y} \in SUBSET S
        OBVIOUS
      <3>6. Sum((T \ {x}) \ {y}) \in Nat /\ f[x] \in Nat /\ f[y] \in Nat
        <4>1. IsFiniteSet((T \ {x}) \ {y})
          BY <3>5, FS_Subset
        <4>2. QED
          BY <2>3, <3>5, <4>1, SumType
      <3>7. Sum((T \ {y}) \ {x}) = Sum((T \ {x}) \ {y})
        BY <3>5
      <3> HIDE DEF Sum
      <3>8. QED
        BY <2>3, <3>3, <3>4, <3>6, <3>7
    <2>6. QED
      BY <2>4, <2>5
  <1>2. SUBSET S \subseteq G
    <2> HIDE DEF G
    <2>1. QED
      BY <1>1, SubsetsClimb
  <1>3. QED
    BY <1>2

(* Two disjoint sets.                                                       *)
LEMMA SumUnion ==
  ASSUME NEW A, IsFiniteSet(A), NEW B, IsFiniteSet(B), A \cap B = {},
         NEW f, \A x \in A \cup B : f[x] \in Nat
  PROVE  SumFunctionOnSet(f, A \cup B) = SumFunctionOnSet(f, A) + SumFunctionOnSet(f, B)
  <1> DEFINE Sum(T) == SumFunctionOnSet(f, T)
             G == {T \in SUBSET A : Sum(T \cup B) = Sum(T) + Sum(B)}
  <1>1. ASSUME NEW T \in SUBSET A, \A R \in SUBSET T : R # T => R \in G
        PROVE  T \in G
    <2>0. IsFiniteSet(T) /\ IsFiniteSet(T \cup B) /\ Sum(B) \in Nat
      BY FS_Subset, FS_Union, SumType
    <2>1. CASE T = {}
      <3>1. T \cup B = B /\ Sum(T) = 0
        BY <2>1, SumEmpty
      <3> HIDE DEF Sum
      <3>2. QED
        BY <2>0, <3>1
    <2>2. CASE T # {}
      <3>1. PICK x \in T : TRUE
        BY <2>2
      <3>2. Sum(T) = f[x] + Sum(T \ {x})
        BY <2>0, <3>1, SumWithout
      <3>3. Sum(T \cup B) = f[x] + Sum((T \cup B) \ {x})
        BY <2>0, <3>1, SumWithout
      <3>4. (T \cup B) \ {x} = (T \ {x}) \cup B
        BY <3>1
      <3>5. Sum((T \ {x}) \cup B) = Sum(T \ {x}) + Sum(B)
        BY <1>1, <3>1
      <3>6. f[x] \in Nat /\ Sum(T \ {x}) \in Nat
        <4>1. IsFiniteSet(T \ {x})
          BY <2>0, FS_Subset
        <4>2. QED
          BY <3>1, <4>1, SumType
      <3> HIDE DEF Sum
      <3>7. QED
        BY <2>0, <3>2, <3>3, <3>4, <3>5, <3>6
    <2>3. QED
      BY <2>1, <2>2
  <1>2. SUBSET A \subseteq G
    <2> HIDE DEF G
    <2>1. QED
      BY <1>1, SubsetsClimb
  <1>3. QED
    BY <1>2

(* The parts of a set: their sums add up to its sum.                        *)
LEMMA SumParts ==
  ASSUME NEW K, IsFiniteSet(K), NEW U, IsFiniteSet(U), NEW f, \A x \in U : f[x] \in Nat,
         NEW part \in [K -> SUBSET U], NEW g,
         \A k \in K : g[k] = SumFunctionOnSet(f, part[k]),
         \A j, k \in K : j # k => part[j] \cap part[k] = {}
  PROVE  SumFunctionOnSet(g, K) = SumFunctionOnSet(f, UNION {part[k] : k \in K})
  <1> DEFINE Sum(T) == SumFunctionOnSet(f, T)
             All(L) == UNION {part[k] : k \in L}
             G == {L \in SUBSET K : SumFunctionOnSet(g, L) = Sum(All(L))}
  <1>1. ASSUME NEW L \in SUBSET K, \A R \in SUBSET L : R # L => R \in G
        PROVE  L \in G
    <2>1. CASE L = {}
      <3>1. All(L) = {}
        BY <2>1
      <3>2. QED
        BY <2>1, <3>1, SumEmpty
    <2>2. CASE L # {}
      <3>1. PICK k \in L : k = First(L)
        BY <2>2 DEF First
      <3>2. SumFunctionOnSet(g, L) = g[k] + SumFunctionOnSet(g, L \ {k})
        <4>1. IsFiniteSet(L)
          BY FS_Subset
        <4>2. QED
          BY <2>2, <3>1, <4>1, SumFirst
      <3>3. SumFunctionOnSet(g, L \ {k}) = Sum(All(L \ {k}))
        BY <1>1, <3>1
      <3>4. g[k] = Sum(part[k])
        BY <3>1
      <3>5. /\ All(L) = part[k] \cup All(L \ {k})
            /\ part[k] \cap All(L \ {k}) = {}
            /\ part[k] \subseteq U /\ All(L \ {k}) \subseteq U
        BY <3>1
      <3>6. Sum(All(L)) = Sum(part[k]) + Sum(All(L \ {k}))
        <4>1. IsFiniteSet(part[k]) /\ IsFiniteSet(All(L \ {k}))
          BY <3>5, FS_Subset
        <4>2. \A x \in part[k] \cup All(L \ {k}) : f[x] \in Nat
          BY <3>5
        <4>3. part[k] \cap All(L \ {k}) = {}
          BY <3>5
        <4> DEFINE P == part[k]
                   Q == All(L \ {k})
        <4> HIDE DEF P, Q
        <4>4. Sum(P \cup Q) = Sum(P) + Sum(Q)
          <5>1. IsFiniteSet(P) /\ IsFiniteSet(Q) /\ P \cap Q = {}
                /\ \A x \in P \cup Q : f[x] \in Nat
            BY <4>1, <4>2, <4>3 DEF P, Q
          <5>2. QED
            BY <5>1, SumUnion
        <4>5. All(L) = P \cup Q
          BY <3>5 DEF P, Q
        <4>6. QED
          BY <4>4, <4>5 DEF P, Q
      <3>7. QED
        BY <3>2, <3>3, <3>4, <3>6
    <2>3. QED
      BY <2>1, <2>2
  <1>2. SUBSET K \subseteq G
    <2> HIDE DEF G
    <2>1. QED
      BY <1>1, SubsetsClimb
  <1>3. QED
    BY <1>2

(* A sum of zeros, and one more at one place.                               *)
LEMMA SumZeros ==
  ASSUME NEW S, IsFiniteSet(S), NEW f, \A x \in S : f[x] = 0
  PROVE  SumFunctionOnSet(f, S) = 0
  <1> DEFINE G == {T \in SUBSET S : SumFunctionOnSet(f, T) = 0}
  <1>1. ASSUME NEW T \in SUBSET S, \A R \in SUBSET T : R # T => R \in G
        PROVE  T \in G
    <2>1. CASE T = {}
      BY <2>1, SumEmpty
    <2>2. CASE T # {}
      <3>1. IsFiniteSet(T)
        BY FS_Subset
      <3>2. /\ First(T) \in T
            /\ SumFunctionOnSet(f, T) = f[First(T)] + SumFunctionOnSet(f, T \ {First(T)})
        BY <2>2, <3>1, SumFirst
      <3>3. SumFunctionOnSet(f, T \ {First(T)}) = 0 /\ f[First(T)] = 0
        BY <1>1, <3>2
      <3>4. QED
        BY <3>2, <3>3
    <2>3. QED
      BY <2>1, <2>2
  <1>2. SUBSET S \subseteq G
    <2> HIDE DEF G
    <2>1. QED
      BY <1>1, SubsetsClimb
  <1>3. QED
    BY <1>2

LEMMA SumRaised ==
  ASSUME NEW S, IsFiniteSet(S), NEW f, \A x \in S : f[x] \in Nat, NEW e \in S,
         NEW g, g[e] = f[e] + 1, \A x \in S : x # e => g[x] = f[x]
  PROVE  SumFunctionOnSet(g, S) = SumFunctionOnSet(f, S) + 1
  <1>1. /\ SumFunctionOnSet(f, S) = f[e] + SumFunctionOnSet(f, S \ {e})
        /\ SumFunctionOnSet(g, S) = g[e] + SumFunctionOnSet(g, S \ {e})
    <2>1. \A x \in S : g[x] \in Nat
      OBVIOUS
    <2>2. QED
      BY <2>1, SumWithout
  <1>2. IsFiniteSet(S \ {e})
    BY FS_Subset
  <1>3. SumFunctionOnSet(g, S \ {e}) = SumFunctionOnSet(f, S \ {e})
    BY <1>2, SumSame
  <1>4. SumFunctionOnSet(f, S \ {e}) \in Nat /\ f[e] \in Nat
    BY <1>2, SumType
  <1>5. QED
    BY <1>1, <1>3, <1>4

-----------------------------------------------------------------------------
(* HostRecords: the statistics and the charts.                              *)

MoveRow == [row : 0..MaxRadarRows, count : {0, 1}]

(* The moves that were not cleared, and how often each counts.              *)
Shown       == {i \in DOMAIN moves : moves[i].row # 0}
MoveCount   == [i \in DOMAIN moves |-> moves[i].count]
MoveStatus  == {s \in Status : s.human = 1}

CountsTypeOK ==
  /\ now \in 0..MaxRadarRows /\ (handling # "idle" => now # 0)
  /\ moves \in Seq(MoveRow)
  /\ \A i \in Shown : moves[i].count = 1
  /\ statistics \in [Status -> Nat] /\ counted \in Nat

Total        == SumFunctionOnSet(statistics, Status)
MovesCounted == SumFunctionOnSet(statistics, MoveStatus)
Charted      == SumFunctionOnSet(MoveCount, Shown)

(* Of the row in hand: it is still to be counted, its move is still to be     *)
(* appended, and what of its move is appended and still to be counted.      *)
InHandNow == IF handling = "idle" THEN 0 ELSE 1
NotMoved  == IF handling \in {"record", "spend", "parse", "move"} THEN 1 ELSE 0
HalfMoved == IF handling = "count" THEN status.human ELSE 0

(* Both sides have the same rows, but for those that overlapped the last      *)
(* clearing; while the button clears, those are all the rows there are.     *)
CountsAgree ==
  /\ clearing = <<>> =>
       /\ Total \in (counted - overlapped)..counted
       /\ Charted \in (MovesCounted + HalfMoved - overlapped)
                         ..(MovesCounted + HalfMoved + overlapped)
  /\ clearing # <<>> =>
       /\ counted + InHandNow <= overlapped
       /\ Head(clearing) # "moves" => Charted + NotMoved <= overlapped

CountsIInv == RecordsIInv /\ CountsTypeOK /\ CountsAgree

LEMMA StatusFinite == IsFiniteSet(Status) /\ IsFiniteSet(MoveStatus)
  <1> DEFINE Of(x, y) == [room |-> x, human |-> y]
  <1>1. Status = (({Of(0, 0)} \cup {Of(0, 1)}) \cup {Of(1, 0)}) \cup {Of(1, 1)}
    <2>1. \A s \in Status : s = Of(s.room, s.human) /\ s.room \in {0, 1} /\ s.human \in {0, 1}
      BY DEF Status
    <2>2. \A x, y \in {0, 1} : Of(x, y) \in Status
      BY DEF Status
    <2> HIDE DEF Of
    <2>3. QED
      BY <2>1, <2>2
  <1>2. IsFiniteSet(Status)
    <2> HIDE DEF Of
    <2>1. IsFiniteSet({Of(0, 0)})
      BY FS_Singleton
    <2>2. IsFiniteSet({Of(0, 0)} \cup {Of(0, 1)})
      BY <2>1, FS_AddElement
    <2>3. IsFiniteSet(({Of(0, 0)} \cup {Of(0, 1)}) \cup {Of(1, 0)})
      BY <2>2, FS_AddElement
    <2>4. QED
      BY <1>1, <2>3, FS_AddElement
  <1>3. MoveStatus \in SUBSET Status
    BY DEF MoveStatus
  <1>4. QED
    BY <1>2, <1>3, FS_Subset

LEMMA MovesFinite ==
  ASSUME CountsTypeOK
  PROVE  /\ IsFiniteSet(DOMAIN moves) /\ IsFiniteSet(Shown)
         /\ DOMAIN moves = 1..Len(moves) /\ Len(moves) \in Nat
         /\ \A i \in DOMAIN moves : moves[i] \in MoveRow /\ MoveCount[i] \in Nat
  <1>1. DOMAIN moves = 1..Len(moves) /\ Len(moves) \in Nat
        /\ \A i \in DOMAIN moves : moves[i] \in MoveRow
    BY DEF CountsTypeOK
  <1>2. IsFiniteSet(DOMAIN moves)
    BY <1>1, FS_Interval
  <1>3. IsFiniteSet(Shown)
    BY <1>2, FS_Subset DEF Shown
  <1>4. \A i \in DOMAIN moves : MoveCount[i] \in Nat
    BY <1>1 DEF MoveCount, MoveRow
  <1>5. QED
    BY <1>1, <1>2, <1>3, <1>4

LEMMA CountsAreNumbers ==
  ASSUME CountsTypeOK, RecordsTypeOK
  PROVE  /\ Total \in Nat /\ MovesCounted \in Nat /\ Charted \in Nat
         /\ counted \in Nat /\ overlapped \in Nat
         /\ InHandNow \in {0, 1} /\ NotMoved \in {0, 1} /\ HalfMoved \in {0, 1}
         /\ NotMoved <= InHandNow /\ HalfMoved <= InHandNow
  <1>1. /\ \A x \in Status : statistics[x] \in Nat
        /\ \A x \in MoveStatus : statistics[x] \in Nat
    BY DEF CountsTypeOK, MoveStatus
  <1>2. \A i \in Shown : MoveCount[i] \in Nat
    BY MovesFinite DEF Shown
  <1>3. Total \in Nat
    BY <1>1, StatusFinite, SumType DEF Total
  <1>4. MovesCounted \in Nat
    BY <1>1, StatusFinite, SumType DEF MovesCounted
  <1>5. Charted \in Nat
    BY <1>2, MovesFinite, SumType DEF Charted
  <1>6. QED
    BY <1>3, <1>4, <1>5 DEF CountsTypeOK, RecordsTypeOK, Status, InHandNow, NotMoved, HalfMoved

(* Steps that count nothing and clear nothing.                              *)
LEMMA CountsUntouched ==
  ASSUME CountsIInv, RecordsIInv',
         UNCHANGED <<moves, statistics, clearing, counted>>,
         now' \in 0..MaxRadarRows, handling' # "idle" => now' # 0,
         \/ /\ overlapped' = overlapped
            /\ InHandNow' = InHandNow /\ HalfMoved' = HalfMoved /\ NotMoved' <= NotMoved
         \/ /\ handling = "idle" /\ handling' = "record"
            /\ overlapped' = IF clearing = <<>> THEN overlapped ELSE overlapped + 1
  PROVE  CountsIInv'
  <1>1. Shown' = Shown /\ MoveCount' = MoveCount /\ MoveStatus' = MoveStatus
    BY DEF Shown, MoveCount, MoveStatus
  <1>2. Total' = Total /\ MovesCounted' = MovesCounted /\ Charted' = Charted
    BY <1>1 DEF Total, MovesCounted, Charted
  <1>3. CountsTypeOK'
    BY <1>1 DEF CountsIInv, CountsTypeOK
  <1>4. /\ Total \in Nat /\ MovesCounted \in Nat /\ Charted \in Nat
        /\ counted \in Nat /\ overlapped \in Nat
        /\ InHandNow \in {0, 1} /\ NotMoved \in {0, 1} /\ HalfMoved \in {0, 1}
    BY CountsAreNumbers DEF CountsIInv, RecordsIInv
  <1>5. NotMoved' \in {0, 1}
    BY DEF NotMoved
  <1>6. CASE /\ overlapped' = overlapped
             /\ InHandNow' = InHandNow /\ HalfMoved' = HalfMoved /\ NotMoved' <= NotMoved
    <2>1. CountsAgree'
      <3>1. CASE clearing = <<>>
        BY <1>2, <1>6, <3>1 DEF CountsIInv, CountsAgree
      <3>2. CASE clearing # <<>>
        <4>1. /\ counted + InHandNow <= overlapped
              /\ Head(clearing) # "moves" => Charted + NotMoved <= overlapped
          BY <3>2 DEF CountsIInv, CountsAgree
        <4>2. counted' = counted /\ clearing' = clearing
          OBVIOUS
        <4>3. counted' + InHandNow' <= overlapped'
          BY <1>6, <4>1, <4>2
        <4>4. ASSUME Head(clearing) # "moves" PROVE Charted' + NotMoved' <= overlapped'
          <5>1. Charted + NotMoved <= overlapped /\ NotMoved' <= NotMoved
            BY <1>6, <4>1, <4>4
          <5>2. /\ Charted \in Int /\ overlapped \in Int
                /\ NotMoved \in Int /\ NotMoved' \in Int
            BY <1>4, <1>5
          <5>3. \A a, b, c, d \in Int : a + b <= c /\ d <= b => a + d <= c
            OBVIOUS
          <5>4. Charted + NotMoved' <= overlapped
            BY <5>1, <5>2, <5>3
          <5>5. QED
            BY <1>2, <1>6, <5>4
        <4>5. QED
          BY <3>2, <4>2, <4>3, <4>4 DEF CountsAgree
      <3>3. QED
        BY <3>1, <3>2
    <2>2. QED
      BY <1>3, <2>1 DEF CountsIInv
  <1>7. CASE /\ handling = "idle" /\ handling' = "record"
             /\ overlapped' = IF clearing = <<>> THEN overlapped ELSE overlapped + 1
    <2>1. /\ InHandNow = 0 /\ HalfMoved = 0 /\ NotMoved = 0
          /\ InHandNow' = 1 /\ HalfMoved' = 0 /\ NotMoved' = 1
      BY <1>7 DEF InHandNow, NotMoved, HalfMoved
    <2>2. CountsAgree'
      BY <1>2, <1>4, <1>7, <2>1 DEF CountsIInv, CountsAgree
    <2>3. QED
      BY <1>3, <2>2 DEF CountsIInv
  <1>8. QED
    BY <1>6, <1>7

LEMMA SumsGrow ==
  ASSUME CountsTypeOK, status \in Status, now # 0
  PROVE  LET raised == [statistics EXCEPT ![status] = @ + 1]
         IN  /\ raised \in [Status -> Nat]
             /\ SumFunctionOnSet(raised, Status) = SumFunctionOnSet(statistics, Status) + 1
             /\ SumFunctionOnSet(raised, MoveStatus)
                  = IF status.human = 1 THEN SumFunctionOnSet(statistics, MoveStatus) + 1
                    ELSE SumFunctionOnSet(statistics, MoveStatus)
  <1> DEFINE raised == [statistics EXCEPT ![status] = @ + 1]
  <1>1. /\ raised \in [Status -> Nat] /\ raised[status] = statistics[status] + 1
        /\ \A x \in Status : x # status => raised[x] = statistics[x]
        /\ \A x \in Status : statistics[x] \in Nat
    BY DEF CountsTypeOK
  <1>2. MoveStatus \subseteq Status /\ (status \in MoveStatus <=> status.human = 1)
    BY DEF MoveStatus
  <1> HIDE DEF raised
  <1>3. SumFunctionOnSet(raised, Status) = SumFunctionOnSet(statistics, Status) + 1
    BY <1>1, StatusFinite, SumRaised
  <1>4. CASE status \in MoveStatus
    <2>1. SumFunctionOnSet(raised, MoveStatus) = SumFunctionOnSet(statistics, MoveStatus) + 1
      <3>1. /\ \A x \in MoveStatus : statistics[x] \in Nat
            /\ \A x \in MoveStatus : x # status => raised[x] = statistics[x]
        BY <1>1, <1>2
      <3>2. QED
        BY <1>1, <1>4, <3>1, StatusFinite, SumRaised
    <2>2. QED
      BY <1>1, <1>2, <1>3, <1>4, <2>1 DEF raised
  <1>5. CASE status \notin MoveStatus
    <2>1. SumFunctionOnSet(raised, MoveStatus) = SumFunctionOnSet(statistics, MoveStatus)
      <3>1. \A x \in MoveStatus : raised[x] = statistics[x]
        BY <1>1, <1>2, <1>5
      <3>2. QED
        BY <3>1, StatusFinite, SumSame
    <2>2. QED
      BY <1>1, <1>2, <1>3, <1>5, <2>1 DEF raised
  <1>6. QED
    BY <1>4, <1>5

(* A move that is appended is shown, and counts once.                       *)
LEMMA MoveAppended ==
  ASSUME CountsTypeOK, now # 0, moves' = Append(moves, [row |-> now, count |-> 1])
  PROVE  /\ moves' \in Seq(MoveRow)
         /\ \A i \in Shown' : moves'[i].count = 1
         /\ SumFunctionOnSet(MoveCount', Shown') = SumFunctionOnSet(MoveCount, Shown) + 1
  <1> DEFINE n == Len(moves) + 1
             move == [row |-> now, count |-> 1]
  <1>1. /\ move \in MoveRow /\ move.row # 0 /\ move.count = 1
    BY DEF CountsTypeOK, MoveRow
  <1>2. /\ moves' \in Seq(MoveRow) /\ Len(moves) \in Nat
        /\ DOMAIN moves = 1..Len(moves) /\ DOMAIN moves' = 1..n
        /\ moves'[n] = move /\ \A i \in 1..Len(moves) : moves'[i] = moves[i]
    <2> HIDE DEF move
    <2>1. moves' = Append(moves, move) /\ moves \in Seq(MoveRow)
      BY DEF CountsTypeOK, move
    <2>2. QED
      BY <1>1, <2>1
  <1> HIDE DEF move
  <1>3. 1..n = 1..Len(moves) \cup {n} /\ n \notin 1..Len(moves) /\ n \in 1..n
    BY <1>2
  <1> HIDE DEF n
  <1>4. Shown' = Shown \cup {n} /\ n \notin Shown
    BY <1>1, <1>2, <1>3 DEF Shown
  <1>5. \A i \in Shown' : moves'[i].count = 1
    BY <1>1, <1>2, <1>4 DEF Shown, CountsTypeOK
  <1>6. /\ MoveCount'[n] = 1
        /\ \A i \in Shown : MoveCount'[i] = MoveCount[i] /\ MoveCount[i] = 1
    BY <1>1, <1>2, <1>3 DEF MoveCount, Shown, CountsTypeOK
  <1>7. IsFiniteSet(Shown) /\ IsFiniteSet(Shown \cup {n})
    BY MovesFinite, FS_AddElement
  <1>8. SumFunctionOnSet(MoveCount', Shown') = MoveCount'[n] + SumFunctionOnSet(MoveCount', Shown)
    <2>1. (Shown \cup {n}) \ {n} = Shown
      BY <1>4
    <2>2. \A x \in Shown \cup {n} : MoveCount'[x] \in Nat
      BY <1>6
    <2>3. QED
      BY <1>4, <1>7, <2>1, <2>2, SumWithout
  <1>9. SumFunctionOnSet(MoveCount', Shown) = SumFunctionOnSet(MoveCount, Shown)
    BY <1>6, <1>7, SumSame
  <1>10. SumFunctionOnSet(MoveCount, Shown) \in Nat
    <2>1. \A x \in Shown : MoveCount[x] \in Nat
      BY <1>6
    <2>2. QED
      BY <1>7, <2>1, SumType
  <1>11. SumFunctionOnSet(MoveCount', Shown') = SumFunctionOnSet(MoveCount, Shown) + 1
    <2>1. MoveCount'[n] = 1
      BY <1>6
    <2>2. QED
      BY <1>8, <1>9, <1>10, <2>1
  <1>12. QED
    BY <1>2, <1>5, <1>11

LEMMA AppendMoveCounts == CountsIInv /\ RecordsIInv' /\ AppendMove => CountsIInv'
  <1> SUFFICES ASSUME CountsIInv, RecordsIInv', AppendMove PROVE CountsIInv'
    OBVIOUS
  <1>1. /\ handling = "move" /\ handling' = "count"
        /\ UNCHANGED <<now, status, statistics, clearing, overlapped, counted>>
        /\ moves' = IF status.human = 1 THEN Append(moves, [row |-> now, count |-> 1])
                     ELSE moves
    BY DEF AppendMove, windowVars
  <1>2. CountsTypeOK /\ now # 0 /\ status.human \in {0, 1}
    BY <1>1 DEF CountsIInv, CountsTypeOK, RecordsIInv, RecordsTypeOK, Status
  <1>3. /\ moves' \in Seq(MoveRow)
        /\ \A i \in Shown' : moves'[i].count = 1
        /\ Charted' = Charted + status.human
    <2>1. CASE status.human = 1
      BY <1>1, <1>2, <2>1, MoveAppended DEF Charted
    <2>2. CASE status.human = 0
      <3>1. moves' = moves
        BY <1>1, <2>2
      <3>2. Shown' = Shown /\ MoveCount' = MoveCount
        BY <3>1 DEF Shown, MoveCount
      <3>3. Charted' = Charted /\ Charted \in Nat
        BY <3>2, CountsAreNumbers DEF Charted, CountsIInv, RecordsIInv
      <3>4. QED
        BY <1>2, <2>2, <3>1, <3>2, <3>3 DEF CountsTypeOK
    <2>3. QED
      BY <1>2, <2>1, <2>2
  <1>4. CountsTypeOK'
    BY <1>1, <1>2, <1>3 DEF CountsTypeOK
  <1>5. MoveStatus' = MoveStatus
    BY DEF MoveStatus
  <1>6. Total' = Total /\ MovesCounted' = MovesCounted
    BY <1>1, <1>5 DEF Total, MovesCounted
  <1>7. /\ InHandNow = 1 /\ NotMoved = 1 /\ HalfMoved = 0
        /\ InHandNow' = 1 /\ NotMoved' = 0 /\ HalfMoved' = status.human
    BY <1>1 DEF InHandNow, NotMoved, HalfMoved
  <1>8. CountsAgree'
    <2>1. /\ Total \in Nat /\ MovesCounted \in Nat /\ Charted \in Nat
          /\ counted \in Nat /\ overlapped \in Nat
      BY CountsAreNumbers DEF CountsIInv, RecordsIInv
    <2>2. QED
      BY <1>1, <1>2, <1>3, <1>6, <1>7, <2>1 DEF CountsIInv, CountsAgree
  <1>9. QED
    BY <1>4, <1>8 DEF CountsIInv

LEMMA CountRowCounts == CountsIInv /\ RecordsIInv' /\ CountRow => CountsIInv'
  <1> SUFFICES ASSUME CountsIInv, RecordsIInv', CountRow PROVE CountsIInv'
    OBVIOUS
  <1>1. /\ handling = "count" /\ handling' = "idle" /\ counted' = counted + 1
        /\ UNCHANGED <<now, moves, clearing, overlapped>>
        /\ statistics' = [statistics EXCEPT ![status] = @ + 1]
    BY DEF CountRow
  <1>2. CountsTypeOK /\ now # 0 /\ status \in Status /\ status.human \in {0, 1}
    BY <1>1 DEF CountsIInv, CountsTypeOK, RecordsIInv, RecordsTypeOK, Status
  <1>3. Shown' = Shown /\ MoveCount' = MoveCount /\ MoveStatus' = MoveStatus
    BY <1>1 DEF Shown, MoveCount, MoveStatus
  <1>4. /\ Total \in Nat /\ MovesCounted \in Nat /\ Charted \in Nat
        /\ counted \in Nat /\ overlapped \in Nat
    BY CountsAreNumbers DEF CountsIInv, RecordsIInv
  <1>5. /\ statistics' \in [Status -> Nat]
        /\ Total' = Total + 1
        /\ MovesCounted' = MovesCounted + status.human
    BY <1>1, <1>2, <1>3, <1>4, SumsGrow DEF Total, MovesCounted
  <1>6. Charted' = Charted
    BY <1>3 DEF Charted
  <1>7. CountsTypeOK'
    BY <1>1, <1>2, <1>3, <1>4, <1>5 DEF CountsTypeOK
  <1>8. /\ InHandNow = 1 /\ NotMoved = 0 /\ HalfMoved = status.human
        /\ InHandNow' = 0 /\ NotMoved' = 0 /\ HalfMoved' = 0
    BY <1>1 DEF InHandNow, NotMoved, HalfMoved
  <1>9. CountsAgree'
    BY <1>1, <1>2, <1>4, <1>5, <1>6, <1>8 DEF CountsIInv, CountsAgree
  <1>10. QED
    BY <1>7, <1>9 DEF CountsIInv

LEMMA PressCounts == CountsIInv /\ RecordsIInv' /\ Press => CountsIInv'
  <1> SUFFICES ASSUME CountsIInv, RecordsIInv', Press PROVE CountsIInv'
    OBVIOUS
  <1>1. /\ UNCHANGED <<now, moves, statistics, handling>> /\ counted' = 0
        /\ clearing' = <<"moves", "records", "status", "statistics">>
        /\ overlapped' = IF handling = "idle" THEN 0 ELSE 1
    BY DEF Press
  <1>2. Shown' = Shown
    BY <1>1 DEF Shown
  <1>3. CountsTypeOK'
    BY <1>1, <1>2 DEF CountsIInv, CountsTypeOK
  <1>4. clearing' # <<>> /\ Head(clearing') = "moves"
    BY <1>1
  <1>5. counted' + InHandNow' <= overlapped'
    BY <1>1 DEF InHandNow
  <1>6. QED
    BY <1>3, <1>4, <1>5 DEF CountsIInv, CountsAgree

LEMMA ClearNextCounts == CountsIInv /\ RecordsIInv' /\ ClearNext => CountsIInv'
  <1> SUFFICES ASSUME CountsIInv, RecordsIInv', ClearNext PROVE CountsIInv'
    OBVIOUS
  <1> DEFINE name  == Head(clearing)
             empty == [s \in Status |-> 0]
  <1>1. /\ UNCHANGED <<now, handling, overlapped, counted>> /\ CountsTypeOK /\ clearing \in Clearings
        /\ clearing # <<>> /\ clearing' = Tail(clearing) /\ ClearGlobal(name)
    BY DEF ClearNext, CountsIInv, RecordsIInv, RecordsTypeOK
  <1>2. statistics' = IF name = "statistics" THEN empty ELSE statistics
    BY <1>1 DEF ClearGlobal
  <1>3. moves' = IF name # "moves" THEN moves
                 ELSE [i \in DOMAIN moves |-> [moves[i] EXCEPT !.row = 0, !.count = 0]]
    BY <1>1 DEF ClearGlobal
  <1>4. /\ name = "statistics" <=> clearing' = <<>>
        /\ clearing' # <<>> => Head(clearing') # "moves"
    <2>1. CASE clearing = <<"moves", "records", "status", "statistics">>
      <3>1. clearing' = <<"records", "status", "statistics">> /\ name = "moves"
        BY <1>1, <2>1
      <3>2. QED
        BY <3>1
    <2>2. CASE clearing = <<"records", "status", "statistics">>
      <3>1. clearing' = <<"status", "statistics">> /\ name = "records"
        BY <1>1, <2>2
      <3>2. QED
        BY <3>1
    <2>3. CASE clearing = <<"status", "statistics">>
      <3>1. clearing' = <<"statistics">> /\ name = "status"
        BY <1>1, <2>3
      <3>2. QED
        BY <3>1
    <2>4. CASE clearing = <<"statistics">>
      BY <1>1, <2>4
    <2>5. QED
      BY <1>1, <2>1, <2>2, <2>3, <2>4 DEF Clearings
  <1> HIDE DEF name
  <1>5. moves' \in Seq(MoveRow) /\ (\A i \in Shown' : moves'[i].count = 1)
        /\ (name = "moves" => Shown' = {}) /\ (name # "moves" => Shown' = Shown)
    <2>1. CASE name # "moves"
      <3>1. moves' = moves
        BY <1>3, <2>1
      <3>2. Shown' = Shown
        BY <3>1 DEF Shown
      <3>3. QED
        BY <1>1, <2>1, <3>1, <3>2 DEF CountsTypeOK
    <2>2. CASE name = "moves"
      <3>1. \A i \in DOMAIN moves :
              LET cleared == [moves[i] EXCEPT !.row = 0, !.count = 0]
              IN  cleared \in MoveRow /\ cleared.row = 0
        <4> TAKE i \in DOMAIN moves
        <4>1. moves[i] \in MoveRow /\ 0 \in 0..MaxRadarRows
          BY <1>1, MovesFinite, RecordsAssumption DEF RecordsAssumption
        <4>2. QED
          BY <4>1 DEF MoveRow
      <3>2. /\ DOMAIN moves' = DOMAIN moves
            /\ \A i \in DOMAIN moves' : moves'[i] \in MoveRow /\ moves'[i].row = 0
        BY <1>3, <2>2, <3>1
      <3>3. moves' \in Seq(MoveRow)
        <4>1. moves' \in [1..Len(moves) -> MoveRow] /\ Len(moves) \in Nat
          BY <1>1, <1>3, <2>2, <3>2, MovesFinite
        <4>2. QED
          BY <4>1
      <3>4. Shown' = {}
        BY <3>2 DEF Shown
      <3>5. QED
        BY <2>2, <3>3, <3>4
    <2>3. QED
      BY <2>1, <2>2
  <1>6. CountsTypeOK'
    <2>1. empty \in [Status -> Nat]
      OBVIOUS
    <2>2. QED
      BY <1>1, <1>2, <1>5, <2>1 DEF CountsTypeOK
  <1>7. /\ Charted \in Nat /\ counted \in Nat /\ overlapped \in Nat
        /\ NotMoved \in {0, 1} /\ NotMoved <= InHandNow /\ InHandNow \in {0, 1}
    BY CountsAreNumbers DEF CountsIInv, RecordsIInv
  <1>8. NotMoved' = NotMoved /\ InHandNow' = InHandNow
    BY <1>1 DEF NotMoved, InHandNow
  <1>9. counted + InHandNow <= overlapped
    BY <1>1 DEF CountsIInv, CountsAgree
  <1>10. Charted' + NotMoved <= overlapped /\ Charted' \in Nat
    <2>1. CASE name = "moves"
      <3>1. Charted' = 0
        BY <1>5, <2>1, SumEmpty DEF Charted
      <3>2. QED
        BY <1>7, <1>9, <3>1
    <2>2. CASE name # "moves"
      <3>1. moves' = moves /\ Shown' = Shown
        BY <1>3, <1>5, <2>2
      <3>2. Charted' = Charted
        BY <3>1 DEF Charted, MoveCount
      <3>3. QED
        BY <1>1, <1>7, <2>2, <3>2 DEF CountsIInv, CountsAgree, name
    <2>3. QED
      BY <2>1, <2>2
  <1>11. CASE clearing' # <<>>
    <2>1. CountsAgree'
      BY <1>1, <1>8, <1>9, <1>10, <1>11 DEF CountsAgree
    <2>2. QED
      BY <1>6, <2>1 DEF CountsIInv
  <1>12. CASE clearing' = <<>>
    <2>1. statistics' = empty
      BY <1>2, <1>4, <1>12
    <2>2. /\ \A s \in Status : statistics'[s] = 0
          /\ \A s \in MoveStatus : statistics'[s] = 0
          /\ MoveStatus' = MoveStatus
      BY <2>1 DEF MoveStatus
    <2>3. Total' = 0
      BY <2>2, StatusFinite, SumZeros DEF Total
    <2>4. MovesCounted' = 0
      BY <2>2, StatusFinite, SumZeros DEF MovesCounted
    <2>5. HalfMoved' \in {0, 1} /\ HalfMoved' <= InHandNow'
      BY DEF HalfMoved, InHandNow, RecordsIInv, RecordsTypeOK, Status
    <2>6. CountsAgree'
      <3>1. Total' \in (counted' - overlapped')..counted'
        BY <1>1, <1>7, <1>9, <2>3
      <3>2. HalfMoved' <= overlapped
        <4>1. HalfMoved' <= InHandNow /\ InHandNow <= overlapped
          BY <1>7, <1>8, <1>9, <2>5
        <4>2. HalfMoved' \in Int /\ InHandNow \in Int /\ overlapped \in Int
          BY <1>7, <2>5
        <4>3. \A a, b, c \in Int : a <= b /\ b <= c => a <= c
          OBVIOUS
        <4>4. QED
          BY <4>1, <4>2, <4>3
      <3>3. Charted' <= overlapped
        <4>1. \A a, b, c \in Int : a + b <= c /\ 0 <= b => a <= c
          OBVIOUS
        <4>2. Charted' \in Int /\ NotMoved \in Int /\ overlapped \in Int /\ 0 <= NotMoved
          BY <1>7, <1>10
        <4>3. QED
          BY <1>10, <4>1, <4>2
      <3>4. overlapped' = overlapped
        BY <1>1
      <3>5. Charted' \in (MovesCounted' + HalfMoved' - overlapped')
                            ..(MovesCounted' + HalfMoved' + overlapped')
        <4>1. \A a, h, n \in Int : 0 <= a /\ a <= n /\ 0 <= h /\ h <= n
                                     => a \in (0 + h - n)..(0 + h + n)
          OBVIOUS
        <4>2. /\ Charted' \in Int /\ HalfMoved' \in Int /\ overlapped \in Int
              /\ 0 <= Charted' /\ 0 <= HalfMoved'
          BY <1>7, <1>10, <2>5
        <4>3. Charted' \in (0 + HalfMoved' - overlapped)..(0 + HalfMoved' + overlapped)
          BY <3>2, <3>3, <4>1, <4>2
        <4>4. QED
          BY <2>4, <3>4, <4>3
      <3>6. QED
        BY <1>12, <3>1, <3>5 DEF CountsAgree
    <2>7. QED
      BY <1>6, <2>6 DEF CountsIInv
  <1>13. QED
    BY <1>11, <1>12

LEMMA CountsInvariant == RecordsSpec => []CountsIInv
  <1>1. RecordsInit => CountsIInv
    <2> SUFFICES ASSUME RecordsInit PROVE CountsIInv
      OBVIOUS
    <2>1. RecordsIInv
      BY RecordsInitHolds
    <2>2. /\ now = 0 /\ handling = "idle" /\ clearing = <<>> /\ counted = 0 /\ moves = <<>>
          /\ statistics = [s \in Status |-> 0]
      BY DEF RecordsInit
    <2>3. Shown = {}
      BY <2>2 DEF Shown
    <2>4. CountsTypeOK
      BY <2>2, <2>3, RecordsAssumption DEF CountsTypeOK, RecordsAssumption
    <2>5. /\ \A s \in Status : statistics[s] = 0
          /\ \A s \in MoveStatus : statistics[s] = 0
      BY <2>2 DEF MoveStatus
    <2>6. Total = 0
      BY <2>5, StatusFinite, SumZeros DEF Total
    <2>7. MovesCounted = 0
      BY <2>5, StatusFinite, SumZeros DEF MovesCounted
    <2>8. Charted = 0
      BY <2>3, SumEmpty DEF Charted
    <2>9. CountsAgree
      BY <2>2, <2>6, <2>7, <2>8 DEF CountsAgree, HalfMoved, RecordsInit
    <2>10. QED
      BY <2>1, <2>4, <2>9 DEF CountsIInv
  <1>2. CountsIInv /\ RecordsIInv' /\ [RecordsNext]_recordVars => CountsIInv'
    <2> SUFFICES ASSUME CountsIInv, RecordsIInv', [RecordsNext]_recordVars PROVE CountsIInv'
      OBVIOUS
    <2>1. now \in 0..MaxRadarRows /\ MaxRadarRows \in Nat /\ (handling # "idle" => now # 0)
      BY RecordsAssumption DEF CountsIInv, CountsTypeOK, RecordsAssumption
    <2>2. CASE StoreRow
      BY <2>1, <2>2, CountsUntouched DEF StoreRow, windowVars
    <2>3. CASE RecordChange \/ TestStart \/ ParseStart
      <3>1. /\ UNCHANGED <<now, moves, statistics, clearing, counted, overlapped>>
            /\ handling \in {"record", "spend", "parse"}
            /\ handling' \in {"spend", "parse", "move", "aborted"}
        BY <2>3 DEF RecordChange, TestStart, ParseStart, windowVars
      <3>2. /\ InHandNow = 1 /\ InHandNow' = 1 /\ HalfMoved = 0 /\ HalfMoved' = 0
            /\ NotMoved = 1 /\ NotMoved' \in {0, 1}
        BY <3>1 DEF InHandNow, HalfMoved, NotMoved
      <3>3. InHandNow' = InHandNow /\ HalfMoved' = HalfMoved /\ NotMoved' <= NotMoved
        BY <3>2
      <3>4. now' \in 0..MaxRadarRows /\ now' # 0
        BY <2>1, <3>1
      <3>5. QED
        BY <3>1, <3>3, <3>4, CountsUntouched
    <2>4. CASE AppendMove \/ CountRow
      BY <2>4, AppendMoveCounts, CountRowCounts
    <2>5. CASE Press
      BY <2>5, PressCounts
    <2>6. CASE ClearNext
      BY <2>6, ClearNextCounts
    <2>7. CASE ShowThreshold \/ TypeThreshold \/ UNCHANGED recordVars
      <3>1. UNCHANGED <<now, status, moves, statistics, handling, clearing, counted, overlapped>>
        BY <2>7 DEF ShowThreshold, TypeThreshold, recordVars
      <3>2. /\ InHandNow' = InHandNow /\ HalfMoved' = HalfMoved
            /\ NotMoved' = NotMoved /\ NotMoved \in {0, 1}
        BY <3>1 DEF InHandNow, HalfMoved, NotMoved
      <3>3. NotMoved' <= NotMoved
        BY <3>2
      <3>4. QED
        BY <2>1, <3>1, <3>2, <3>3, CountsUntouched
    <2>8. QED
      BY <2>2, <2>3, <2>4, <2>5, <2>6, <2>7 DEF RecordsNext, radar_data_handle
  <1>3. QED
    BY <1>1, <1>2, RecordsInvariant, PTL DEF RecordsSpec

(* What the charts read from the clock of a move that is shown.             *)
LEMMA ShownClock ==
  ASSUME CountsTypeOK
  PROVE  \A i \in Shown :
           /\ moves[i].row \in 1..MaxRadarRows
           /\ ClockOf[moves[i].row]["hour"] \in 0..59
           /\ ClockOf[moves[i].row]["minute"] \in 0..59
  <1> TAKE i \in Shown
  <1>1. moves[i] \in MoveRow /\ moves[i].row # 0
    BY MovesFinite DEF Shown
  <1>2. moves[i].row \in 1..MaxRadarRows
    BY <1>1, RecordsAssumption DEF MoveRow, RecordsAssumption
  <1>3. ClockOf[moves[i].row] \in
          [date : Nat, hour : 0..23, minute : 0..59, second : 0..59]
    BY <1>2, RecordsAssumption DEF RecordsAssumption
  <1>4. QED
    BY <1>2, <1>3

(* The bars of a day or an hour are parts of its moves.                     *)
LEMMA BarsAre ==
  ASSUME CountsTypeOK, NEW mode \in {"day", "hour"}, NEW time
  PROVE  /\ Bars(mode, time) = SumFunctionOnSet(MoveCount, Moves(mode, time))
         /\ \A n \in 0..59 : Chart(mode, time)[n] = SumFunctionOnSet(MoveCount, Bar(mode, time, n))
  <1> DEFINE part == [n \in 0..59 |-> Bar(mode, time, n)]
             g    == Chart(mode, time)
             All  == UNION {part[n] : n \in 0..59}
  <1>1. g = [n \in 0..59 |-> SumFunctionOnSet(MoveCount, Bar(mode, time, n))]
    BY DEF Chart, MoveCount
  <1>2. Moves(mode, time) \subseteq Shown
    BY DEF Moves, Shown
  <1>3. Finer[mode] \in {"hour", "minute"}
    BY DEF Finer
  <1>4. \A i \in Moves(mode, time) : ClockOf[moves[i].row][Finer[mode]] \in 0..59
    BY <1>2, <1>3, ShownClock
  <1>5. All = Moves(mode, time)
    BY <1>4 DEF Bar
  <1>6. part \in [0..59 -> SUBSET Shown]
    BY <1>2 DEF Bar
  <1>7. \A j, k \in 0..59 : j # k => part[j] \cap part[k] = {}
    BY DEF Bar
  <1>8. \A n \in 0..59 : g[n] = SumFunctionOnSet(MoveCount, part[n])
    BY <1>1
  <1>9. IsFiniteSet(Shown) /\ \A i \in Shown : MoveCount[i] \in Nat
    BY MovesFinite DEF Shown
  <1>10. SumFunctionOnSet(g, 0..59) = SumFunctionOnSet(MoveCount, All)
    <2> DEFINE K == 0..59
    <2>1. IsFiniteSet(K)
      <3>1. \A n \in Int : IsFiniteSet(0..n)
        BY FS_Interval
      <3>2. 59 \in Int
        OBVIOUS
      <3>3. QED
        BY <3>1, <3>2
    <2> HIDE DEF g, part
    <2>2. /\ part \in [K -> SUBSET Shown]
          /\ \A j, k \in K : j # k => part[j] \cap part[k] = {}
          /\ \A n \in K : g[n] = SumFunctionOnSet(MoveCount, part[n])
      BY <1>6, <1>7, <1>8
    <2>3. SUFFICES SumFunctionOnSet(g, K)
                     = SumFunctionOnSet(MoveCount, UNION {part[n] : n \in K})
      OBVIOUS
    <2> HIDE DEF K
    <2>4. QED
      BY <1>9, <2>1, <2>2, SumParts
  <1>11. DOMAIN g = 0..59
    BY <1>1
  <1>12. Bars(mode, time) = SumFunctionOnSet(g, 0..59)
    BY <1>11 DEF Bars, SumFunction
  <1>13. QED
    BY <1>1, <1>5, <1>10, <1>12

(* An hour's bar of its day is the hour.                                    *)
LEMMA HourOfDay ==
  ASSUME NEW time \in [date : Nat, hour : 0..23, minute : 0..59, second : 0..59]
  PROVE  Bar("day", time, time.hour) = Moves("hour", time)
  <1>1. /\ Within["day"] = {"date"} /\ Within["hour"] = {"date", "hour"}
        /\ Finer["day"] = "hour" /\ time["hour"] = time.hour
    BY DEF Within, Finer
  <1>2. QED
    BY <1>1 DEF Bar, Moves

(* All days together have all moves.                                        *)
LEMMA DaysTogether ==
  ASSUME CountsTypeOK
  PROVE  LET Times == {ClockOf[i] : i \in 1..MaxRadarRows}
             Days  == {[date |-> time.date] : time \in Times}
         IN  SumFunction([day \in Days |-> Bars("day", day)])
               = SumFunctionOnSet(MoveCount, Shown)
  <1> DEFINE Times == {ClockOf[i] : i \in 1..MaxRadarRows}
             Days  == {[date |-> time.date] : time \in Times}
             part  == [day \in Days |-> Moves("day", day)]
             g     == [day \in Days |-> Bars("day", day)]
             All   == UNION {part[day] : day \in Days}
  <1>1. MaxRadarRows \in Nat
    BY RecordsAssumption DEF RecordsAssumption
  <1>2. IsFiniteSet(Days)
    <2> DEFINE dayOf == [i \in 1..MaxRadarRows |-> [date |-> ClockOf[i].date]]
    <2>1. dayOf \in Surjection(1..MaxRadarRows, Days)
      BY DEF Surjection
    <2>2. IsFiniteSet(1..MaxRadarRows)
      BY <1>1, FS_Interval
    <2> HIDE DEF Days, dayOf
    <2>3. QED
      BY <2>1, <2>2, FS_Surjection
  <1>3. \A day \in Days : Moves("day", day) =
          {i \in Shown : ClockOf[moves[i].row]["date"] = day["date"]}
    <2>1. Within["day"] = {"date"}
      BY DEF Within
    <2>2. QED
      BY <2>1 DEF Moves, Shown
  <1>4. part \in [Days -> SUBSET Shown]
    BY <1>3
  <1>5. \A j, k \in Days : j # k => part[j] \cap part[k] = {}
    <2>1. \A j, k \in Days : j["date"] = k["date"] => j = k
      OBVIOUS
    <2> HIDE DEF Days
    <2>2. QED
      BY <1>3, <2>1
  <1>6. All = Shown
    <2>1. ASSUME NEW i \in Shown PROVE \E day \in Days : i \in part[day]
      <3>1. moves[i].row \in 1..MaxRadarRows
        BY <2>1, ShownClock
      <3> DEFINE day == [date |-> ClockOf[moves[i].row].date]
      <3>2. day \in Days
        BY <3>1
      <3>3. ClockOf[moves[i].row]["date"] = day["date"]
        OBVIOUS
      <3> HIDE DEF day, Days
      <3>4. QED
        BY <1>3, <3>2, <3>3
    <2> HIDE DEF Days
    <2>2. QED
      BY <1>4, <2>1
  <1>7. \A day \in Days : g[day] = SumFunctionOnSet(MoveCount, part[day])
    <2> HIDE DEF Days
    <2>1. QED
      BY BarsAre
  <1>8. IsFiniteSet(Shown) /\ \A i \in Shown : MoveCount[i] \in Nat
    BY MovesFinite DEF Shown
  <1>9. SumFunctionOnSet(g, Days) = SumFunctionOnSet(MoveCount, All)
    <2> HIDE DEF g, part, Days
    <2>1. QED
      BY <1>2, <1>4, <1>5, <1>7, <1>8, SumParts
  <1>10. DOMAIN g = Days
    OBVIOUS
  <1>11. SumFunction(g) = SumFunctionOnSet(g, Days)
    BY <1>10 DEF SumFunction
  <1>12. QED
    BY <1>6, <1>9, <1>11

(* Between rows and clearings the statistics count every row since the last  *)
(* clearing and the charts add up to their moves, for any number of rows at  *)
(* any times; rows and the button's clearing interleave in any way, and only *)
(* rows whose handling overlapped the last clearing can be missing, or on    *)
(* one side only.                                                           *)
THEOREM StatisticsAgreeAlways == RecordsSpec => []StatisticsAgree
  <1>1. CountsIInv => StatisticsAgree
    <2> SUFFICES ASSUME CountsIInv PROVE StatisticsAgree
      OBVIOUS
    <2> DEFINE Times == {ClockOf[i] : i \in 1..MaxRadarRows}
               Days  == {[date |-> time.date] : time \in Times}
    <2>1. CountsTypeOK
      BY DEF CountsIInv
    <2>2. SumFunction(statistics) = Total
      BY <2>1 DEF SumFunction, CountsTypeOK, Total
    <2>3. SumFunction([day \in Days |-> Bars("day", day)]) = Charted
      BY <2>1, DaysTogether DEF Charted
    <2>4. SumFunctionOnSet(statistics, {s \in Status : s.human = 1}) = MovesCounted
      BY DEF MovesCounted, MoveStatus
    <2>5. ASSUME handling = "idle", clearing = <<>>
          PROVE  /\ Total \in (counted - overlapped)..counted
                 /\ Charted \in (MovesCounted - overlapped)..(MovesCounted + overlapped)
      <3>1. HalfMoved = 0
        BY <2>5 DEF HalfMoved
      <3>2. /\ MovesCounted \in Nat /\ overlapped \in Nat /\ Total \in Nat
            /\ counted \in Nat /\ Charted \in Nat
        BY CountsAreNumbers DEF CountsIInv, RecordsIInv
      <3>3. QED
        BY <2>5, <3>1, <3>2 DEF CountsIInv, CountsAgree
    <2>6. ASSUME NEW time \in Times PROVE Chart("day", time)[time.hour] = Bars("hour", time)
      <3>1. time \in [date : Nat, hour : 0..23, minute : 0..59, second : 0..59]
        BY RecordsAssumption DEF RecordsAssumption
      <3>2. time.hour \in 0..59
        BY <3>1
      <3> HIDE DEF Times
      <3>3. Chart("day", time)[time.hour]
              = SumFunctionOnSet(MoveCount, Bar("day", time, time.hour))
        BY <2>1, <3>2, BarsAre
      <3>4. Bars("hour", time) = SumFunctionOnSet(MoveCount, Moves("hour", time))
        BY <2>1, BarsAre
      <3>5. QED
        BY <3>1, <3>3, <3>4, HourOfDay
    <2> DEFINE inCharts == SumFunction([day \in Days |-> Bars("day", day)])
               inStatistics == SumFunctionOnSet(statistics, {s \in Status : s.human = 1})
    <2>7. /\ handling = "idle" /\ clearing = <<>> =>
               /\ SumFunction(statistics) \in (counted - overlapped)..counted
               /\ inCharts \in (inStatistics - overlapped)..(inStatistics + overlapped)
          /\ \A time \in Times : Chart("day", time)[time.hour] = Bars("hour", time)
      <3>1. inCharts = Charted /\ inStatistics = MovesCounted
        BY <2>3, <2>4
      <3> HIDE DEF inCharts, inStatistics, Times
      <3>2. QED
        BY <2>2, <2>5, <2>6, <3>1
    <2>8. QED
      BY <2>7 DEF StatisticsAgree
  <1>2. QED
    BY <1>1, CountsInvariant, PTL

=============================================================================
