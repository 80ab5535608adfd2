----------------------------- MODULE HostConfig -----------------------------
(***************************************************************************)
(* The host tool's configuration file and router button:                   *)
(* config/gui_config.json, the check boxes, command_boot and               *)
(* command_router_connect of DataGraphicalWindow in esp_csi_tool.py.        *)
(*                                                                         *)
(* A handler reads the file, opens it for writing, which truncates it, and  *)
(* dumps the changed configuration.  Whatever stops the tool in between     *)
(* leaves a torn file behind, and no later start can read it; the router    *)
(* button puts its command into the serial process's queue before that.     *)
(***************************************************************************)
EXTENDS Sequences

CONSTANTS SSIDs,   \* router names
          Torn     \* the file between open(..., "w") and the dump

NoSsid == ""

VARIABLES
  file,        \* gui_config.json
  app,         \* "down" or "up"
  todo,        \* panels whose handler __init__ still has to call
  dump,        \* the configuration that is being dumped, at most one
  checked,     \* the boxes that are checked
  panels,      \* panels that are shown, with their timers running
  ssid,        \* lineEdit_router_ssid
  button,      \* text of pushButton_router_connect
  boot,        \* timer_boot_command is running
  link,        \* the router that the device was last told to connect to
  asking,      \* the router button's command is put, and the router not yet saved
  lastAsked,   \* history: ssid when the router button last put its command
  lastSaved,   \* history: ssid when its handler last opened the file for writing
  missed,      \* history: the tool stopped between the two, after the last press
  touched      \* history: the user edited, checked or pressed before boot

askVars    == <<asking, lastAsked, lastSaved, missed>>
configVars == <<file, app, todo, dump, checked, panels, ssid, button, boot,
                link, askVars, touched>>

Panels == {"raw_data", "radar_model", "eigenvalues_table"}
Boxes  == Panels \cup {"auto_connect"}

Configurations == [checked : SUBSET Boxes, ssid : SSIDs \cup {NoSsid}]

ASSUME ConfigAssumption == NoSsid \notin SSIDs /\ Torn \notin Configurations

(* The tool runs its event loop and no handler is active.                   *)
Running == app = "up" /\ todo = <<>> /\ dump = <<>> /\ ~ asking

ConfigInit ==
  /\ file \in Configurations
  /\ app = "down" /\ todo = <<>> /\ dump = <<>>
  /\ checked = {} /\ panels = {} /\ ssid = NoSsid
  /\ button = "connect" /\ boot = FALSE /\ link = NoSsid
  /\ asking = FALSE /\ lastAsked = file.ssid /\ lastSaved = file.ssid
  /\ missed = FALSE /\ touched = FALSE

-----------------------------------------------------------------------------
(* __init__: widgets from the file, the boot timer, and a call of the three  *)
(* panels' handlers.  The serial process restarts the device.  A torn file   *)
(* does not parse, and the tool does not start.                             *)
Start ==
  /\ app = "down" /\ file # Torn
  /\ app' = "up" /\ todo' = <<"raw_data", "radar_model", "eigenvalues_table">>
  /\ checked' = file.checked /\ ssid' = file.ssid
  /\ button' = "connect" /\ boot' = TRUE /\ link' = NoSsid
  /\ panels' = {} /\ touched' = FALSE
  /\ UNCHANGED <<file, dump, askVars>>

(* The file is read, changed in memory, and opened for writing.             *)
Save(config) == file' = Torn /\ dump' = <<config>>

WithBox(box) ==
  [file EXCEPT !.checked = IF box \in checked' THEN @ \cup {box} ELSE @ \ {box}]

(* The end of a handler: json.dump, and the file is closed.                 *)
EndOfHandler ==
  /\ app = "up" /\ dump # <<>>
  /\ file' = Head(dump) /\ dump' = <<>>
  /\ UNCHANGED <<app, todo, checked, panels, ssid, button, boot, link,
                 askVars, touched>>

(* checkBox_raw_data_show and its two siblings.                             *)
ShowPanel(box) ==
  /\ panels' = IF box \in checked' THEN panels \cup {box} ELSE panels \ {box}
  /\ Save(WithBox(box))

InitShows ==
  /\ app = "up" /\ dump = <<>> /\ todo # <<>>
  /\ checked' = checked
  /\ ShowPanel(Head(todo))
  /\ todo' = Tail(todo)
  /\ UNCHANGED <<app, ssid, button, boot, link, askVars, touched>>

Toggle(box) ==
  checked' = IF box \in checked THEN checked \ {box} ELSE checked \cup {box}

(* Mutation: the box is connected to a handler that does not save.          *)
TogglePanelUnsaved(box) ==
  /\ Running
  /\ Toggle(box)
  /\ panels' = IF box \in checked' THEN panels \cup {box} ELSE panels \ {box}
  /\ UNCHANGED <<file, app, todo, dump, ssid, button, boot, link, askVars, touched>>

TogglePanel(box) ==
  /\ Running
  /\ Toggle(box)
  /\ ShowPanel(box)
  /\ UNCHANGED <<app, todo, ssid, button, boot, link, askVars, touched>>

(* show_router_auto_connect.                                                *)
ToggleAutoConnect ==
  /\ Running
  /\ Toggle("auto_connect")
  /\ Save(WithBox("auto_connect"))
  /\ touched' = (touched \/ boot)
  /\ UNCHANGED <<app, todo, panels, ssid, button, boot, link, askVars>>

EditSsid ==
  /\ Running
  /\ ssid' \in SSIDs \cup {NoSsid}
  /\ touched' = (touched \/ boot)
  /\ UNCHANGED <<file, app, todo, dump, checked, panels, button, boot, link, askVars>>

(* command_router_connect: the button's text decides which command is put.   *)
(* wifi_config refuses an empty name.                                       *)
RouterConnect ==
  /\ \/ /\ button = "connect"
        /\ button' = "disconnect"
        /\ link' = IF ssid = NoSsid THEN link ELSE ssid
     \/ /\ button = "disconnect"
        /\ button' = "connect"
        /\ link' = NoSsid
  /\ asking' = TRUE /\ lastAsked' = ssid
  /\ UNCHANGED <<file, dump, lastSaved, missed>>

PressRouter ==
  /\ Running
  /\ RouterConnect
  /\ touched' = (touched \/ boot)
  /\ UNCHANGED <<app, todo, checked, panels, ssid, boot>>

(* Mutation: the name is not saved when the button disconnects.             *)
SaveRouterOnce ==
  /\ app = "up" /\ asking
  /\ Save(IF button = "disconnect" THEN [file EXCEPT !.ssid = ssid] ELSE file)
  /\ asking' = FALSE /\ lastSaved' = ssid /\ missed' = FALSE
  /\ UNCHANGED <<app, todo, checked, panels, ssid, button, boot, link, lastAsked, touched>>

(* Its second half.  The put before it may have waited for room, and until   *)
(* here the file names the router of an earlier press.                      *)
SaveRouter ==
  /\ app = "up" /\ asking
  /\ Save([file EXCEPT !.ssid = ssid])
  /\ asking' = FALSE /\ lastSaved' = ssid /\ missed' = FALSE
  /\ UNCHANGED <<app, todo, checked, panels, ssid, button, boot, link, lastAsked, touched>>

(* command_boot: two seconds after the start, once.                         *)
Boot ==
  /\ Running /\ boot
  /\ boot' = FALSE
  /\ IF "auto_connect" \in checked /\ ssid # NoSsid
     THEN RouterConnect
     ELSE UNCHANGED <<file, dump, button, link, askVars>>
  /\ UNCHANGED <<app, todo, checked, panels, ssid, touched>>

(* The window is closed, or the tool ends at any moment: another thread's    *)
(* exception or sys.exit(), a signal, a power failure.                      *)
Stop ==
  /\ app = "up"
  /\ app' = "down" /\ dump' = <<>> /\ todo' = <<>> /\ boot' = FALSE
  /\ asking' = FALSE /\ missed' = (missed \/ asking)
  /\ UNCHANGED <<file, checked, panels, ssid, button, link, lastAsked, lastSaved, touched>>

ConfigNext ==
  \/ Start \/ EndOfHandler \/ InitShows
  \/ \E box \in Panels : TogglePanel(box)
  \/ ToggleAutoConnect \/ EditSsid \/ PressRouter \/ SaveRouter \/ Boot \/ Stop

ConfigSpec == ConfigInit /\ [][ConfigNext]_configVars

-----------------------------------------------------------------------------
(* Between handlers the file and the window agree, through any order of      *)
(* handlers that each rewrite the whole file, and after any restart: each    *)
(* box is saved as it is checked and its panel shown.  A file that is whole  *)
(* names the router of the last press that got as far as saving it, and that *)
(* is the last press at all, unless it is still under way or the tool was    *)
(* stopped between its command and its save.                                *)
ConfigAgrees ==
  /\ Running => file # Torn
  /\ Running => /\ file.checked = checked
                /\ panels = checked \cap Panels
  /\ file # Torn => file.ssid = lastSaved
  /\ lastSaved # lastAsked => asking \/ missed

(* A tool that starts with auto connect connects the device to the router    *)
(* of the last press of an earlier run that got as far as saving it,         *)
(* whenever that was and however that run ended, if the user leaves the      *)
(* window alone until the boot command.                                     *)
AutoConnects ==
  [][(Boot /\ ~ touched /\ "auto_connect" \in file.checked /\ lastSaved # NoSsid)
       => link' = lastSaved]_configVars
=============================================================================
