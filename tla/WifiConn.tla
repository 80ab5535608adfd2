------------------------------ MODULE WifiConn ------------------------------
(***************************************************************************)
(* The station's connection: wifi_cmd.c of                                 *)
(* examples/esp-radar/console_test/components/commands.                    *)
(*                                                                         *)
(* The console's task runs wifi_config and wifi_scan, which disconnect and *)
(* connect the station; the event task runs wifi_event_handler, which      *)
(* reconnects it when the link is lost.  They share s_reconnect and the    *)
(* two bits of an event group, by which a command waits for the handler.   *)
(*                                                                         *)
(* The Wi-Fi driver is external.  It connects or fails in its own time,    *)
(* loses the link, and posts its events in order to the event loop; it     *)
(* ignores esp_wifi_connect unless the station is down and                 *)
(* esp_wifi_disconnect if it is.                                           *)
(***************************************************************************)
EXTENDS Naturals, Sequences

CONSTANTS
  Routers,       (* Routers a command can name.                            *)
  NONE,          (* The empty SSID.                                        *)
  MaxCommands,   (* Bound: commands that are typed.                        *)
  MaxRetries     (* Scans of one wifi_scan: 20 in the code.                *)

ASSUME RouterAssumption == NONE \notin Routers
ASSUME BoundAssumption  == MaxCommands \in Nat /\ MaxRetries \in Nat \ {0}

VARIABLES
  s_reconnect,   (* Shall the handler connect again?                       *)
  bits,          (* s_wifi_event_group.                                    *)
  registered,    (* Is wifi_event_handler registered?                      *)
  console,       (* Where the command is.                                  *)
  wifi_config,   (* The command's SSID.                                    *)
  info,          (* Is the command "wifi_config --info"?                   *)
  retry_count,   (* Scans that are left to wifi_scan.                      *)
  link,          (* The driver: is the station connected?                  *)
  router,        (* The driver: the router it is connecting to.            *)
  sta_config,    (* The driver: the SSID that is configured.               *)
  events,        (* Events posted to the event loop.                       *)
  handler,       (* Where wifi_event_handler is.                           *)
  typed          (* Commands typed so far.                                 *)

consoleVars == <<console, wifi_config, info, retry_count, typed>>
driverVars  == <<link, router, sta_config, events>>
sharedVars  == <<s_reconnect, bits, registered>>
vars == <<consoleVars, driverVars, sharedVars, handler>>

Init ==
  /\ s_reconnect = TRUE
  /\ bits = {}
  /\ registered = FALSE
  /\ console = "idle"
  /\ wifi_config = NONE
  /\ info = FALSE
  /\ retry_count = 0
  /\ link = "down"
  /\ router = NONE
  /\ sta_config = NONE
  /\ events = <<>>
  /\ handler = "idle"
  /\ typed = 0

(* ESP_ERROR_CHECK has failed. *)
Restart ==
  /\ s_reconnect' = TRUE
  /\ bits' = {}
  /\ registered' = FALSE
  /\ console' = "idle"
  /\ wifi_config' = NONE
  /\ info' = FALSE
  /\ retry_count' = 0
  /\ link' = "down"
  /\ router' = NONE
  /\ sta_config' = NONE
  /\ events' = <<>>
  /\ handler' = "idle"
  /\ UNCHANGED typed

-----------------------------------------------------------------------------
(* The driver.                                                             *)

(* esp_wifi_connect, called by the command or the handler. *)
esp_wifi_connect ==
  /\ link' = IF link = "down" THEN "connecting" ELSE link
  /\ router' = IF link = "down" THEN sta_config ELSE router
  /\ UNCHANGED <<sta_config, events>>

esp_wifi_disconnect ==
  /\ link' = "down"
  /\ events' = IF link = "down" THEN events ELSE Append(events, "DISCONNECTED")
  /\ UNCHANGED <<router, sta_config>>

Connected ==
  /\ link = "connecting"
  /\ link' = "up"
  /\ events' = Append(events, "GOT_IP")
  /\ UNCHANGED <<router, sta_config, consoleVars, sharedVars, handler>>

(* An attempt fails, or the link is lost. *)
Lost ==
  /\ link # "down"
  /\ link' = "down"
  /\ events' = Append(events, "DISCONNECTED")
  /\ UNCHANGED <<router, sta_config, consoleVars, sharedVars, handler>>

-----------------------------------------------------------------------------
(* wifi_event_handler, in the event task.                                  *)

HandlerStep(from, to) ==
  /\ handler = from
  /\ handler' = to
  /\ UNCHANGED <<consoleVars, registered>>

Dispatch ==
  /\ handler = "idle" /\ events # <<>>
  /\ events' = Tail(events)
  /\ handler' = CASE ~registered                    -> "idle"
                  [] Head(events) = "GOT_IP"       -> "got_ip"
                  [] Head(events) = "DISCONNECTED" -> "disconnected"
  /\ UNCHANGED <<link, router, sta_config, consoleVars, sharedVars>>

(* Mutation: the bit of the last disconnection stays. *)
GotIpKeepsBit ==
  /\ HandlerStep("got_ip", "set_connected")
  /\ UNCHANGED <<s_reconnect, bits, driverVars>>

GotIp ==
  /\ HandlerStep("got_ip", "set_connected")
  /\ bits' = bits \ {"DISCONNECTED"}
  /\ UNCHANGED <<s_reconnect, driverVars>>

SetConnected ==
  /\ HandlerStep("set_connected", "idle")
  /\ bits' = bits \union {"CONNECTED"}
  /\ UNCHANGED <<s_reconnect, driverVars>>

(* Mutations: only a station that was connected connects again, or every   *)
(* station does.                                                           *)
DisconnectedOnce ==
  /\ HandlerStep("disconnected", IF s_reconnect /\ "CONNECTED" \in bits THEN "connect" ELSE "clear")
  /\ UNCHANGED <<s_reconnect, bits, driverVars>>

DisconnectedAlways ==
  /\ HandlerStep("disconnected", "connect")
  /\ UNCHANGED <<s_reconnect, bits, driverVars>>

Disconnected ==
  /\ HandlerStep("disconnected", IF s_reconnect THEN "connect" ELSE "clear")
  /\ UNCHANGED <<s_reconnect, bits, driverVars>>

Reconnect ==
  /\ HandlerStep("connect", "clear")
  /\ esp_wifi_connect
  /\ UNCHANGED <<s_reconnect, bits>>

ClearConnected ==
  /\ HandlerStep("clear", "set_disconnected")
  /\ bits' = bits \ {"CONNECTED"}
  /\ UNCHANGED <<s_reconnect, driverVars>>

SetDisconnected ==
  /\ HandlerStep("set_disconnected", "idle")
  /\ bits' = bits \union {"DISCONNECTED"}
  /\ UNCHANGED <<s_reconnect, driverVars>>

Handler ==
  \/ Dispatch
  \/ GotIp \/ SetConnected
  \/ Disconnected \/ Reconnect \/ ClearConnected \/ SetDisconnected

-----------------------------------------------------------------------------
(* wifi_config, in the console's task.                                     *)

ConsoleStep(from, to) ==
  /\ console = from
  /\ console' = to
  /\ UNCHANGED <<wifi_config, info, retry_count, typed, registered, handler>>

Type(first) ==
  /\ console = "idle" /\ typed < MaxCommands
  /\ console' = first
  /\ typed' = typed + 1

(* wifi_config --ssid r, or with other options only: these keep the SSID   *)
(* that is configured.  With an SSID, even one that was configured before, *)
(* the station is connected anew, unless the BSSID is malformed.           *)
Configure ==
  /\ \E ssid \in Routers \union {NONE} :
       /\ wifi_config' = IF ssid # NONE THEN ssid ELSE sta_config
       /\ info' \in IF ssid = NONE THEN BOOLEAN ELSE {FALSE}
  /\ \E first \in IF wifi_config' = NONE THEN {"rest"} ELSE {"poll", "rest"} : Type(first)
  /\ registered' = TRUE
  /\ UNCHANGED <<retry_count, s_reconnect, bits, driverVars, handler>>

(* wifi_config --disconnect. *)
Disconnect ==
  /\ Type("forbid")
  /\ registered' = TRUE
  /\ UNCHANGED <<wifi_config, info, retry_count, s_reconnect, bits, driverVars, handler>>

Forbid ==
  /\ ConsoleStep("forbid", "leave")
  /\ s_reconnect' = FALSE
  /\ UNCHANGED <<bits, driverVars>>

Leave ==
  /\ ConsoleStep("leave", "idle")
  /\ esp_wifi_disconnect
  /\ UNCHANGED <<s_reconnect, bits>>

Poll ==
  /\ ConsoleStep("poll", IF "CONNECTED" \in bits THEN "suspend" ELSE "resume")
  /\ UNCHANGED <<s_reconnect, bits, driverVars>>

Suspend ==
  /\ ConsoleStep("suspend", "clear")
  /\ s_reconnect' = FALSE
  /\ UNCHANGED <<bits, driverVars>>

Clear ==
  /\ ConsoleStep("clear", "disconnect")
  /\ bits' = bits \ {"CONNECTED"}
  /\ UNCHANGED <<s_reconnect, driverVars>>

(* Mutation: the bit that is awaited is cleared too, and too late. *)
DropConnectionAndClear ==
  /\ ConsoleStep("disconnect", "wait")
  /\ esp_wifi_disconnect
  /\ bits' = {}
  /\ UNCHANGED s_reconnect

DropConnection ==
  /\ ConsoleStep("disconnect", "wait")
  /\ esp_wifi_disconnect
  /\ UNCHANGED <<s_reconnect, bits>>

(* Without a time limit. *)
WaitDisconnected ==
  /\ "DISCONNECTED" \in bits
  /\ ConsoleStep("wait", "resume")
  /\ UNCHANGED <<s_reconnect, bits, driverVars>>

Resume ==
  /\ ConsoleStep("resume", "config")
  /\ s_reconnect' = TRUE
  /\ UNCHANGED <<bits, driverVars>>

(* The driver may refuse another configuration while it is connecting. *)
SetConfig ==
  \/ /\ ConsoleStep("config", "connect")
     /\ sta_config' = wifi_config
     /\ UNCHANGED <<s_reconnect, bits, link, router, events>>
  \/ /\ console = "config" /\ link = "connecting"
     /\ Restart

Connect ==
  /\ ConsoleStep("connect", "await")
  /\ esp_wifi_connect
  /\ UNCHANGED <<s_reconnect, bits>>

(* For five seconds at most, then the command's other options: they leave  *)
(* the connection alone.                                                   *)
Await ==
  /\ console \in {"await", "rest"}
  /\ console' = "idle"
  /\ wifi_config' = NONE
  /\ info' = FALSE
  /\ UNCHANGED <<retry_count, typed, driverVars, sharedVars, handler>>

-----------------------------------------------------------------------------
(* wifi_scan.                                                              *)

Scan ==
  /\ Type("scan_disconnect")
  /\ retry_count' = MaxRetries
  /\ UNCHANGED <<wifi_config, info, driverVars, sharedVars, handler>>

(* The first disconnection; a malformed BSSID ends the command here. *)
ScanDisconnect ==
  /\ \/ ConsoleStep("scan_disconnect", "retry")
     \/ ConsoleStep("scan_disconnect", "idle")
  /\ esp_wifi_disconnect
  /\ UNCHANGED <<s_reconnect, bits>>

RetryDisconnect ==
  /\ ConsoleStep("retry", "scan")
  /\ esp_wifi_disconnect
  /\ UNCHANGED <<s_reconnect, bits>>

(* A scan finds routers, finds none, or is refused because the handler has *)
(* called esp_wifi_connect since.                                          *)
ScanStart ==
  /\ console = "scan"
  /\ \/ link = "down" /\ console' = "channel" /\ UNCHANGED retry_count
     \/ /\ retry_count' = retry_count - 1
        /\ console' = IF retry_count' = 0 THEN "idle" ELSE "retry"
  /\ UNCHANGED <<wifi_config, info, typed, driverVars, sharedVars, handler>>

(* The channel that the station was on is set again; the driver may refuse  *)
(* it if the handler has called esp_wifi_connect since the scan.            *)
SetChannel ==
  \/ /\ ConsoleStep("channel", "idle")
     /\ UNCHANGED <<s_reconnect, bits, driverVars>>
  \/ /\ console = "channel" /\ link # "down"
     /\ Restart

Console ==
  \/ Forbid \/ Leave
  \/ Poll \/ Suspend \/ Clear \/ DropConnection \/ WaitDisconnected
  \/ Resume \/ SetConfig \/ Connect \/ Await
  \/ ScanDisconnect \/ RetryDisconnect \/ ScanStart \/ SetChannel

Next ==
  \/ Configure \/ Disconnect \/ Scan
  \/ Console
  \/ Handler
  \/ Connected \/ Lost

Spec == Init /\ [][Next]_vars

(* Both tasks run, and the driver ends an attempt to connect. *)
FairSpec == Spec /\ WF_vars(Console) /\ WF_vars(Handler) /\ WF_vars(Connected \/ Lost)

-----------------------------------------------------------------------------
(* Properties.                                                             *)

TypeOK ==
  /\ s_reconnect \in BOOLEAN
  /\ bits \subseteq {"CONNECTED", "DISCONNECTED"}
  /\ registered \in BOOLEAN
  /\ console \in {"idle", "forbid", "leave", "poll", "suspend", "clear", "disconnect", "wait",
                  "resume", "config", "connect", "await", "rest", "scan_disconnect", "retry",
                  "scan", "channel"}
  /\ wifi_config \in Routers \union {NONE}
  /\ info \in BOOLEAN
  /\ retry_count \in 0..MaxRetries
  /\ link \in {"down", "connecting", "up"}
  /\ router \in Routers \union {NONE}
  /\ sta_config \in Routers \union {NONE}
  /\ events \in Seq({"GOT_IP", "DISCONNECTED"})
  /\ handler \in {"idle", "got_ip", "set_connected", "disconnected", "connect", "clear",
                  "set_disconnected"}
  /\ typed \in 0..MaxCommands

(* No command is running and every event was handled. *)
Settled == console = "idle" /\ handler = "idle" /\ events = <<>>

(* When all is quiet the event group tells the truth, whatever commands,   *)
(* losses and reconnections overlapped before.                             *)
BitsAgree ==
  Settled /\ registered =>
    /\ "CONNECTED" \in bits <=> link = "up"
    /\ link = "up" => "DISCONNECTED" \notin bits

(* A station that shall stay connected does not sit there disconnected: no *)
(* reconnection is lost between a command and the handler.                 *)
NoLostReconnect ==
  Settled /\ s_reconnect /\ sta_config # NONE => link # "down"

(* wifi_config waits for a disconnection without a time limit, but never   *)
(* for one that does not come: every command returns.                      *)
CommandReturns == console # "idle" ~> console = "idle"

(* After "wifi_config --disconnect" the station stays disconnected until   *)
(* the next command, unless the handler was already between its test of    *)
(* s_reconnect and esp_wifi_connect.                                       *)
Dropped == console = "idle" /\ ~s_reconnect /\ link = "down" /\ handler # "connect"

StaysDropped == [][Dropped /\ console' = "idle" => Dropped']_vars

(* "wifi_config --info" says of itself "Get Wi-Fi configuration            *)
(* information".  It takes a station that is connected down.               *)
InfoOnlyReads ==
  [][info /\ console' # console /\ link = "up" => link' = "up"]_vars
=============================================================================
