------------------------------ MODULE RadarConfig ------------------------------
(***************************************************************************)
(* The radar's configuration and its evaluation server:                    *)
(* main/app_main.c and main/radar_evaluate.c of                            *)
(* examples/esp-radar/console_test.                                        *)
(*                                                                         *)
(* The radar library keeps one configuration.  Four parts of the program   *)
(* change it, each in a task of its own: app_main when the device starts,  *)
(* "radar --csi_output_type" on the console, the GOT_IP handler, and the   *)
(* TCP server when a client comes and when it goes.  All but app_main read *)
(* the whole configuration, change their fields in a copy and write the    *)
(* whole copy back, without a lock.                                        *)
(*                                                                         *)
(* GOT_IP also starts the server, unless g_tcp_server_task_handle says     *)
(* that it runs.  What the server does with the rows a client sends is     *)
(* left out.  The variables router, choice and overlap are history.        *)
(***************************************************************************)
EXTENDS Naturals, FiniteSets

CONSTANTS
  Routers,      (* BSSIDs GOT_IP reads from the driver, and what it finds  *)
                (* in its uninitialised record if the link is lost again.  *)
  Servers,      (* Identities of server tasks; their number bounds the run.*)
  NONE,         (* No router, no server.                                   *)
  MaxGotIps,    (* Bound: times the station gets an address.               *)
  MaxCommands,  (* Bound: commands typed.                                  *)
  MaxClients    (* Bound: clients.                                         *)

ASSUME NoneAssumption  == NONE \notin Routers /\ NONE \notin Servers
ASSUME TaskAssumption  == "console" \notin Servers /\ "event" \notin Servers
ASSUME BoundAssumption == MaxGotIps \in Nat /\ MaxCommands \in Nat /\ MaxClients \in Nat

Tasks == {"console", "event"} \union Servers

VARIABLES
  config,       (* The library's configuration.                            *)
  copy,         (* Each task's radar_config.                               *)
  boot,         (* How far app_main is.                                    *)
  console,      (* Where the radar command is.                             *)
  event,        (* Where the GOT_IP handler is.                            *)
  server,       (* Where each server task is.                              *)
  g_tcp_server_task_handle,
  gotIps, commands, clients, (* How many there were.                       *)
  router,       (* The router GOT_IP configured last.                      *)
  choice,       (* Did the console register the callback last?             *)
  overlap,      (* Has a task written while another had a copy in hand?    *)
  eager,        (* Are commands typed before app_main is done?  Fixed.     *)
  resources     (* Can sockets and tasks always be had?  Fixed.            *)

counterVars == <<gotIps, commands, clients>>
fixedVars   == <<eager, resources>>
serverVars  == <<server, g_tcp_server_task_handle>>
vars == <<config, copy, boot, console, event, serverVars, counterVars,
          router, choice, overlap, fixedVars>>

(* The fields that are ever changed: the two callbacks, the address filter *)
(* with the CSI options GOT_IP sets along with it, and the radar           *)
(* callback's context.                                                     *)
Configs == [radar_cb : BOOLEAN, filtered_cb : BOOLEAN,
            filter : Routers \union {NONE}, ctx : BOOLEAN]

Empty == [radar_cb |-> FALSE, filtered_cb |-> FALSE, filter |-> NONE, ctx |-> FALSE]

Stages == {"none", "start", "bind", "listen", "accepted", "set_ctx", "serving",
           "closed", "clear_ctx", "close", "forget", "dead"}

Init ==
  /\ config = Empty
  /\ copy = [t \in Tasks |-> Empty]
  /\ boot = "console"
  /\ console = "idle"
  /\ event = "idle"
  /\ server = [v \in Servers |-> "none"]
  /\ g_tcp_server_task_handle = NONE
  /\ gotIps = 0 /\ commands = 0 /\ clients = 0
  /\ router = NONE
  /\ choice = FALSE
  /\ overlap = FALSE
  /\ eager \in BOOLEAN
  /\ resources \in BOOLEAN

(* The task t has read the configuration and has yet to write it. *)
InHand(t) ==
  \/ t = "console" /\ console = "set"
  \/ t = "event" /\ event = "set"
  \/ t \in Servers /\ server[t] \in {"set_ctx", "clear_ctx"}

(* esp_radar_get_config and esp_radar_set_config, called by the task t. *)
Get(t) ==
  /\ copy' = [copy EXCEPT ![t] = config]
  /\ UNCHANGED <<config, overlap>>

(* Having written, a task has done with its copy. *)
Set(t, new) ==
  /\ config' = new
  /\ overlap' = (overlap \/ \E u \in Tasks \ {t} : InHand(u))

Put(t, new) ==
  /\ Set(t, new)
  /\ copy' = [copy EXCEPT ![t] = Empty]

-----------------------------------------------------------------------------
(* app_main, after it has started the console.                             *)

(* It does not read what is there. *)
StartRadar ==
  /\ boot = "console"
  /\ boot' = "radar"
  /\ Set("boot", [Empty EXCEPT !.radar_cb = TRUE])
  /\ UNCHANGED <<copy, console, event, serverVars, counterVars, router, choice, fixedVars>>

(* From now on GOT_IP is handled. *)
RegisterHandler ==
  /\ boot = "radar"
  /\ boot' = "done"
  /\ UNCHANGED <<config, copy, console, event, serverVars, counterVars, router, choice,
                 overlap, fixedVars>>

-----------------------------------------------------------------------------
(* radar --csi_output_type, in the console's task.                         *)

GetForOutput ==
  /\ eager \/ boot = "done"
  /\ console = "idle" /\ commands < MaxCommands
  /\ console' = "set"
  /\ commands' = commands + 1
  /\ Get("console")
  /\ UNCHANGED <<boot, event, serverVars, gotIps, clients, router, choice, fixedVars>>

SetOutput ==
  /\ console = "set"
  /\ console' = "idle"
  /\ choice' \in BOOLEAN
  /\ Put("console", [copy["console"] EXCEPT !.filtered_cb = choice'])
  /\ UNCHANGED <<boot, event, serverVars, counterVars, router, fixedVars>>

-----------------------------------------------------------------------------
(* GOT_IP, in the event task.                                              *)

(* Mutation: the handler is registered before the radar is configured. *)
GotIpEarly ==
  /\ event = "idle" /\ gotIps < MaxGotIps
  /\ \E v \in Servers : server[v] = "none"
  /\ event' = "set"
  /\ gotIps' = gotIps + 1
  /\ Get("event")
  /\ UNCHANGED <<boot, console, serverVars, commands, clients, router, choice, fixedVars>>

GotIp ==
  /\ boot = "done"
  /\ event = "idle" /\ gotIps < MaxGotIps
  /\ \E v \in Servers : server[v] = "none"
  /\ event' = "set"
  /\ gotIps' = gotIps + 1
  /\ Get("event")
  /\ UNCHANGED <<boot, console, serverVars, commands, clients, router, choice, fixedVars>>

SetFilter ==
  /\ event = "set"
  /\ event' = "server"
  /\ router' \in Routers
  /\ Put("event", [copy["event"] EXCEPT !.filter = router'])
  /\ UNCHANGED <<boot, console, serverVars, counterVars, choice, fixedVars>>

EventStep(from, to) ==
  /\ event = from
  /\ event' = to
  /\ UNCHANGED <<config, copy, boot, console, counterVars, router, choice, overlap, fixedVars>>

(* radar_evaluate_server: xTaskCreate stores the handle before the task    *)
(* can run.                                                                *)
StartServer ==
  /\ g_tcp_server_task_handle = NONE
  /\ EventStep("server", "idle")
  /\ \E v \in Servers :
       /\ server[v] = "none"
       /\ g_tcp_server_task_handle' = v
       /\ server' = [server EXCEPT ![v] = "start"]

(* It does so already; or the task cannot be created, which goes unnoticed. *)
NoNewServer ==
  /\ g_tcp_server_task_handle # NONE \/ ~resources
  /\ EventStep("server", "idle")
  /\ UNCHANGED serverVars

-----------------------------------------------------------------------------
(* tcp_server_task, of which v is an instance.                             *)

Stage(v, from, to) ==
  /\ server[v] = from
  /\ server' = [server EXCEPT ![v] = to]
  /\ UNCHANGED <<boot, console, event, gotIps, commands, router, choice, fixedVars>>

Keep == UNCHANGED <<config, copy, overlap>>

Socket(v) ==
  /\ Stage(v, "start", "bind")
  /\ Keep /\ UNCHANGED <<g_tcp_server_task_handle, clients>>

(* Without a socket the task deletes itself and leaves the handle as it is. *)
NoSocket(v) ==
  /\ ~resources
  /\ Stage(v, "start", "dead")
  /\ Keep /\ UNCHANGED <<g_tcp_server_task_handle, clients>>

Listen(v) ==
  /\ \/ Stage(v, "bind", "listen")
     \/ ~resources /\ Stage(v, "bind", "close")
  /\ Keep /\ UNCHANGED <<g_tcp_server_task_handle, clients>>

Accept(v) ==
  /\ clients < MaxClients
  /\ Stage(v, "listen", "accepted")
  /\ clients' = clients + 1
  /\ Keep /\ UNCHANGED g_tcp_server_task_handle

(* Mutation: the handle is cleared before the socket is closed. *)
AcceptFailsForgets(v) ==
  /\ Stage(v, "listen", "close")
  /\ g_tcp_server_task_handle' = NONE
  /\ Keep /\ UNCHANGED clients

AcceptFails(v) ==
  /\ Stage(v, "listen", "close")
  /\ Keep /\ UNCHANGED <<g_tcp_server_task_handle, clients>>

GetForClient(v) ==
  /\ Stage(v, "accepted", "set_ctx")
  /\ Get(v) /\ UNCHANGED <<g_tcp_server_task_handle, clients>>

SetContext(v) ==
  /\ Stage(v, "set_ctx", "serving")
  /\ Set(v, [copy[v] EXCEPT !.ctx = TRUE])
  /\ UNCHANGED <<copy, g_tcp_server_task_handle, clients>>

(* The client has closed its connection or is gone. *)
ClientGone(v) ==
  /\ Stage(v, "serving", "closed")
  /\ Keep /\ UNCHANGED <<g_tcp_server_task_handle, clients>>

(* Mutation: the copy made when the client came is used again. *)
ReuseCopy(v) ==
  /\ Stage(v, "closed", "clear_ctx")
  /\ Keep /\ UNCHANGED <<g_tcp_server_task_handle, clients>>

(* A second later, when the last rows of the client were evaluated. *)
GetForClearing(v) ==
  /\ Stage(v, "closed", "clear_ctx")
  /\ Get(v) /\ UNCHANGED <<g_tcp_server_task_handle, clients>>

ClearContext(v) ==
  /\ Stage(v, "clear_ctx", "listen")
  /\ Put(v, [copy[v] EXCEPT !.ctx = FALSE])
  /\ UNCHANGED <<g_tcp_server_task_handle, clients>>

CloseListener(v) ==
  /\ Stage(v, "close", "forget")
  /\ Keep /\ UNCHANGED <<g_tcp_server_task_handle, clients>>

(* Mutation: the handle keeps its value, as it does in NoSocket. *)
LeaveHandle(v) ==
  /\ Stage(v, "forget", "dead")
  /\ Keep /\ UNCHANGED <<g_tcp_server_task_handle, clients>>

ForgetHandle(v) ==
  /\ Stage(v, "forget", "dead")
  /\ g_tcp_server_task_handle' = NONE
  /\ Keep /\ UNCHANGED clients

(* What a server does by itself, and what befalls it. *)
Serve(v) ==
  \/ Socket(v) \/ NoSocket(v) \/ Listen(v)
  \/ GetForClient(v) \/ SetContext(v)
  \/ GetForClearing(v) \/ ClearContext(v)
  \/ CloseListener(v) \/ ForgetHandle(v)

Network(v) == Accept(v) \/ AcceptFails(v) \/ ClientGone(v)

Event == SetFilter \/ StartServer \/ NoNewServer

Next ==
  \/ StartRadar \/ RegisterHandler
  \/ GetForOutput \/ SetOutput
  \/ GotIp \/ Event
  \/ \E v \in Servers : Serve(v) \/ Network(v)

Spec == Init /\ [][Next]_vars

(* The event task and the servers' tasks go on when they can. *)
FairSpec == Spec /\ WF_vars(Event) /\ \A v \in Servers : WF_vars(Serve(v))

-----------------------------------------------------------------------------
(* Properties.                                                             *)

TypeOK ==
  /\ config \in Configs
  /\ copy \in [Tasks -> Configs]
  /\ boot \in {"console", "radar", "done"}
  /\ console \in {"idle", "set"}
  /\ event \in {"idle", "set", "server"}
  /\ server \in [Servers -> Stages]
  /\ g_tcp_server_task_handle \in Servers \union {NONE}
  /\ gotIps \in 0..MaxGotIps /\ commands \in 0..MaxCommands /\ clients \in 0..MaxClients
  /\ router \in Routers \union {NONE}
  /\ choice \in BOOLEAN
  /\ overlap \in BOOLEAN
  /\ eager \in BOOLEAN /\ resources \in BOOLEAN

(* The server's task is between the context's setting and its clearing. *)
Serving == \E v \in Servers : server[v] \in {"serving", "closed", "clear_ctx"}

(* As long as no task writes while another has a copy in hand, all changes *)
(* are there together: the radar's callback, the filter of the last        *)
(* router, the context as long as a client's rows are evaluated and no     *)
(* longer, and what the console asked for last.                            *)
NoLostUpdate ==
  ~eager /\ ~overlap /\ boot # "console" =>
    config = [radar_cb |-> TRUE, filtered_cb |-> choice, filter |-> router, ctx |-> Serving]

(* Even if updates overlap, the radar does not lose its callback, without  *)
(* which there is no detection until the next reset: whoever reads the     *)
(* configuration does so after app_main has written it.                    *)
RadarCallbackStays == ~eager /\ boot # "console" => config.radar_cb

HasListener(v) == server[v] \notin {"none", "start", "forget", "dead"}

(* No two servers have a socket for the port at a time, although the one   *)
(* that gives up and GOT_IP, which starts the next one, overlap.           *)
OneListener ==
  \A v, w \in Servers : HasListener(v) /\ HasListener(w) => v = w

(* A GOT_IP that finds no server running gets one to listen, also after a  *)
(* server has given up, if sockets and tasks can be had.                   *)
ServerRestarts ==
  []resources
    => (event = "server" /\ \A v \in Servers : server[v] \in {"none", "dead"})
         ~> \E v \in Servers : server[v] = "listen"
=============================================================================
