---------------------------- MODULE WifiConnProofs ----------------------------
(***************************************************************************)
(* Proofs about WifiConn, for any routers and any number of commands and   *)
(* scans.                                                                  *)
(***************************************************************************)
EXTENDS WifiConn, TLAPS

(* The types alone are not inductive: retry_count could leave its range.   *)
ScansLeft == console \in {"scan_disconnect", "retry", "scan"} => retry_count > 0

IInv == TypeOK /\ ScansLeft

(* What the two driver calls may do to the driver's variables. *)
LEMMA ConnectType ==
  ASSUME TypeOK, esp_wifi_connect
  PROVE  /\ link' \in {"down", "connecting", "up"}
         /\ router' \in Routers \union {NONE}
         /\ UNCHANGED <<sta_config, events>>
  BY DEF TypeOK, esp_wifi_connect

LEMMA DisconnectType ==
  ASSUME TypeOK, esp_wifi_disconnect
  PROVE  /\ link' = "down"
         /\ events' \in Seq({"GOT_IP", "DISCONNECTED"})
         /\ UNCHANGED <<router, sta_config>>
  BY DEF TypeOK, esp_wifi_disconnect

LEMMA RestartType ==
  ASSUME TypeOK, Restart
  PROVE  TypeOK'
  <1>1. retry_count' \in 0..MaxRetries /\ events' \in Seq({"GOT_IP", "DISCONNECTED"})
    BY BoundAssumption DEF BoundAssumption, Restart
  <1>2. QED
    BY <1>1 DEF TypeOK, Restart

LEMMA DriverType ==
  ASSUME TypeOK, Connected \/ Lost
  PROVE  TypeOK'
  <1>1. events' \in Seq({"GOT_IP", "DISCONNECTED"})
    BY DEF TypeOK, Connected, Lost
  <1>2. link' \in {"down", "connecting", "up"}
    BY DEF Connected, Lost
  <1>3. UNCHANGED <<router, sta_config, consoleVars, sharedVars, handler>>
    BY DEF Connected, Lost
  <1>4. QED
    BY <1>1, <1>2, <1>3 DEF TypeOK, consoleVars, sharedVars

LEMMA HandlerType ==
  ASSUME TypeOK, Handler
  PROVE  TypeOK'
  <1>1. CASE Dispatch
    BY <1>1 DEF TypeOK, Dispatch, consoleVars, sharedVars
  <1>2. CASE GotIp
    BY <1>2 DEF TypeOK, GotIp, HandlerStep, consoleVars, driverVars
  <1>3. CASE SetConnected
    BY <1>3 DEF TypeOK, SetConnected, HandlerStep, consoleVars, driverVars
  <1>4. CASE Disconnected
    BY <1>4 DEF TypeOK, Disconnected, HandlerStep, consoleVars, driverVars
  <1>5. CASE Reconnect
    BY <1>5, ConnectType DEF TypeOK, Reconnect, HandlerStep, consoleVars
  <1>6. CASE ClearConnected
    BY <1>6 DEF TypeOK, ClearConnected, HandlerStep, consoleVars, driverVars
  <1>7. CASE SetDisconnected
    BY <1>7 DEF TypeOK, SetDisconnected, HandlerStep, consoleVars, driverVars
  <1>8. QED
    BY <1>1, <1>2, <1>3, <1>4, <1>5, <1>6, <1>7 DEF Handler

(* A command is typed. *)
LEMMA TypedType ==
  ASSUME TypeOK, Configure \/ Disconnect \/ Scan
  PROVE  TypeOK'
  <1>1. ASSUME NEW first, Type(first) PROVE typed' \in 0..MaxCommands /\ console' = first
    BY <1>1, BoundAssumption DEF BoundAssumption, TypeOK, Type
  <1>2. CASE Configure
    <2>1. PICK first \in {"rest", "poll"} : Type(first)
      BY <1>2 DEF Configure
    <2>2. typed' \in 0..MaxCommands /\ console' = first
      BY <1>1, <2>1
    <2>3. QED
      BY <1>2, <2>1, <2>2 DEF TypeOK, Configure, driverVars
  <1>3. CASE Disconnect
    BY <1>1, <1>3 DEF TypeOK, Disconnect, driverVars
  <1>4. CASE Scan
    BY <1>1, <1>4, BoundAssumption DEF BoundAssumption, TypeOK, Scan, driverVars, sharedVars
  <1>5. QED
    BY <1>2, <1>3, <1>4

LEMMA ConsoleType ==
  ASSUME TypeOK, ScansLeft, Console
  PROVE  TypeOK'
  <1> USE DEF ConsoleStep
  <1>1. CASE Forbid
    BY <1>1 DEF TypeOK, Forbid, driverVars
  <1>2. CASE Leave
    BY <1>2, DisconnectType DEF TypeOK, Leave
  <1>3. CASE Poll
    BY <1>3 DEF TypeOK, Poll, driverVars
  <1>4. CASE Suspend
    BY <1>4 DEF TypeOK, Suspend, driverVars
  <1>5. CASE Clear
    BY <1>5 DEF TypeOK, Clear, driverVars
  <1>6. CASE DropConnection
    BY <1>6, DisconnectType DEF TypeOK, DropConnection
  <1>7. CASE WaitDisconnected
    BY <1>7 DEF TypeOK, WaitDisconnected, driverVars
  <1>8. CASE Resume
    BY <1>8 DEF TypeOK, Resume, driverVars
  <1>9. CASE SetConfig
    BY <1>9, RestartType DEF TypeOK, SetConfig
  <1>10. CASE Connect
    BY <1>10, ConnectType DEF TypeOK, Connect
  <1>11. CASE Await
    BY <1>11 DEF TypeOK, Await, driverVars, sharedVars
  <1>12. CASE ScanDisconnect
    BY <1>12, DisconnectType DEF TypeOK, ScanDisconnect
  <1>13. CASE RetryDisconnect
    BY <1>13, DisconnectType DEF TypeOK, RetryDisconnect
  <1>14. CASE ScanStart
    <2>1. retry_count \in 1..MaxRetries
      BY <1>14 DEF TypeOK, ScansLeft, ScanStart
    <2>2. retry_count' \in 0..MaxRetries
      BY <1>14, <2>1, BoundAssumption DEF BoundAssumption, ScanStart
    <2>3. QED
      BY <1>14, <2>2 DEF TypeOK, ScanStart, driverVars, sharedVars
  <1>15. CASE SetChannel
    BY <1>15, RestartType DEF TypeOK, SetChannel, driverVars
  <1>16. QED
    BY <1>1, <1>2, <1>3, <1>4, <1>5, <1>6, <1>7, <1>8, <1>9, <1>10, <1>11, <1>12, <1>13, <1>14, <1>15
    DEF Console

LEMMA NextKeepsType == IInv /\ [Next]_vars => TypeOK'
  <1>1. ASSUME TypeOK, UNCHANGED vars PROVE TypeOK'
    BY <1>1 DEF TypeOK, vars, consoleVars, driverVars, sharedVars
  <1>2. QED
    BY <1>1, DriverType, HandlerType, TypedType, ConsoleType DEF IInv, Next

(* Only wifi_scan's own steps change where it is and its counter. *)
LEMMA NextKeepsScans == IInv /\ [Next]_vars => ScansLeft'
  <1> SUFFICES ASSUME IInv, [Next]_vars PROVE ScansLeft'
    OBVIOUS
  <1> USE DEF IInv, ScansLeft
  <1>1. CASE UNCHANGED <<console, retry_count>>
    BY <1>1
  <1>2. CASE Connected \/ Lost \/ Handler \/ UNCHANGED vars
    <2>1. UNCHANGED <<console, retry_count>>
      BY <1>2 DEF Connected, Lost, Handler, Dispatch, GotIp, SetConnected, Disconnected,
         Reconnect, ClearConnected, SetDisconnected, HandlerStep, vars, consoleVars
    <2>2. QED
      BY <1>1, <2>1
  <1>3. CASE Configure \/ Disconnect \/ Scan
    <2>1. CASE Configure
      <3>1. PICK first \in {"rest", "poll"} : Type(first)
        BY <2>1 DEF Configure
      <3>2. QED
        BY <3>1 DEF Type
    <2>2. CASE Disconnect
      BY <2>2 DEF Disconnect, Type
    <2>3. CASE Scan
      BY <2>3, BoundAssumption DEF BoundAssumption, Scan
    <2>4. QED
      BY <1>3, <2>1, <2>2, <2>3
  <1>4. CASE Console
    <2>1. CASE ScanStart
      <3>1. retry_count \in 1..MaxRetries
        BY <2>1 DEF TypeOK, ScanStart
      <3>2. QED
        BY <2>1, <3>1 DEF ScanStart
    <2>2. CASE ScanDisconnect \/ RetryDisconnect
      BY <2>2 DEF ScanDisconnect, RetryDisconnect, ConsoleStep
    <2>3. CASE ~(ScanStart \/ ScanDisconnect \/ RetryDisconnect)
      <3>1. console' \notin {"scan_disconnect", "retry", "scan"}
        BY <1>4, <2>3 DEF Console, Forbid, Leave, Poll, Suspend, Clear, DropConnection,
           WaitDisconnected, Resume, SetConfig, Connect, Await, SetChannel, ConsoleStep, Restart
      <3>2. QED
        BY <3>1
    <2>4. QED
      BY <2>1, <2>2, <2>3
  <1>5. QED
    BY <1>2, <1>3, <1>4 DEF Next

LEMMA InitIInv == Init => IInv
  <1> SUFFICES ASSUME Init PROVE IInv
    OBVIOUS
  <1>1. retry_count \in 0..MaxRetries /\ typed \in 0..MaxCommands
    BY BoundAssumption DEF BoundAssumption, Init
  <1>2. events \in Seq({"GOT_IP", "DISCONNECTED"})
    BY DEF Init
  <1>3. QED
    BY <1>1, <1>2 DEF Init, IInv, TypeOK, ScansLeft

(* Every variable keeps its type, and the scans of a command their bound. *)
THEOREM WifiTypeCorrect == Spec => []TypeOK
  <1>1. IInv /\ [Next]_vars => IInv'
    BY NextKeepsType, NextKeepsScans DEF IInv
  <1>2. IInv => TypeOK
    BY DEF IInv
  <1>3. QED
    BY <1>1, <1>2, InitIInv, PTL DEF Spec

-----------------------------------------------------------------------------
(* The event group tells the truth and no reconnection is lost.            *)

Latest == events[Len(events)]

(* Before the first command nothing has ever happened. *)
NotYet ==
  ~registered =>
    /\ link = "down" /\ events = <<>> /\ handler = "idle" /\ bits = {} /\ sta_config = NONE
    /\ console \in {"idle", "scan_disconnect", "retry", "scan", "channel"}

(* Each half of the handler's updates leaves its bit for the other half. *)
Halfway ==
  /\ handler = "set_connected" => "DISCONNECTED" \notin bits
  /\ handler = "set_disconnected" => "CONNECTED" \notin bits

(* What is still to be handled ends with the event for the present link; if *)
(* all of it was handled, the bits are those of the link.  Only wifi_config *)
(* takes CONNECTED away from a station that is connected, and then drops it.*)
UpAgrees ==
  link = "up" =>
    IF events # <<>> THEN Latest = "GOT_IP"
    ELSE \/ handler \in {"got_ip", "set_connected"}
         \/ /\ handler = "idle" /\ "DISCONNECTED" \notin bits
            /\ "CONNECTED" \in bits \/ console = "disconnect"

DownAgrees ==
  link # "up" =>
    IF events # <<>> THEN Latest = "DISCONNECTED"
    ELSE \/ handler \in {"disconnected", "connect", "clear", "set_disconnected"}
         \/ handler = "idle" /\ "CONNECTED" \notin bits

(* Who is going to connect a station that shall be connected: the command,  *)
(* or the handler, which is at it or still has the disconnection to handle. *)
WillConnect ==
  s_reconnect /\ sta_config # NONE /\ link = "down" =>
    \/ console \in {"config", "connect"}
    \/ handler \in {"disconnected", "connect"}
    \/ events # <<>>

LinkIInv ==
  /\ IInv
  /\ NotYet /\ Halfway /\ UpAgrees /\ DownAgrees /\ WillConnect

LEMMA Posted ==
  ASSUME TypeOK, NEW e \in {"GOT_IP", "DISCONNECTED"}, events' = Append(events, e)
  PROVE  events' # <<>> /\ Latest' = e
  BY DEF TypeOK, Latest

(* The event that is taken is the latest one, or the latest one stays. *)
LEMMA Taken ==
  ASSUME TypeOK, events # <<>>, events' = Tail(events)
  PROVE  IF events' = <<>> THEN Latest = Head(events) ELSE Latest' = Latest
  <1>1. events \in Seq({"GOT_IP", "DISCONNECTED"}) /\ Len(events) \in Nat \ {0}
    BY DEF TypeOK
  <1>2. Len(events') = Len(events) - 1 /\ \A k \in 1..Len(events') : events'[k] = events[k + 1]
    BY <1>1
  <1>3. CASE Len(events) = 1
    BY <1>1, <1>2, <1>3 DEF Latest
  <1>4. CASE Len(events) # 1
    BY <1>1, <1>2, <1>4 DEF Latest
  <1>5. QED
    BY <1>3, <1>4

(* The driver's own steps. *)
LEMMA DriverAgrees ==
  ASSUME LinkIInv, Connected \/ Lost
  PROVE  LinkIInv'
  <1>1. IInv'
    BY NextKeepsType, NextKeepsScans DEF LinkIInv, IInv, Next
  <1>2. TypeOK /\ UNCHANGED <<sta_config, consoleVars, sharedVars, handler>>
    BY DEF LinkIInv, IInv, Connected, Lost
  <1>3. CASE Connected
    <2>1. link' = "up" /\ events' # <<>> /\ Latest' = "GOT_IP" /\ link # "down"
      BY <1>2, <1>3, Posted DEF Connected
    <2>2. QED
      BY <1>1, <1>2, <2>1 DEF LinkIInv, NotYet, Halfway, UpAgrees, DownAgrees, WillConnect,
         sharedVars, consoleVars
  <1>4. CASE Lost
    <2>1. link' = "down" /\ events' # <<>> /\ Latest' = "DISCONNECTED" /\ link # "down"
      BY <1>2, <1>4, Posted DEF Lost
    <2>2. QED
      BY <1>1, <1>2, <2>1 DEF LinkIInv, NotYet, Halfway, UpAgrees, DownAgrees, WillConnect,
         sharedVars, consoleVars
  <1>5. QED
    BY <1>3, <1>4

LEMMA HandlerAgrees ==
  ASSUME LinkIInv, Handler
  PROVE  LinkIInv'
  <1> USE DEF NotYet, Halfway, UpAgrees, DownAgrees, WillConnect
  <1>1. IInv' /\ TypeOK
    BY NextKeepsType, NextKeepsScans DEF LinkIInv, IInv, Next
  <1>2. CASE Dispatch
    <2>1. /\ registered /\ handler = "idle" /\ events # <<>> /\ events' = Tail(events)
          /\ UNCHANGED <<link, sta_config, console, s_reconnect, bits, registered>>
      BY <1>2 DEF Dispatch, LinkIInv, consoleVars, sharedVars
    <2>2. Head(events) \in {"GOT_IP", "DISCONNECTED"}
      BY <1>1, <2>1 DEF TypeOK
    <2>3. handler' = IF Head(events) = "GOT_IP" THEN "got_ip" ELSE "disconnected"
      BY <1>2, <2>1, <2>2 DEF Dispatch
    <2>4. IF events' = <<>> THEN Latest = Head(events) ELSE Latest' = Latest
      BY <1>1, <2>1, Taken
    <2>5. QED
      BY <1>1, <2>1, <2>2, <2>3, <2>4 DEF LinkIInv
  <1>3. ASSUME UNCHANGED <<events, sta_config, console, registered>>
        PROVE  Latest' = Latest
    BY <1>3 DEF Latest
  <1>4. CASE GotIp
    BY <1>1, <1>3, <1>4 DEF GotIp, HandlerStep, consoleVars, driverVars, LinkIInv
  <1>5. CASE SetConnected
    BY <1>1, <1>3, <1>5 DEF SetConnected, HandlerStep, consoleVars, driverVars, LinkIInv
  <1>6. CASE Disconnected
    BY <1>1, <1>3, <1>6 DEF Disconnected, HandlerStep, consoleVars, driverVars, LinkIInv
  <1>7. CASE Reconnect
    <2>1. link' # "down" /\ (link' = "up" <=> link = "up") /\ registered
          /\ handler = "connect" /\ handler' = "clear"
          /\ UNCHANGED <<events, sta_config, console, registered, bits, s_reconnect>>
      BY <1>1, <1>7 DEF Reconnect, HandlerStep, esp_wifi_connect, consoleVars, LinkIInv, TypeOK
    <2>2. QED
      BY <1>1, <1>3, <2>1 DEF LinkIInv
  <1>8. CASE ClearConnected
    BY <1>1, <1>3, <1>8 DEF ClearConnected, HandlerStep, consoleVars, driverVars, LinkIInv
  <1>9. CASE SetDisconnected
    BY <1>1, <1>3, <1>9 DEF SetDisconnected, HandlerStep, consoleVars, driverVars, LinkIInv
  <1>10. QED
    BY <1>2, <1>4, <1>5, <1>6, <1>7, <1>8, <1>9 DEF Handler

(* A command is typed: only the console moves, and the handler is registered. *)
LEMMA TypedAgrees ==
  ASSUME LinkIInv, Configure \/ Disconnect \/ Scan
  PROVE  LinkIInv'
  <1>1. IInv'
    BY NextKeepsType, NextKeepsScans DEF LinkIInv, IInv, Next
  <1>2. /\ UNCHANGED <<link, events, sta_config, handler, bits, s_reconnect>>
        /\ console = "idle"
        /\ \/ registered' = TRUE
           \/ registered' = registered /\ console' = "scan_disconnect"
    BY DEF Configure, Disconnect, Scan, Type, driverVars, sharedVars
  <1>3. Latest' = Latest
    BY <1>2 DEF Latest
  <1>4. QED
    BY <1>1, <1>2, <1>3 DEF LinkIInv, NotYet, Halfway, UpAgrees, DownAgrees, WillConnect

(* esp_wifi_disconnect leaves its event to be handled. *)
LEMMA DisconnectAgrees ==
  ASSUME LinkIInv, esp_wifi_disconnect,
         UNCHANGED <<handler, bits, s_reconnect, registered>>, IInv',
         console \notin {"config", "connect"},
         ~registered => console' \in {"idle", "retry", "scan"}
  PROVE  LinkIInv'
  <1>1. CASE link = "down"
    <2>1. UNCHANGED <<link, events, sta_config>>
      BY <1>1 DEF esp_wifi_disconnect
    <2>2. Latest' = Latest
      BY <2>1 DEF Latest
    <2>3. NotYet' /\ Halfway' /\ UpAgrees' /\ DownAgrees'
      BY <1>1, <2>1, <2>2 DEF LinkIInv, NotYet, Halfway, UpAgrees, DownAgrees
    <2>4. WillConnect'
      BY <1>1, <2>1 DEF LinkIInv, WillConnect
    <2>5. QED
      BY <2>3, <2>4 DEF LinkIInv
  <1>2. CASE link # "down"
    <2>1. link' = "down" /\ sta_config' = sta_config /\ events' = Append(events, "DISCONNECTED")
      BY <1>2 DEF esp_wifi_disconnect
    <2>2. events' # <<>> /\ Latest' = "DISCONNECTED"
      BY <2>1, Posted DEF LinkIInv, IInv
    <2>3. QED
      BY <1>2, <2>1, <2>2 DEF LinkIInv, NotYet, Halfway, UpAgrees, DownAgrees, WillConnect
  <1>3. QED
    BY <1>1, <1>2

LEMMA ConsoleAgrees ==
  ASSUME LinkIInv, Console
  PROVE  LinkIInv'
  <1>1. IInv' /\ TypeOK
    BY NextKeepsType, NextKeepsScans DEF LinkIInv, IInv, Next
  <1>2. ASSUME events' = events PROVE Latest' = Latest
    BY <1>2 DEF Latest
  <1> USE DEF ConsoleStep
  <1>3. CASE Leave
    BY <1>1, <1>3, DisconnectAgrees DEF Leave, LinkIInv, NotYet
  <1>4. CASE DropConnection
    BY <1>1, <1>4, DisconnectAgrees DEF DropConnection, LinkIInv, NotYet
  <1>5. CASE ScanDisconnect
    BY <1>1, <1>5, DisconnectAgrees DEF ScanDisconnect
  <1>6. CASE RetryDisconnect
    BY <1>1, <1>6, DisconnectAgrees DEF RetryDisconnect
  <1> USE DEF LinkIInv, NotYet, Halfway, UpAgrees, DownAgrees, WillConnect
  <1>7. CASE Forbid
    BY <1>1, <1>2, <1>7 DEF Forbid, driverVars
  <1>8. CASE Poll
    BY <1>1, <1>2, <1>8 DEF Poll, driverVars
  <1>9. CASE Suspend
    BY <1>1, <1>2, <1>9 DEF Suspend, driverVars
  <1>10. CASE Clear
    BY <1>1, <1>2, <1>10 DEF Clear, driverVars
  <1>11. CASE WaitDisconnected
    BY <1>1, <1>2, <1>11 DEF WaitDisconnected, driverVars
  <1>12. CASE Resume
    BY <1>1, <1>2, <1>12 DEF Resume, driverVars
  <1>13. CASE SetConfig
    BY <1>1, <1>2, <1>13 DEF SetConfig, Restart
  <1>14. CASE Connect
    <2>1. link' # "down" /\ (link' = "up" <=> link = "up") /\ registered
          /\ console = "connect" /\ console' = "await"
          /\ UNCHANGED <<events, sta_config, handler, registered, bits, s_reconnect>>
      BY <1>1, <1>14 DEF Connect, esp_wifi_connect, TypeOK
    <2>2. QED
      BY <1>1, <1>2, <2>1
  <1>15. CASE Await
    BY <1>1, <1>2, <1>15 DEF Await, driverVars, sharedVars
  <1>16. CASE ScanStart
    BY <1>1, <1>2, <1>16 DEF ScanStart, driverVars, sharedVars
  <1>17. CASE SetChannel
    BY <1>1, <1>2, <1>17 DEF SetChannel, Restart, driverVars
  <1>18. QED
    BY <1>3, <1>4, <1>5, <1>6, <1>7, <1>8, <1>9, <1>10, <1>11, <1>12, <1>13, <1>14, <1>15, <1>16, <1>17
    DEF Console

LEMMA LinkInvariant == Spec => []LinkIInv
  <1>1. Init => LinkIInv
    <2> SUFFICES ASSUME Init PROVE LinkIInv
      OBVIOUS
    <2>1. IInv
      BY InitIInv
    <2>2. QED
      BY <2>1 DEF Init, LinkIInv, NotYet, Halfway, UpAgrees, DownAgrees, WillConnect
  <1>2. LinkIInv /\ UNCHANGED vars => LinkIInv'
    <2> SUFFICES ASSUME LinkIInv, UNCHANGED vars PROVE LinkIInv'
      OBVIOUS
    <2>1. IInv'
      BY NextKeepsType, NextKeepsScans DEF LinkIInv, IInv
    <2>2. QED
      BY <2>1 DEF LinkIInv, NotYet, Halfway, UpAgrees, DownAgrees, WillConnect, Latest,
         vars, consoleVars, driverVars, sharedVars
  <1>3. LinkIInv /\ [Next]_vars => LinkIInv'
    BY <1>2, DriverAgrees, HandlerAgrees, TypedAgrees, ConsoleAgrees DEF Next
  <1>4. QED
    BY <1>1, <1>3, PTL DEF Spec

(* When all is quiet the event group tells the truth, whatever commands,   *)
(* losses and reconnections overlapped before, and however many there were. *)
THEOREM BitsAgreeAlways == Spec => []BitsAgree
  <1>1. LinkIInv => BitsAgree
    BY DEF LinkIInv, UpAgrees, DownAgrees, BitsAgree, Settled
  <1>2. QED
    BY <1>1, LinkInvariant, PTL

(* A station that shall stay connected never sits there disconnected with   *)
(* neither the command nor the handler about to connect it.                *)
THEOREM NoLostReconnectAlways == Spec => []NoLostReconnect
  <1>1. LinkIInv => NoLostReconnect
    BY DEF LinkIInv, WillConnect, NoLostReconnect, Settled
  <1>2. QED
    BY <1>1, LinkInvariant, PTL

(* A station that "wifi_config --disconnect" has left disconnected stays so *)
(* until the next command.                                                 *)
THEOREM StaysDroppedAlways == Spec => StaysDropped
  <1>1. ASSUME TypeOK, [Next]_vars, Dropped, console' = "idle"
        PROVE  Dropped'
    <2>1. CASE Handler
      <3>1. CASE Dispatch
        <4>1. Head(events) \in {"GOT_IP", "DISCONNECTED"}
          BY <1>1, <3>1 DEF TypeOK, Dispatch
        <4>2. QED
          BY <1>1, <3>1, <4>1 DEF Dropped, Dispatch, consoleVars, sharedVars
      <3>2. CASE ~ Dispatch
        BY <1>1, <2>1, <3>2 DEF Dropped, Handler, GotIp, SetConnected, Disconnected, Reconnect,
           ClearConnected, SetDisconnected, HandlerStep, consoleVars, driverVars
      <3>3. QED
        BY <3>1, <3>2
    <2>2. CASE Configure \/ Disconnect \/ Scan
      BY <1>1, <2>2 DEF Dropped, Configure, Disconnect, Scan, Type
    <2>3. CASE Console
      BY <1>1, <2>3 DEF Dropped, Console, ConsoleStep, Forbid, Leave, Poll, Suspend, Clear,
         DropConnection, WaitDisconnected, Resume, SetConfig, Connect, Await, ScanDisconnect,
         RetryDisconnect, ScanStart, SetChannel
    <2>4. CASE Connected \/ Lost
      BY <1>1, <2>4 DEF Dropped, Connected, Lost
    <2>5. CASE UNCHANGED vars
      BY <1>1, <2>5 DEF Dropped, vars, consoleVars, driverVars, sharedVars
    <2>6. QED
      BY <1>1, <2>1, <2>2, <2>3, <2>4, <2>5 DEF Next
  <1>2. TypeOK /\ [Next]_vars => [Dropped /\ console' = "idle" => Dropped']_vars
    BY <1>1
  <1>3. QED
    BY <1>2, WifiTypeCorrect, PTL DEF Spec, StaysDropped
=============================================================================
