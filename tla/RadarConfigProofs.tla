--------------------------- MODULE RadarConfigProofs ---------------------------
(* Theorems about RadarConfig.                                              *)
(*                                                                          *)
(* The handle names every server that is alive, so that two are never; what *)
(* a task has in hand was read after app_main wrote, and is what is there   *)
(* unless another task has written since.                                   *)
EXTENDS RadarConfig, TLAPS

Alive(v) == server[v] \notin {"none", "dead"}

HandleNamesAlive == \A v \in Servers : Alive(v) => g_tcp_server_task_handle = v

(* Before app_main is done, only an eager operator's command is under way. *)
BootFirst ==
  boot # "done" =>
    /\ event = "idle" /\ router = NONE
    /\ \A v \in Servers : server[v] = "none"
    /\ ~eager => console = "idle" /\ ~choice

CopiesHaveCallback ==
  ~eager /\ boot # "console" =>
    /\ config.radar_cb
    /\ \A t \in Tasks : InHand(t) => copy[t].radar_cb

Wanted == [radar_cb |-> TRUE, filtered_cb |-> choice, filter |-> router, ctx |-> Serving]

CopiesFresh ==
  ~eager /\ ~overlap /\ boot # "console" =>
    /\ config = Wanted
    /\ \A t \in Tasks : InHand(t) => copy[t] = config

-----------------------------------------------------------------------------
LEMMA EmptyType == Empty \in Configs
  BY DEF Empty, Configs

LEMMA TypeInit == Init => TypeOK
  <1> SUFFICES ASSUME Init PROVE TypeOK
    OBVIOUS
  <1>1. config \in Configs /\ copy \in [Tasks -> Configs]
    BY EmptyType DEF Init
  <1>2. 0 \in 0..MaxGotIps /\ 0 \in 0..MaxCommands /\ 0 \in 0..MaxClients
    BY BoundAssumption DEF BoundAssumption
  <1>3. server \in [Servers -> Stages]
    BY DEF Init, Stages
  <1>4. QED
    BY <1>1, <1>2, <1>3 DEF Init, TypeOK

(* A task writes a configuration, reads one or does neither. *)
LEMMA PutType ==
  ASSUME TypeOK, NEW t \in Tasks, NEW new \in Configs, Put(t, new)
  PROVE  config' \in Configs /\ copy' \in [Tasks -> Configs] /\ overlap' \in BOOLEAN
  BY EmptyType DEF TypeOK, Put, Set

LEMMA GetType ==
  ASSUME TypeOK, NEW t \in Tasks, Get(t)
  PROVE  config' \in Configs /\ copy' \in [Tasks -> Configs] /\ overlap' \in BOOLEAN
  BY DEF TypeOK, Get

LEMMA StageType ==
  ASSUME TypeOK, NEW v \in Servers, NEW from, NEW to \in Stages, Stage(v, from, to)
  PROVE  /\ server' \in [Servers -> Stages]
         /\ UNCHANGED <<boot, console, event, gotIps, commands, router, choice, fixedVars>>
  BY DEF TypeOK, Stage

LEMMA ServerIsTask == \A v \in Servers : v \in Tasks
  BY DEF Tasks

LEMMA ServeType ==
  ASSUME TypeOK, NEW v \in Servers, Serve(v) \/ Network(v)
  PROVE  TypeOK'
  <1> DEFINE Rest == /\ server' \in [Servers -> Stages]
                     /\ UNCHANGED <<boot, console, event, gotIps, commands, router, choice,
                                    fixedVars>>
  <1>1. \A from, to : to \in Stages /\ Stage(v, from, to) => Rest
    BY StageType
  <1>2. v \in Tasks
    BY ServerIsTask
  <1>3. CASE Socket(v)
    <2>1. Rest
      BY <1>1, <1>3 DEF Socket, Stages
    <2>2. QED
      BY <1>3, <2>1 DEF Socket, Keep, TypeOK, fixedVars
  <1>4. CASE NoSocket(v)
    <2>1. Rest
      BY <1>1, <1>4 DEF NoSocket, Stages
    <2>2. QED
      BY <1>4, <2>1 DEF NoSocket, Keep, TypeOK, fixedVars
  <1>5. CASE Listen(v)
    <2>1. Rest
      BY <1>1, <1>5 DEF Listen, Stages
    <2>2. QED
      BY <1>5, <2>1 DEF Listen, Keep, TypeOK, fixedVars
  <1>6. CASE GetForClient(v)
    <2>1. Rest
      BY <1>1, <1>6 DEF GetForClient, Stages
    <2>2. QED
      BY <1>2, <1>6, <2>1, GetType DEF GetForClient, TypeOK, fixedVars
  <1>7. CASE SetContext(v)
    <2>1. Rest
      BY <1>1, <1>7 DEF SetContext, Stages
    <2>2. [copy[v] EXCEPT !.ctx = TRUE] \in Configs
      BY <1>2 DEF TypeOK, Configs
    <2>3. QED
      BY <1>7, <2>1, <2>2 DEF SetContext, Set, TypeOK, fixedVars
  <1>8. CASE GetForClearing(v)
    <2>1. Rest
      BY <1>1, <1>8 DEF GetForClearing, Stages
    <2>2. QED
      BY <1>2, <1>8, <2>1, GetType DEF GetForClearing, TypeOK, fixedVars
  <1>9. CASE ClearContext(v)
    <2>1. Rest
      BY <1>1, <1>9 DEF ClearContext, Stages
    <2>2. [copy[v] EXCEPT !.ctx = FALSE] \in Configs
      BY <1>2 DEF TypeOK, Configs
    <2>3. QED
      BY <1>2, <1>9, <2>1, <2>2, PutType DEF ClearContext, TypeOK, fixedVars
  <1>10. CASE CloseListener(v)
    <2>1. Rest
      BY <1>1, <1>10 DEF CloseListener, Stages
    <2>2. QED
      BY <1>10, <2>1 DEF CloseListener, Keep, TypeOK, fixedVars
  <1>11. CASE ForgetHandle(v)
    <2>1. Rest
      BY <1>1, <1>11 DEF ForgetHandle, Stages
    <2>2. QED
      BY <1>11, <2>1 DEF ForgetHandle, Keep, TypeOK, fixedVars
  <1>12. CASE Accept(v)
    <2>1. Rest
      BY <1>1, <1>12 DEF Accept, Stages
    <2>2. QED
      BY <1>12, <2>1, BoundAssumption DEF Accept, Keep, TypeOK, fixedVars, BoundAssumption
  <1>13. CASE AcceptFails(v)
    <2>1. Rest
      BY <1>1, <1>13 DEF AcceptFails, Stages
    <2>2. QED
      BY <1>13, <2>1 DEF AcceptFails, Keep, TypeOK, fixedVars
  <1>14. CASE ClientGone(v)
    <2>1. Rest
      BY <1>1, <1>14 DEF ClientGone, Stages
    <2>2. QED
      BY <1>14, <2>1 DEF ClientGone, Keep, TypeOK, fixedVars
  <1>15. QED
    BY <1>3, <1>4, <1>5, <1>6, <1>7, <1>8, <1>9, <1>10, <1>11, <1>12, <1>13, <1>14
    DEF Serve, Network

LEMMA NextType == TypeOK /\ [Next]_vars => TypeOK'
  <1> SUFFICES ASSUME TypeOK, [Next]_vars PROVE TypeOK'
    OBVIOUS
  <1>1. CASE StartRadar
    <2>1. [Empty EXCEPT !.radar_cb = TRUE] \in Configs
      BY DEF Empty, Configs
    <2>2. QED
      BY <1>1, <2>1 DEF StartRadar, Set, TypeOK, serverVars, counterVars, fixedVars
  <1>2. CASE RegisterHandler
    BY <1>2 DEF RegisterHandler, TypeOK, serverVars, counterVars, fixedVars
  <1>3. CASE GetForOutput
    <2>1. "console" \in Tasks
      BY DEF Tasks
    <2>2. commands' \in 0..MaxCommands
      BY <1>3, BoundAssumption DEF GetForOutput, TypeOK, BoundAssumption
    <2>3. QED
      BY <1>3, <2>1, <2>2, GetType DEF GetForOutput, TypeOK, serverVars, fixedVars
  <1>4. CASE SetOutput
    <2>1. "console" \in Tasks /\ choice' \in BOOLEAN
      BY <1>4 DEF Tasks, SetOutput
    <2>2. [copy["console"] EXCEPT !.filtered_cb = choice'] \in Configs
      BY <2>1 DEF TypeOK, Configs
    <2>3. QED
      BY <1>4, <2>1, <2>2, PutType DEF SetOutput, TypeOK, serverVars, counterVars, fixedVars
  <1>5. CASE GotIp
    <2>1. "event" \in Tasks
      BY DEF Tasks
    <2>2. gotIps' \in 0..MaxGotIps
      BY <1>5, BoundAssumption DEF GotIp, TypeOK, BoundAssumption
    <2>3. QED
      BY <1>5, <2>1, <2>2, GetType DEF GotIp, TypeOK, serverVars, fixedVars
  <1>6. CASE SetFilter
    <2>1. "event" \in Tasks /\ router' \in Routers
      BY <1>6 DEF Tasks, SetFilter
    <2>2. [copy["event"] EXCEPT !.filter = router'] \in Configs
      BY <2>1 DEF TypeOK, Configs
    <2>3. QED
      BY <1>6, <2>1, <2>2, PutType DEF SetFilter, TypeOK, serverVars, counterVars, fixedVars
  <1>7. CASE StartServer
    BY <1>7 DEF StartServer, EventStep, TypeOK, Stages, counterVars, fixedVars
  <1>8. CASE NoNewServer
    BY <1>8 DEF NoNewServer, EventStep, TypeOK, serverVars, counterVars, fixedVars
  <1>9. ASSUME NEW v \in Servers, Serve(v) \/ Network(v) PROVE TypeOK'
    BY <1>9, ServeType
  <1>10. CASE UNCHANGED vars
    BY <1>10 DEF vars, TypeOK, serverVars, counterVars, fixedVars
  <1>11. QED
    BY <1>1, <1>2, <1>3, <1>4, <1>5, <1>6, <1>7, <1>8, <1>9, <1>10 DEF Next, Event

(* Every variable keeps its type. *)
THEOREM RadarConfigTypeCorrect == Spec => []TypeOK
  BY TypeInit, NextType, PTL DEF Spec

-----------------------------------------------------------------------------
(* A server's step leaves it alive, or ends it and clears the handle or    *)
(* was without a socket; it changes no other server.                       *)
LEMMA ServeShape ==
  ASSUME TypeOK, NEW v \in Servers, Serve(v) \/ Network(v)
  PROVE  /\ Alive(v)
         /\ server' = [server EXCEPT ![v] = server'[v]]
         /\ server'[v] # "none"
         /\ g_tcp_server_task_handle' = g_tcp_server_task_handle \/ server'[v] = "dead"
         /\ UNCHANGED <<boot, console, event, router, choice, eager>>
  BY DEF TypeOK, Alive, Serve, Network, Stage, fixedVars, Socket, NoSocket, Listen, GetForClient,
         SetContext, GetForClearing, ClearContext, CloseListener, ForgetHandle, Accept,
         AcceptFails, ClientGone

LEMMA NextHandle == TypeOK /\ HandleNamesAlive /\ [Next]_vars => HandleNamesAlive'
  <1> SUFFICES ASSUME TypeOK, HandleNamesAlive, [Next]_vars PROVE HandleNamesAlive'
    OBVIOUS
  <1>1. ASSUME UNCHANGED serverVars PROVE HandleNamesAlive'
    BY <1>1 DEF HandleNamesAlive, Alive, serverVars
  <1>2. CASE StartServer
    BY <1>2, NoneAssumption DEF StartServer, HandleNamesAlive, Alive, TypeOK
  <1>3. ASSUME NEW v \in Servers, Serve(v) \/ Network(v) PROVE HandleNamesAlive'
    BY <1>3, ServeShape DEF HandleNamesAlive, Alive, TypeOK
  <1>4. QED
    BY <1>1, <1>2, <1>3
    DEF Next, Event, vars, StartRadar, RegisterHandler, GetForOutput, SetOutput, GotIp, SetFilter,
        NoNewServer

LEMMA NextBoot == TypeOK /\ BootFirst /\ [Next]_vars => BootFirst'
  <1> SUFFICES ASSUME TypeOK, BootFirst, [Next]_vars PROVE BootFirst'
    OBVIOUS
  <1> USE DEF BootFirst
  <1>1. CASE StartRadar
    BY <1>1 DEF StartRadar, serverVars, fixedVars
  <1>2. CASE RegisterHandler
    BY <1>2 DEF RegisterHandler
  <1>3. CASE GetForOutput \/ SetOutput
    BY <1>3 DEF GetForOutput, SetOutput, serverVars, fixedVars
  <1>4. CASE GotIp \/ Event
    BY <1>4 DEF GotIp, Event, SetFilter, StartServer, NoNewServer, EventStep
  <1>5. ASSUME NEW v \in Servers, Serve(v) \/ Network(v) PROVE BootFirst'
    BY <1>5, ServeShape DEF Alive
  <1>6. CASE UNCHANGED vars
    BY <1>6 DEF vars, serverVars, fixedVars
  <1>7. QED
    BY <1>1, <1>2, <1>3, <1>4, <1>5, <1>6 DEF Next

LEMMA InvInit == Init => HandleNamesAlive /\ BootFirst /\ CopiesHaveCallback /\ CopiesFresh
  <1> SUFFICES ASSUME Init
               PROVE  HandleNamesAlive /\ BootFirst /\ CopiesHaveCallback /\ CopiesFresh
    OBVIOUS
  <1>1. HandleNamesAlive /\ BootFirst
    BY DEF Init, HandleNamesAlive, Alive, BootFirst
  <1>2. QED
    BY <1>1 DEF Init, CopiesHaveCallback, CopiesFresh

-----------------------------------------------------------------------------
(* A server's step reads a configuration, writes one or leaves it alone.   *)

LEMMA ServeCallback ==
  ASSUME TypeOK, CopiesHaveCallback, NEW v \in Servers, Serve(v) \/ Network(v)
  PROVE  CopiesHaveCallback'
  <1> SUFFICES ASSUME ~eager', boot' # "console"
               PROVE  config'.radar_cb /\ \A t \in Tasks : InHand(t)' => copy'[t].radar_cb
    BY DEF CopiesHaveCallback
  <1>1. v \in Tasks /\ v # "console" /\ v # "event"
    BY TaskAssumption DEF Tasks
  <1>2. /\ config.radar_cb
        /\ \A t \in Tasks : InHand(t) => copy[t].radar_cb
    BY ServeShape DEF CopiesHaveCallback
  <1>3. ASSUME NEW t \in Tasks, t # v PROVE InHand(t)' <=> InHand(t)
    BY <1>3, ServeShape DEF InHand, TypeOK
  <1>4. ASSUME Get(v) PROVE config'.radar_cb /\ \A t \in Tasks : InHand(t)' => copy'[t].radar_cb
    BY <1>1, <1>2, <1>3, <1>4 DEF Get, TypeOK
  <1>5. CASE SetContext(v)
    <2>1. InHand(v) /\ ~InHand(v)'
      BY <1>1, <1>5 DEF SetContext, Stage, InHand, TypeOK
    <2>2. config' = [copy[v] EXCEPT !.ctx = TRUE] /\ copy' = copy
      BY <1>5 DEF SetContext, Set
    <2>3. QED
      BY <1>1, <1>2, <1>3, <2>1, <2>2 DEF TypeOK, Configs
  <1>6. CASE ClearContext(v)
    <2>1. InHand(v) /\ ~InHand(v)'
      BY <1>1, <1>6 DEF ClearContext, Stage, InHand, TypeOK
    <2>2. config' = [copy[v] EXCEPT !.ctx = FALSE] /\ copy' = [copy EXCEPT ![v] = Empty]
      BY <1>6 DEF ClearContext, Put, Set
    <2>3. QED
      BY <1>1, <1>2, <1>3, <2>1, <2>2 DEF TypeOK, Configs
  <1>7. ASSUME config' = config, copy' = copy, InHand(v)' => InHand(v)
        PROVE  config'.radar_cb /\ \A t \in Tasks : InHand(t)' => copy'[t].radar_cb
    BY <1>2, <1>3, <1>7
  <1>8. CASE Socket(v) \/ NoSocket(v) \/ Listen(v) \/ CloseListener(v) \/ ForgetHandle(v)
    <2>1. ~InHand(v)' /\ UNCHANGED <<config, copy>>
      BY <1>1, <1>8 DEF Socket, NoSocket, Listen, CloseListener, ForgetHandle, Keep, Stage, InHand,
                        TypeOK
    <2>2. QED
      BY <1>7, <2>1
  <1>9. CASE Network(v)
    <2>1. ~InHand(v)' /\ UNCHANGED <<config, copy>>
      BY <1>1, <1>9 DEF Network, Accept, AcceptFails, ClientGone, Keep, Stage, InHand, TypeOK
    <2>2. QED
      BY <1>7, <2>1
  <1>10. QED
    BY <1>4, <1>5, <1>6, <1>8, <1>9 DEF Serve, GetForClient, GetForClearing

LEMMA NextCallback ==
  TypeOK /\ BootFirst /\ CopiesHaveCallback /\ [Next]_vars => CopiesHaveCallback'
  <1> SUFFICES ASSUME TypeOK, BootFirst, CopiesHaveCallback, [Next]_vars
               PROVE  CopiesHaveCallback'
    OBVIOUS
  <1>1. CASE StartRadar
    BY <1>1 DEF StartRadar, Set, Empty, BootFirst, CopiesHaveCallback, InHand, fixedVars, serverVars
  <1>2. CASE RegisterHandler
    BY <1>2 DEF RegisterHandler, CopiesHaveCallback, InHand, fixedVars, serverVars
  <1>3. CASE GetForOutput \/ GotIp
    BY <1>3 DEF GetForOutput, GotIp, Get, CopiesHaveCallback, InHand, fixedVars, serverVars,
                TypeOK, Tasks
  <1>4. CASE SetOutput
    <2>1. /\ "console" \in Tasks /\ InHand("console") /\ ~InHand("console")'
          /\ \A t \in Tasks : InHand(t)' => InHand(t)
          /\ eager' = eager /\ boot' = boot
      BY <1>4, TaskAssumption DEF SetOutput, InHand, Tasks, serverVars, fixedVars
    <2>2. /\ config' = [copy["console"] EXCEPT !.filtered_cb = choice']
          /\ copy' = [copy EXCEPT !["console"] = Empty]
      BY <1>4 DEF SetOutput, Put, Set
    <2>3. copy \in [Tasks -> Configs]
      BY DEF TypeOK
    <2>4. config'.radar_cb = copy["console"].radar_cb
      BY <2>1, <2>2, <2>3 DEF Configs
    <2>5. QED
      BY <2>1, <2>2, <2>3, <2>4 DEF CopiesHaveCallback
  <1>5. CASE SetFilter
    <2>1. /\ "event" \in Tasks /\ InHand("event") /\ ~InHand("event")'
          /\ \A t \in Tasks : InHand(t)' => InHand(t)
          /\ eager' = eager /\ boot' = boot
      BY <1>5, TaskAssumption DEF SetFilter, InHand, Tasks, serverVars, fixedVars
    <2>2. /\ config' = [copy["event"] EXCEPT !.filter = router']
          /\ copy' = [copy EXCEPT !["event"] = Empty]
      BY <1>5 DEF SetFilter, Put, Set
    <2>3. copy \in [Tasks -> Configs]
      BY DEF TypeOK
    <2>4. config'.radar_cb = copy["event"].radar_cb
      BY <2>1, <2>2, <2>3 DEF Configs
    <2>5. QED
      BY <2>1, <2>2, <2>3, <2>4 DEF CopiesHaveCallback
  <1>6. CASE StartServer
    BY <1>6 DEF StartServer, EventStep, CopiesHaveCallback, InHand, fixedVars, TypeOK
  <1>7. CASE NoNewServer \/ UNCHANGED vars
    BY <1>7 DEF NoNewServer, EventStep, vars, CopiesHaveCallback, InHand, fixedVars, serverVars
  <1>8. ASSUME NEW v \in Servers, Serve(v) \/ Network(v) PROVE CopiesHaveCallback'
    BY <1>8, ServeCallback
  <1>9. QED
    BY <1>1, <1>2, <1>3, <1>4, <1>5, <1>6, <1>7, <1>8 DEF Next, Event

-----------------------------------------------------------------------------
(* What is there is what is wanted, unless updates have overlapped.        *)

Pending == {"serving", "closed", "clear_ctx"}

LEMMA ServingKept ==
  ASSUME TypeOK, NEW v \in Servers, server' = [server EXCEPT ![v] = server'[v]],
         server[v] \in Pending <=> server'[v] \in Pending
  PROVE  Serving' = Serving
  <1>1. \A w \in Servers : server'[w] \in Pending <=> server[w] \in Pending
    BY DEF TypeOK
  <1>2. Serving' <=> Serving
    BY <1>1 DEF Serving, Pending
  <1>3. Serving' \in BOOLEAN /\ Serving \in BOOLEAN
    BY DEF Serving
  <1>4. QED
    BY <1>2, <1>3

LEMMA ServeFresh ==
  ASSUME TypeOK, HandleNamesAlive, CopiesFresh, NEW v \in Servers, Serve(v) \/ Network(v)
  PROVE  CopiesFresh'
  <1> SUFFICES ASSUME ~eager', ~overlap', boot' # "console"
               PROVE  config' = Wanted' /\ \A t \in Tasks : InHand(t)' => copy'[t] = config'
    BY DEF CopiesFresh
  <1>1. v \in Tasks /\ v # "console" /\ v # "event"
    BY TaskAssumption DEF Tasks
  <1>2. ~overlap
    BY DEF TypeOK, Serve, Network, Socket, NoSocket, Listen, GetForClient, SetContext,
           GetForClearing, ClearContext, CloseListener, ForgetHandle, Accept, AcceptFails,
           ClientGone, Keep, Get, Put, Set
  <1>3. config = Wanted /\ \A t \in Tasks : InHand(t) => copy[t] = config
    BY <1>2, ServeShape DEF CopiesFresh
  <1>4. ASSUME NEW t \in Tasks, t # v PROVE InHand(t)' <=> InHand(t)
    BY <1>4, ServeShape DEF InHand, TypeOK
  <1>5. choice' = choice /\ router' = router
    BY ServeShape
  <1>6. ASSUME server[v] \in Pending <=> server'[v] \in Pending PROVE Wanted' = Wanted
    <2>1. Serving' = Serving
      BY <1>6, ServeShape, ServingKept
    <2>2. QED
      BY <1>5, <2>1 DEF Wanted
  <1>7. ASSUME Get(v), server[v] \in Pending <=> server'[v] \in Pending
        PROVE  config' = Wanted' /\ \A t \in Tasks : InHand(t)' => copy'[t] = config'
    BY <1>1, <1>3, <1>4, <1>6, <1>7 DEF Get, TypeOK
  <1>8. CASE GetForClient(v) \/ GetForClearing(v)
    <2>1. Get(v) /\ (server[v] \in Pending <=> server'[v] \in Pending)
      BY <1>8 DEF GetForClient, GetForClearing, Stage, Pending, TypeOK
    <2>2. QED
      BY <1>7, <2>1
  <1>9. CASE SetContext(v)
    <2>1. InHand(v) /\ ~InHand(v)' /\ server'[v] = "serving"
      BY <1>1, <1>9 DEF SetContext, Stage, InHand, TypeOK
    <2>2. /\ config' = [copy[v] EXCEPT !.ctx = TRUE]
          /\ copy' = copy
          /\ \A t \in Tasks \ {v} : ~InHand(t)
      BY <1>9 DEF SetContext, Set
    <2>3. Serving' = TRUE
      BY <2>1 DEF Serving
    <2>4. config' = Wanted'
      <3>1. copy[v] = Wanted
        BY <1>1, <1>3, <2>1
      <3>2. config' = [Wanted EXCEPT !.ctx = TRUE]
        BY <2>2, <3>1, Zenon
      <3>3. QED
        BY <1>5, <2>3, <3>2 DEF Wanted
    <2>5. QED
      BY <1>4, <2>1, <2>2, <2>4
  <1>10. CASE ClearContext(v)
    <2>1. InHand(v) /\ ~InHand(v)' /\ server'[v] = "listen"
      BY <1>1, <1>10 DEF ClearContext, Stage, InHand, TypeOK
    <2>2. /\ config' = [copy[v] EXCEPT !.ctx = FALSE]
          /\ copy' = [copy EXCEPT ![v] = Empty]
          /\ \A t \in Tasks \ {v} : ~InHand(t)
      BY <1>10 DEF ClearContext, Put, Set
    <2>3. Serving' = FALSE
      <3>1. \A w \in Servers : w # v => server'[w] = server[w] /\ ~Alive(w)
        BY ServeShape DEF HandleNamesAlive, TypeOK
      <3>2. QED
        BY <2>1, <3>1 DEF Serving, Alive
    <2>4. config' = Wanted'
      <3>1. copy[v] = Wanted
        BY <1>1, <1>3, <2>1
      <3>2. config' = [Wanted EXCEPT !.ctx = FALSE]
        BY <2>2, <3>1, Zenon
      <3>3. QED
        BY <1>5, <2>3, <3>2 DEF Wanted
    <2>5. QED
      BY <1>4, <2>1, <2>2, <2>4
  <1>11. ASSUME config' = config, copy' = copy, ~InHand(v)',
                server[v] \in Pending <=> server'[v] \in Pending
         PROVE  config' = Wanted' /\ \A t \in Tasks : InHand(t)' => copy'[t] = config'
    BY <1>3, <1>4, <1>6, <1>11
  <1>12. CASE Socket(v) \/ NoSocket(v) \/ Listen(v) \/ CloseListener(v) \/ ForgetHandle(v)
    <2>1. /\ ~InHand(v)' /\ UNCHANGED <<config, copy>>
          /\ server[v] \in Pending <=> server'[v] \in Pending
      BY <1>1, <1>12 DEF Socket, NoSocket, Listen, CloseListener, ForgetHandle, Keep, Stage,
                         InHand, TypeOK, Pending
    <2>2. QED
      BY <1>11, <2>1
  <1>13. CASE Network(v)
    <2>1. /\ ~InHand(v)' /\ UNCHANGED <<config, copy>>
          /\ server[v] \in Pending <=> server'[v] \in Pending
      BY <1>1, <1>13 DEF Network, Accept, AcceptFails, ClientGone, Keep, Stage, InHand, TypeOK,
                         Pending
    <2>2. QED
      BY <1>11, <2>1
  <1>14. QED
    BY <1>8, <1>9, <1>10, <1>12, <1>13 DEF Serve

LEMMA NextFresh ==
  TypeOK /\ HandleNamesAlive /\ BootFirst /\ CopiesFresh /\ [Next]_vars => CopiesFresh'
  <1> SUFFICES ASSUME TypeOK, HandleNamesAlive, BootFirst, CopiesFresh, [Next]_vars
               PROVE  CopiesFresh'
    OBVIOUS
  <1> DEFINE Goal == config' = Wanted' /\ \A t \in Tasks : InHand(t)' => copy'[t] = config'
  <1>0. (~eager' /\ ~overlap' /\ boot' # "console" => Goal) => CopiesFresh'
    BY DEF CopiesFresh
  <1>1. ASSUME UNCHANGED server PROVE Serving' = Serving
    BY <1>1 DEF Serving
  <1>2. CASE StartRadar
    <2>1. Serving' = FALSE
      BY <1>2 DEF StartRadar, BootFirst, Serving, serverVars
    <2>2. /\ config' = [Empty EXCEPT !.radar_cb = TRUE]
          /\ eager' = eager /\ choice' = choice /\ router' = NONE
          /\ \A t \in Tasks : InHand(t)' <=> InHand(t)
      BY <1>2 DEF StartRadar, Set, BootFirst, InHand, serverVars, fixedVars
    <2>3. ~eager => choice = FALSE /\ \A t \in Tasks : ~InHand(t)
      BY <1>2 DEF StartRadar, BootFirst, InHand, TypeOK
    <2>4. QED
      BY <1>0, <2>1, <2>2, <2>3 DEF Empty, Wanted
  <1>3. CASE RegisterHandler
    BY <1>1, <1>3 DEF RegisterHandler, CopiesFresh, Wanted, InHand, fixedVars, serverVars, BootFirst
  <1>4. ASSUME NEW t \in {"console", "event"}, Get(t), UNCHANGED <<server, eager, choice, router>>,
               boot' = boot, \A u \in Tasks \ {t} : InHand(u)' <=> InHand(u)
        PROVE  CopiesFresh'
    <2>1. t \in Tasks /\ copy \in [Tasks -> Configs]
      BY DEF Tasks, TypeOK
    <2>2. Wanted' = Wanted
      BY <1>1, <1>4 DEF Wanted
    <2>3. QED
      BY <1>4, <2>1, <2>2 DEF CopiesFresh, Get
  <1>5. CASE GetForOutput
    BY <1>4, <1>5, TaskAssumption DEF GetForOutput, InHand, fixedVars, serverVars
  <1>6. CASE GotIp
    BY <1>4, <1>6, TaskAssumption DEF GotIp, InHand, fixedVars, serverVars
  <1>7. CASE SetOutput
    <2>1. /\ "console" \in Tasks /\ InHand("console") /\ ~InHand("console")'
          /\ \A t \in Tasks : InHand(t)' => InHand(t)
          /\ eager' = eager /\ boot' = boot /\ router' = router /\ UNCHANGED server
      BY <1>7, TaskAssumption DEF SetOutput, InHand, Tasks, serverVars, fixedVars
    <2>2. /\ config' = [copy["console"] EXCEPT !.filtered_cb = choice']
          /\ ~overlap' => ~overlap /\ \A t \in Tasks \ {"console"} : ~InHand(t)
      BY <1>7 DEF SetOutput, Put, Set, TypeOK
    <2>3. Serving' = Serving
      BY <1>1, <2>1
    <2>4. ~eager /\ ~overlap /\ boot # "console" => copy["console"] = Wanted
      BY <2>1 DEF CopiesFresh
    <2>5. ASSUME copy["console"] = Wanted PROVE config' = Wanted'
      <3>1. config' = [Wanted EXCEPT !.filtered_cb = choice']
        BY <2>2, <2>5, Zenon
      <3>2. QED
        BY <2>1, <2>3, <3>1 DEF Wanted
    <2>6. QED
      BY <1>0, <2>1, <2>2, <2>4, <2>5
  <1>8. CASE SetFilter
    <2>1. /\ "event" \in Tasks /\ InHand("event") /\ ~InHand("event")'
          /\ \A t \in Tasks : InHand(t)' => InHand(t)
          /\ eager' = eager /\ boot' = boot /\ choice' = choice /\ UNCHANGED server
      BY <1>8, TaskAssumption DEF SetFilter, InHand, Tasks, serverVars, fixedVars
    <2>2. /\ config' = [copy["event"] EXCEPT !.filter = router']
          /\ ~overlap' => ~overlap /\ \A t \in Tasks \ {"event"} : ~InHand(t)
      BY <1>8 DEF SetFilter, Put, Set, TypeOK
    <2>3. Serving' = Serving
      BY <1>1, <2>1
    <2>4. ~eager /\ ~overlap /\ boot # "console" => copy["event"] = Wanted
      BY <2>1 DEF CopiesFresh
    <2>5. ASSUME copy["event"] = Wanted PROVE config' = Wanted'
      <3>1. config' = [Wanted EXCEPT !.filter = router']
        BY <2>2, <2>5, Zenon
      <3>2. QED
        BY <2>1, <2>3, <3>1 DEF Wanted
    <2>6. QED
      BY <1>0, <2>1, <2>2, <2>4, <2>5
  <1>9. CASE StartServer
    <2>1. PICK v \in Servers : server[v] = "none" /\ server' = [server EXCEPT ![v] = "start"]
      BY <1>9 DEF StartServer
    <2>2. Serving' = Serving
      BY <2>1, ServingKept DEF Pending, TypeOK
    <2>3. /\ UNCHANGED <<config, copy, boot, choice, router, overlap, eager>>
          /\ \A t \in Tasks : InHand(t)' => InHand(t)
      BY <1>9, <2>1 DEF StartServer, EventStep, InHand, TypeOK, fixedVars
    <2>4. QED
      BY <2>2, <2>3 DEF CopiesFresh, Wanted
  <1>10. CASE NoNewServer \/ UNCHANGED vars
    <2>1. /\ UNCHANGED <<config, copy, boot, choice, router, overlap, eager, server>>
          /\ \A t \in Tasks : InHand(t)' => InHand(t)
      BY <1>10 DEF NoNewServer, EventStep, vars, InHand, fixedVars, serverVars
    <2>2. QED
      BY <1>1, <2>1 DEF CopiesFresh, Wanted
  <1>11. ASSUME NEW v \in Servers, Serve(v) \/ Network(v) PROVE CopiesFresh'
    BY <1>11, ServeFresh
  <1>12. QED
    BY <1>2, <1>3, <1>5, <1>6, <1>7, <1>8, <1>9, <1>10, <1>11 DEF Next, Event

-----------------------------------------------------------------------------
IInv == TypeOK /\ HandleNamesAlive /\ BootFirst /\ CopiesHaveCallback /\ CopiesFresh

LEMMA Inductive == Spec => []IInv
  <1>1. Init => IInv
    BY TypeInit, InvInit DEF IInv
  <1>2. IInv /\ [Next]_vars => IInv'
    BY NextType, NextHandle, NextBoot, NextCallback, NextFresh DEF IInv
  <1>3. QED
    BY <1>1, <1>2, PTL DEF Spec

(* No two servers have a socket for the port at a time: the handle is set  *)
(* before a server runs and cleared when it has closed its socket.         *)
THEOREM RadarConfigOneListener == Spec => []OneListener
  <1>1. IInv => OneListener
    BY DEF IInv, HandleNamesAlive, Alive, OneListener, HasListener
  <1>2. QED
    BY <1>1, Inductive, PTL

(* However updates overlap, the radar keeps the callback app_main gave it. *)
THEOREM RadarConfigCallbackStays == Spec => []RadarCallbackStays
  <1>1. IInv => RadarCallbackStays
    BY DEF IInv, CopiesHaveCallback, RadarCallbackStays
  <1>2. QED
    BY <1>1, Inductive, PTL

(* While none has overlapped, every task's last change is in the           *)
(* configuration.                                                          *)
THEOREM RadarConfigNoLostUpdate == Spec => []NoLostUpdate
  <1>1. IInv => NoLostUpdate
    BY DEF IInv, CopiesFresh, Wanted, NoLostUpdate
  <1>2. QED
    BY <1>1, Inductive, PTL
=============================================================================
