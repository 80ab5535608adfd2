---------------------------- MODULE CollectProofs ----------------------------
(***************************************************************************)
(* Proofs about labelled collection (Collect): for any set of timers, any    *)
(* numbers of samples, any modulus of the counter and any length of the      *)
(* timer service's queue.                                                   *)
(***************************************************************************)
EXTENDS Collect, Integers, TLAPS

-----------------------------------------------------------------------------
CommandSet == {"start", "stop", "delete"} \X Timers

(* Between callbacks, and in one before it decides to end the collection.    *)
Counting == service \in {"idle", "drain", "store"}

(* The timers that are known are created ones; another can be created.       *)
Known(t) == t \in Timers /\ timer[t] # "none"

HandlesKnown ==
  /\ g_collect_timer_handele # NULL => Known(g_collect_timer_handele)
  /\ console \in {"stop", "delete", "start"} => Known(consoleArg)
  /\ service \in {"stop", "delete"} => Known(serviceArg)
  /\ service = "store" => serviceArg \in 0..(Modulus - 1)
  /\ \A i \in 1..Len(commands) : Known(commands[i][2])
  /\ console \in {"label", "test", "stop", "load_delete", "delete", "create"} => MayBegin

NoCommand(t)   == \A i \in 1..Len(commands) : commands[i][2] # t
OnlyStarts(t)  == \A i \in 1..Len(commands) : commands[i][2] = t => commands[i][1] = "start"
StartWaits(t)  == \E i \in 1..Len(commands) : commands[i] = <<"start", t>>

(* The label's timer: created and not yet started, or started, or about to.  *)
LabelTimer ==
  labelled /\ Counting =>
    /\ console \in {"load_start", "start"} =>
         /\ g_collect_timer_handele # NULL => timer[g_collect_timer_handele] = "dormant"
         /\ NoCommand(g_collect_timer_handele)
    /\ console = "start" => consoleArg = g_collect_timer_handele
    /\ console \in {"idle", "label"} =>
         /\ g_collect_timer_handele # NULL
         /\ OnlyStarts(g_collect_timer_handele)
         /\ \/ timer[g_collect_timer_handele] = "active"
            \/ timer[g_collect_timer_handele] = "dormant" /\ StartWaits(g_collect_timer_handele)

LabelIInv == TypeOK /\ HandlesKnown /\ LabelTimer

-----------------------------------------------------------------------------
(* The command the timer service takes, and what it does.                    *)
LEMMA CommandTaken ==
  ASSUME TypeOK, HandlesKnown, Command
  PROVE  /\ service \in {"idle", "drain"} /\ commands # << >>
         /\ \/ timer[commands[1][2]] = "deleted" /\ Reset
            \/ \E c \in {"start", "stop", "delete"}, t \in Timers :
                 /\ commands[1] = <<c, t>> /\ timer[t] # "none"
                 /\ commands' = Tail(commands)
                 /\ timer' = [timer EXCEPT ![t] =
                      IF timer[t] = "deleted" THEN "deleted"
                      ELSE IF c = "start" THEN "active"
                      ELSE IF c = "stop" THEN "dormant" ELSE "deleted"]
                 /\ service' = IF commands' = << >> THEN "idle" ELSE "drain"
                 /\ UNCHANGED <<collect_number, labelled, g_collect_timer_handele, serviceArg>>
                 /\ OthersUnchanged
<1> DEFINE c == Head(commands)[1]
           t == Head(commands)[2]
<1>1. service \in {"idle", "drain"} /\ commands # << >>
  BY DEF Command
<1>2. commands \in Seq(CommandSet) /\ timer \in [Timers -> {"none", "dormant", "active", "deleted"}]
  BY DEF TypeOK, CommandSet
<1>3. Head(commands) = commands[1] /\ commands[1] \in CommandSet /\ 1 \in 1..Len(commands)
  BY <1>1, <1>2
<1>4. commands[1] = <<c, t>> /\ c \in {"start", "stop", "delete"} /\ t \in Timers
  BY <1>3 DEF CommandSet
<1>5. timer[t] # "none"
  BY <1>3 DEF HandlesKnown, Known
<1>6. CASE timer[t] = "deleted" /\ Reset
  BY <1>1, <1>3, <1>6
<1>7. CASE ~ (timer[t] = "deleted" /\ Reset)
  <2>1. /\ commands' = Tail(commands)
        /\ timer' = IF timer[t] = "deleted" THEN timer
                    ELSE [timer EXCEPT ![t] = CASE c = "start"  -> "active"
                                                [] c = "stop"   -> "dormant"
                                                [] c = "delete" -> "deleted"]
        /\ service' = IF commands' = << >> THEN "idle" ELSE "drain"
        /\ UNCHANGED <<collect_number, labelled, g_collect_timer_handele, serviceArg>>
        /\ OthersUnchanged
    BY <1>7 DEF Command, Return
  <2> HIDE DEF c, t
  <2>2. timer' = [timer EXCEPT ![t] =
                      IF timer[t] = "deleted" THEN "deleted"
                      ELSE IF c = "start" THEN "active"
                      ELSE IF c = "stop" THEN "dormant" ELSE "deleted"]
    <3>1. CASE timer[t] = "deleted"
      BY <2>1, <3>1, <1>2, <1>4
    <3>2. CASE timer[t] # "deleted" /\ c = "start"
      BY <2>1, <3>2, <1>2, <1>4
    <3>3. CASE timer[t] # "deleted" /\ c = "stop"
      BY <2>1, <3>3, <1>2, <1>4
    <3>4. CASE timer[t] # "deleted" /\ c = "delete"
      BY <2>1, <3>4, <1>2, <1>4
    <3>5. QED
      BY <1>4, <3>1, <3>2, <3>3, <3>4
  <2>3. QED
    BY <1>1, <1>4, <1>5, <2>1, <2>2
<1>8. QED
  BY <1>6, <1>7

(* Decrementing an unsigned number of a given width.                         *)
LEMMA Decrement ==
  ASSUME NEW a \in 0..(Modulus - 1)
  PROVE  (a + Modulus - 1) % Modulus = IF a = 0 THEN Modulus - 1 ELSE a - 1
<1>1. Modulus \in Nat \ {0} /\ a \in Nat /\ a < Modulus
  BY ModulusAssumption
<1>2. CASE a = 0
  <2>1. a + Modulus - 1 = Modulus - 1
    BY <1>1, <1>2
  <2>2. QED
    BY <1>1, <1>2, <2>1
<1>3. CASE a # 0
  <2>1. a + Modulus - 1 = 1 * Modulus + (a - 1) /\ a - 1 \in 0..(Modulus - 1)
    BY <1>1, <1>3
  <2>2. QED
    BY <1>1, <1>3, <2>1
<1>4. QED
  BY <1>2, <1>3

LEMMA ResetKnown ==
  ASSUME TypeOK, Reset
  PROVE  TypeOK' /\ HandlesKnown' /\ LabelTimer'
<1>1. 0 \in 0..(Modulus - 1)
  BY ModulusAssumption
<1>2. timer' \in [Timers -> {"none", "dormant", "active", "deleted"}]
  BY DEF Reset, TypeOK
<1>3. TypeOK'
  <2>1. commands' \in Seq({"start", "stop", "delete"} \X Timers)
    BY DEF Reset
  <2>2. files' \in Seq(0..(Modulus - 1)) /\ taget_last' \in BOOLEAN
        /\ taget_seq_last' \in 0..(Modulus - 1) /\ patient' \in BOOLEAN
    BY DEF Reset, TypeOK, hostVars
  <2>3. QED
    BY <1>1, <1>2, <2>1, <2>2 DEF Reset, TypeOK, Handles
<1>4. HandlesKnown'
  BY DEF Reset, HandlesKnown
<1>5. LabelTimer'
  BY DEF Reset, LabelTimer
<1>6. QED
  BY <1>3, <1>4, <1>5

LEMMA ConsoleKnown ==
  ASSUME TypeOK, HandlesKnown, SetNumber \/ Console
  PROVE  TypeOK' /\ HandlesKnown'
<1> USE DEF consoleVars, serviceVars, timerVars, printVars, hostVars
<1>1. CASE SetNumber
  <2>1. wanted' \in 0..(Modulus - 1)
    BY <1>1, ModulusAssumption DEF SetNumber
  <2>2. TypeOK'
    BY <1>1, <2>1 DEF SetNumber, TypeOK
  <2>3. HandlesKnown'
    BY <1>1 DEF SetNumber, HandlesKnown, Known, MayBegin
  <2>4. QED
    BY <2>2, <2>3
<1>2. CASE SetTaget
  BY <1>2 DEF SetTaget, ConsoleStep, TypeOK, HandlesKnown, Known, MayBegin
<1>3. CASE TestHandle
  BY <1>3 DEF TestHandle, ConsoleStep, TypeOK, HandlesKnown, Known, MayBegin
<1>4. ASSUME NEW from, NEW to,
             <<from, to>> \in {<<"stop", "load_delete">>, <<"delete", "create">>, <<"start", "idle">>},
             Post(from, to, from)
      PROVE  TypeOK' /\ HandlesKnown'
  <2>1. consoleArg \in Timers /\ timer[consoleArg] # "none"
    BY <1>4 DEF Post, ConsoleStep, HandlesKnown, Known
  <2>2. <<from, consoleArg>> \in CommandSet /\ commands \in Seq(CommandSet)
    BY <1>4, <2>1 DEF TypeOK, CommandSet
  <2>3. commands' = Append(commands, <<from, consoleArg>>)
    BY <1>4 DEF Post
  <2>4. commands' \in Seq(CommandSet)
    BY <2>2, <2>3
  <2>5. TypeOK'
    BY <1>4, <2>4 DEF Post, ConsoleStep, TypeOK, CommandSet, Handles
  <2>6. \A i \in 1..Len(commands') : commands'[i][2] \in Timers /\ timer[commands'[i][2]] # "none"
    BY <2>1, <2>2, <2>3 DEF HandlesKnown, Known
  <2>7. HandlesKnown'
    BY <1>4, <2>6 DEF Post, ConsoleStep, HandlesKnown, Known, MayBegin
  <2>8. QED
    BY <2>5, <2>7
<1>5. CASE LoadHandle("load_delete", "delete") \/ LoadHandle("load_start", "start")
  BY <1>5 DEF LoadHandle, ConsoleStep, TypeOK, HandlesKnown, Known, MayBegin
<1>6. CASE CreateTimer
  <2>1. PICK t \in Timers : timer[t] = "none"
    BY <1>6 DEF CreateTimer, ConsoleStep, HandlesKnown, MayBegin
  <2>2. PICK u \in Timers : /\ timer[u] = "none"
                            /\ timer' = [timer EXCEPT ![u] = "dormant"]
                            /\ g_collect_timer_handele' = u
    BY <1>6, <2>1 DEF CreateTimer
  <2>3. TypeOK'
    BY <1>6, <2>2 DEF CreateTimer, ConsoleStep, TypeOK, Handles
  <2>4. \A v \in Timers : timer'[v] = IF v = u THEN "dormant" ELSE timer[v]
    BY <2>2 DEF TypeOK
  <2>5. HandlesKnown'
    <3>1. \A v : Known(v) => Known(v)'
      BY <2>4 DEF Known
    <3>2. Known(u)'
      BY <2>4 DEF Known
    <3>3. /\ console' = "load_start" /\ UNCHANGED <<service, serviceArg, commands>>
          /\ g_collect_timer_handele' = u
      BY <1>6, <2>2 DEF CreateTimer, ConsoleStep
    <3> HIDE DEF Known
    <3>4. QED
      BY <3>1, <3>2, <3>3 DEF HandlesKnown
  <2>6. QED
    BY <2>3, <2>5
<1>7. CASE LoadNull
  BY <1>7, ResetKnown DEF LoadNull
<1>8. QED
  BY <1>1, <1>2, <1>3, <1>4, <1>5, <1>6, <1>7 DEF Console

LEMMA ServiceKnown ==
  ASSUME TypeOK, HandlesKnown, Service
  PROVE  TypeOK' /\ HandlesKnown'
<1> USE DEF consoleVars, serviceVars, timerVars, printVars, hostVars, OthersUnchanged
<1>1. CASE \E t \in Timers : Expire(t)
  BY <1>1 DEF Expire, TypeOK, HandlesKnown, Known, MayBegin
<1>2. CASE Store
  <2>1. collect_number' \in 0..(Modulus - 1)
    <3>1. serviceArg \in 0..(Modulus - 1)
      BY <1>2 DEF Store, HandlesKnown
    <3>2. collect_number' = IF serviceArg = 0 THEN Modulus - 1 ELSE serviceArg - 1
      BY <1>2, <3>1, Decrement DEF Store
    <3>3. QED
      BY <3>1, <3>2, ModulusAssumption
  <2>2. service' \in {"load_stop", "idle", "drain"}
    BY <1>2 DEF Store, Return
  <2>3. TypeOK'
    BY <1>2, <2>1, <2>2 DEF Store, TypeOK, Handles
  <2>4. HandlesKnown'
    BY <1>2, <2>2 DEF Store, HandlesKnown, Known, MayBegin
  <2>5. QED
    BY <2>3, <2>4
<1>3. CASE ServiceLoads("load_stop", "stop") \/ ServiceLoads("load_delete", "delete")
  BY <1>3 DEF ServiceLoads, TypeOK, HandlesKnown, Known, MayBegin
<1>4. ASSUME NEW from \in {"stop", "delete"}, NEW to \in {"load_delete", "forget"},
             ServicePosts(from, to, from)
      PROVE  TypeOK' /\ HandlesKnown'
  <2>1. serviceArg \in Timers /\ timer[serviceArg] # "none"
    BY <1>4 DEF ServicePosts, HandlesKnown, Known
  <2>2. <<from, serviceArg>> \in CommandSet /\ commands \in Seq(CommandSet)
    BY <1>4, <2>1 DEF TypeOK, CommandSet
  <2>3. commands' = Append(commands, <<from, serviceArg>>) \/ commands' = commands
    BY <1>4 DEF ServicePosts
  <2>4. commands' \in Seq(CommandSet)
    BY <2>2, <2>3
  <2>5. TypeOK'
    BY <1>4, <2>4 DEF ServicePosts, TypeOK, CommandSet, Handles
  <2>6. \A i \in 1..Len(commands') : commands'[i][2] \in Timers /\ timer[commands'[i][2]] # "none"
    BY <2>1, <2>2, <2>3 DEF HandlesKnown, Known
  <2>7. HandlesKnown'
    BY <1>4, <2>6 DEF ServicePosts, HandlesKnown, Known, MayBegin
  <2>8. QED
    BY <2>5, <2>7
<1>5. CASE ForgetHandle
  BY <1>5 DEF ForgetHandle, TypeOK, Handles, HandlesKnown, Known, MayBegin
<1>6. CASE Unlabel
  <2>1. service' \in {"idle", "drain"}
    BY <1>6 DEF Unlabel, Return
  <2>2. TypeOK'
    BY <1>6, <2>1 DEF Unlabel, TypeOK
  <2>3. HandlesKnown'
    BY <1>6, <2>1 DEF Unlabel, HandlesKnown, Known, MayBegin
  <2>4. QED
    BY <2>2, <2>3
<1>7. CASE ServiceLoadsNull
  BY <1>7, ResetKnown DEF ServiceLoadsNull
<1>8. CASE Command /\ ~ Reset
  <2>1. PICK c \in {"start", "stop", "delete"}, t \in Timers :
          /\ commands[1] = <<c, t>> /\ timer[t] # "none"
          /\ commands' = Tail(commands)
          /\ timer' = [timer EXCEPT ![t] =
               IF timer[t] = "deleted" THEN "deleted"
               ELSE IF c = "start" THEN "active"
               ELSE IF c = "stop" THEN "dormant" ELSE "deleted"]
          /\ service' = IF commands' = << >> THEN "idle" ELSE "drain"
          /\ UNCHANGED <<collect_number, labelled, g_collect_timer_handele, serviceArg>>
          /\ OthersUnchanged
    BY <1>8, CommandTaken
  <2>2. commands # << >> /\ service \in {"idle", "drain"}
    BY <1>8, CommandTaken
  <2>3. commands \in Seq(CommandSet) /\ timer \in [Timers -> {"none", "dormant", "active", "deleted"}]
    BY DEF TypeOK, CommandSet
  <2>4. /\ commands' \in Seq(CommandSet)
        /\ \A i \in 1..Len(commands') : commands'[i] = commands[i + 1] /\ i + 1 \in 1..Len(commands)
    BY <2>1, <2>2, <2>3
  <2>5. \A u \in Timers : (timer[u] = "none") = (timer'[u] = "none")
    BY <2>1, <2>3
  <2>6. timer' \in [Timers -> {"none", "dormant", "active", "deleted"}] /\ service' \in {"idle", "drain"}
    BY <2>1, <2>3
  <2>7. TypeOK'
    BY <2>1, <2>4, <2>6 DEF TypeOK, CommandSet
  <2>8. HandlesKnown'
    BY <2>1, <2>4, <2>5, <2>6 DEF HandlesKnown, Known, MayBegin
  <2>9. QED
    BY <2>7, <2>8
<1>9. QED
  BY <1>1, <1>2, <1>3, <1>4, <1>5, <1>6, <1>7, <1>8, ResetKnown DEF Service

LEMMA RowKnown ==
  ASSUME TypeOK, HandlesKnown, ReadNumber \/ Row \/ RowIgnored \/ UNCHANGED vars
  PROVE  TypeOK' /\ HandlesKnown'
<1> USE DEF consoleVars, serviceVars, timerVars, printVars, hostVars
<1>1. 0 \in 0..(Modulus - 1)
  BY ModulusAssumption
<1>2. CASE ReadNumber
  BY <1>2 DEF ReadNumber, TypeOK, HandlesKnown, Known, MayBegin
<1>3. CASE Row
  <2>1. files' \in Seq(0..(Modulus - 1))
    <3>1. rowNumber \in 0..(Modulus - 1) /\ files \in Seq(0..(Modulus - 1))
      BY DEF TypeOK
    <3>2. files' = Append(files, rowNumber) \/ files' = files
      BY <1>3 DEF Row
    <3> DEFINE N == 0..(Modulus - 1)
    <3>3. rowNumber \in N /\ files \in Seq(N)
      BY <3>1
    <3> HIDE DEF N
    <3>4. files' \in Seq(N)
      BY <3>2, <3>3
    <3>5. QED
      BY <3>4 DEF N
  <2>2. QED
    BY <1>1, <1>3, <2>1 DEF Row, RowDone, TypeOK, HandlesKnown, Known, MayBegin
<1>4. CASE RowIgnored
  BY <1>1, <1>4 DEF RowIgnored, RowDone, TypeOK, HandlesKnown, Known, MayBegin
<1>5. CASE UNCHANGED vars
  BY <1>5 DEF vars, TypeOK, HandlesKnown, Known, MayBegin
<1>6. QED
  BY <1>2, <1>3, <1>4, <1>5

LEMMA LabelConsole ==
  ASSUME TypeOK, HandlesKnown, LabelTimer, SetNumber \/ Console
  PROVE  LabelTimer'
<1> USE DEF consoleVars, serviceVars, timerVars, printVars, hostVars
<1>1. CASE SetNumber
  BY <1>1 DEF SetNumber, LabelTimer, Counting, NoCommand, OnlyStarts, StartWaits
<1>2. CASE SetTaget \/ TestHandle \/ Post("stop", "load_delete", "stop")
           \/ LoadHandle("load_delete", "delete") \/ Post("delete", "create", "delete")
  <2>1. console' \in {"test", "create", "stop", "load_delete", "delete"}
    BY <1>2 DEF SetTaget, TestHandle, Post, LoadHandle, ConsoleStep
  <2>2. QED
    BY <2>1 DEF LabelTimer
<1>3. CASE CreateTimer
  <2>1. PICK t \in Timers : timer[t] = "none"
    BY <1>3 DEF CreateTimer, ConsoleStep, HandlesKnown, MayBegin
  <2>2. PICK u \in Timers : /\ timer[u] = "none"
                            /\ timer' = [timer EXCEPT ![u] = "dormant"]
                            /\ g_collect_timer_handele' = u
    BY <1>3, <2>1 DEF CreateTimer
  <2>3. timer'[u] = "dormant"
    BY <2>2 DEF TypeOK
  <2>4. \A i \in 1..Len(commands) : commands[i][2] # u
    BY <2>2 DEF HandlesKnown, Known
  <2>5. console' = "load_start" /\ commands' = commands
    BY <1>3 DEF CreateTimer, ConsoleStep
  <2>6. QED
    BY <2>2, <2>3, <2>4, <2>5 DEF LabelTimer, NoCommand
<1>4. CASE LoadHandle("load_start", "start")
  BY <1>4 DEF LoadHandle, ConsoleStep, LabelTimer, Counting, NoCommand
<1>5. CASE Post("start", "idle", "start")
  <2>1. SUFFICES ASSUME labelled, Counting
                 PROVE  LabelTimer'
    BY <1>5 DEF Post, ConsoleStep, LabelTimer, Counting
  <2> DEFINE h == g_collect_timer_handele
  <2>2. /\ consoleArg = h /\ NoCommand(h) /\ h # NULL /\ timer[h] = "dormant"
    <3>1. console = "start"
      BY <1>5 DEF Post, ConsoleStep
    <3>2. consoleArg = h /\ NoCommand(h) /\ (h # NULL => timer[h] = "dormant")
      BY <2>1, <3>1 DEF LabelTimer
    <3>3. consoleArg # NULL
      BY <3>1, TimersAssumption DEF HandlesKnown, Known
    <3>4. QED
      BY <3>2, <3>3
  <2>3. /\ commands' = Append(commands, <<"start", consoleArg>>) /\ console' = "idle"
        /\ UNCHANGED <<g_collect_timer_handele, timer>>
    BY <1>5 DEF Post, ConsoleStep
  <2>4. commands \in Seq(CommandSet)
    BY DEF TypeOK, CommandSet
  <2>5. /\ \A i \in 1..Len(commands') : commands'[i][2] = h => commands'[i][1] = "start"
        /\ commands'[Len(commands')] = <<"start", h>> /\ Len(commands') \in 1..Len(commands')
    BY <2>2, <2>3, <2>4 DEF NoCommand
  <2>6. QED
    BY <2>2, <2>3, <2>5 DEF LabelTimer, OnlyStarts, StartWaits
<1>6. CASE LoadNull
  BY <1>6, ResetKnown DEF LoadNull
<1>7. QED
  BY <1>1, <1>2, <1>3, <1>4, <1>5, <1>6 DEF Console

LEMMA LabelService ==
  ASSUME TypeOK, HandlesKnown, LabelTimer, Service
  PROVE  LabelTimer'
<1> USE DEF consoleVars, serviceVars, timerVars, printVars, hostVars, OthersUnchanged
<1>1. CASE (\E t \in Timers : Expire(t)) \/ Store
  BY <1>1 DEF Expire, Store, LabelTimer, Counting, NoCommand, OnlyStarts, StartWaits
<1>2. CASE \/ ServiceLoads("load_stop", "stop") \/ ServiceLoads("load_delete", "delete")
           \/ ServicePosts("stop", "load_delete", "stop") \/ ServicePosts("delete", "forget", "delete")
           \/ ForgetHandle
  BY <1>2 DEF ServiceLoads, ServicePosts, ForgetHandle, LabelTimer, Counting
<1>3. CASE Unlabel
  BY <1>3 DEF Unlabel, LabelTimer
<1>4. CASE ServiceLoadsNull
  BY <1>4, ResetKnown DEF ServiceLoadsNull
<1>5. CASE Command /\ ~ Reset
  <2>1. PICK c \in {"start", "stop", "delete"}, t \in Timers :
          /\ commands[1] = <<c, t>> /\ timer[t] # "none"
          /\ commands' = Tail(commands)
          /\ timer' = [timer EXCEPT ![t] =
               IF timer[t] = "deleted" THEN "deleted"
               ELSE IF c = "start" THEN "active"
               ELSE IF c = "stop" THEN "dormant" ELSE "deleted"]
          /\ service' = IF commands' = << >> THEN "idle" ELSE "drain"
          /\ UNCHANGED <<collect_number, labelled, g_collect_timer_handele, serviceArg>>
          /\ OthersUnchanged
    BY <1>5, CommandTaken
  <2>2. commands # << >> /\ Counting
    BY <1>5, CommandTaken DEF Counting
  <2>3. SUFFICES ASSUME labelled
                 PROVE  LabelTimer'
    BY <2>1 DEF LabelTimer
  <2>4. commands \in Seq(CommandSet) /\ timer \in [Timers -> {"none", "dormant", "active", "deleted"}]
    BY DEF TypeOK, CommandSet
  <2>5. /\ \A i \in 1..Len(commands') : commands'[i] = commands[i + 1] /\ i + 1 \in 1..Len(commands)
        /\ \A i \in 1..Len(commands) : i = 1 \/ i - 1 \in 1..Len(commands')
        /\ \A i \in 1..Len(commands) : i # 1 => commands'[i - 1] = commands[i]
        /\ 1 \in 1..Len(commands)
    BY <2>1, <2>2, <2>4
  <2> DEFINE h == g_collect_timer_handele
  <2>6. UNCHANGED <<console, consoleArg, g_collect_timer_handele>>
    BY <2>1
  <2>7. \A u \in Timers : u # t => timer'[u] = timer[u]
    BY <2>1, <2>4
  <2>8. h # NULL => h \in Timers
    BY DEF TypeOK, Handles
  <2>9. CASE console \in {"load_start", "start"}
    <3>1. /\ h # NULL => timer[h] = "dormant"
          /\ NoCommand(h)
          /\ console = "start" => consoleArg = h
      BY <2>2, <2>3, <2>9 DEF LabelTimer
    <3>2. t # h
      BY <2>1, <2>5, <3>1 DEF NoCommand
    <3>3. NoCommand(h)'
      BY <2>5, <2>6, <3>1 DEF NoCommand
    <3>4. QED
      BY <2>6, <2>7, <2>8, <2>9, <3>1, <3>2, <3>3 DEF LabelTimer
  <2>10. CASE console \in {"idle", "label"}
    <3>1. /\ h # NULL /\ OnlyStarts(h)
          /\ timer[h] = "active" \/ (timer[h] = "dormant" /\ StartWaits(h))
      BY <2>2, <2>3, <2>10 DEF LabelTimer
    <3>2. OnlyStarts(h)'
      BY <2>5, <2>6, <3>1 DEF OnlyStarts
    <3>3. CASE t = h
      <4>1. c = "start"
        BY <2>1, <2>5, <3>1, <3>3 DEF OnlyStarts
      <4>2. timer'[h] = "active"
        BY <2>1, <2>4, <2>8, <3>1, <3>3, <4>1
      <4>3. QED
        BY <2>6, <2>10, <3>1, <3>2, <4>2 DEF LabelTimer
    <3>4. CASE t # h
      <4>1. timer'[h] = timer[h]
        BY <2>7, <2>8, <3>1, <3>4
      <4>2. StartWaits(h) => StartWaits(h)'
        <5>1. SUFFICES ASSUME NEW i \in 1..Len(commands), commands[i] = <<"start", h>>
                       PROVE  StartWaits(h)'
          BY DEF StartWaits
        <5>2. i # 1
          BY <2>1, <3>4, <5>1
        <5>3. i - 1 \in 1..Len(commands') /\ commands'[i - 1] = <<"start", h>>
          BY <2>5, <5>1, <5>2
        <5>4. QED
          BY <2>6, <5>3 DEF StartWaits
      <4>3. QED
        BY <2>6, <2>10, <3>1, <3>2, <4>1, <4>2 DEF LabelTimer
    <3>5. QED
      BY <3>3, <3>4
  <2>11. CASE console \notin {"load_start", "start", "idle", "label"}
    BY <2>6, <2>11 DEF LabelTimer
  <2>12. QED
    BY <2>9, <2>10, <2>11
<1>6. QED
  BY <1>1, <1>2, <1>3, <1>4, <1>5, ResetKnown DEF Service

LEMMA LabelStep ==
  LabelIInv /\ [Next]_vars => LabelIInv'
<1> SUFFICES ASSUME LabelIInv, [Next]_vars
             PROVE  LabelIInv'
  OBVIOUS
<1>1. TypeOK' /\ HandlesKnown'
  BY ConsoleKnown, ServiceKnown, RowKnown DEF Next, LabelIInv
<1>2. CASE SetNumber \/ Console
  BY <1>1, <1>2, LabelConsole DEF LabelIInv
<1>3. CASE Service
  BY <1>1, <1>3, LabelService DEF LabelIInv
<1>4. CASE ReadNumber \/ Row \/ RowIgnored \/ UNCHANGED vars
  <2>1. UNCHANGED <<labelled, g_collect_timer_handele, console, consoleArg, service, commands, timer>>
    BY <1>4 DEF ReadNumber, Row, RowIgnored, RowDone, vars, consoleVars, serviceVars, timerVars
  <2>2. LabelTimer'
    BY <2>1 DEF LabelIInv, LabelTimer, Counting, NoCommand, OnlyStarts, StartWaits
  <2>3. QED
    BY <1>1, <2>2 DEF LabelIInv
<1>5. QED
  BY <1>2, <1>3, <1>4 DEF Next

LEMMA LabelInit == Init => LabelIInv
<1> SUFFICES ASSUME Init
             PROVE  LabelIInv
  OBVIOUS
<1>1. 0 \in 0..(Modulus - 1)
  BY ModulusAssumption
<1>2. commands \in Seq({"start", "stop", "delete"} \X Timers) /\ files \in Seq(0..(Modulus - 1))
  BY DEF Init
<1>3. TypeOK
  BY <1>1, <1>2 DEF Init, TypeOK, Handles
<1>4. HandlesKnown /\ LabelTimer
  BY DEF Init, HandlesKnown, LabelTimer
<1>5. QED
  BY <1>3, <1>4 DEF LabelIInv

LEMMA LabelAlways == Spec => []LabelIInv
BY LabelInit, LabelStep, PTL DEF Spec

(* Type correctness of collection, for any numbers and any number of timers: *)
(* in particular a command never names a timer that was not created, and the *)
(* number stays within its width.                                           *)
THEOREM CollectTypeCorrect == Spec => []TypeOK
<1>1. LabelIInv => TypeOK
  BY DEF LabelIInv
<1>2. QED
  BY <1>1, LabelAlways, PTL

(* However commands and callbacks of collections overlap, a label is never   *)
(* left on rows without a timer that runs, or is about to run, to end it.     *)
THEOREM LabelHasTimerAlways == Spec => []LabelHasTimer
<1>1. LabelIInv => LabelHasTimer
  BY DEF LabelIInv, LabelTimer, Counting, StartWaits, LabelHasTimer
<1>2. QED
  BY <1>1, LabelAlways, PTL

-----------------------------------------------------------------------------
(* A patient operator's collection.                                         *)
Ending == {"load_stop", "stop", "load_delete", "delete", "forget", "unlabel"}

(* The console and the timer service take turns.                            *)
TurnsTaken ==
  /\ console \notin {"stop", "load_delete", "delete"}
  /\ console \in {"label", "test", "create"} \/ (console = "idle" /\ ~ labelled) =>
       g_collect_timer_handele = NULL /\ service \in {"idle", "drain"}
  /\ console = "label" => ~ labelled
  /\ console \in {"test", "create", "load_start", "start"} => labelled
  /\ console \in {"load_start", "start"} =>
       /\ g_collect_timer_handele # NULL /\ service \in {"idle", "drain"}
       /\ timer[g_collect_timer_handele] = "dormant"
       /\ NoCommand(g_collect_timer_handele)
  /\ console = "start" => consoleArg = g_collect_timer_handele
  /\ service \in {"store"} \cup Ending => console = "idle" /\ labelled
  /\ service \in {"store", "load_stop", "stop", "load_delete", "delete", "forget"} =>
       g_collect_timer_handele # NULL /\ timer[g_collect_timer_handele] = "active"
  /\ service \in {"store", "load_stop", "stop"} => commands = << >>
  /\ service \in {"stop", "delete"} => serviceArg = g_collect_timer_handele
  /\ service \in {"load_delete", "delete"} =>
       \A i \in 1..Len(commands) : commands[i] = <<"stop", g_collect_timer_handele>>
  /\ service = "unlabel" => g_collect_timer_handele = NULL
  /\ console = "idle" /\ labelled /\ service \in {"idle", "drain"} =>
       /\ g_collect_timer_handele # NULL
       /\ \/ timer[g_collect_timer_handele] = "active" /\ commands = << >>
          \/ StartWaits(g_collect_timer_handele)

(* A timer of an earlier collection is stopped before it expires again.      *)
OldTimersStop ==
  /\ \A i \in 1..Len(commands) :
       /\ commands[i][1] = "start" =>
            /\ i = Len(commands) /\ commands[i][2] = g_collect_timer_handele
            /\ g_collect_timer_handele # NULL /\ console = "idle"
            /\ timer[g_collect_timer_handele] = "dormant"
       /\ commands[i][1] # "start" =>
            \/ commands[i][2] # g_collect_timer_handele
            \/ service \in {"load_delete", "delete", "forget"}
       /\ timer[commands[i][2]] # "deleted"
  /\ \A i, j \in 1..Len(commands) :
       i < j /\ commands[i][1] = "delete" => commands[j][2] # commands[i][2]
  /\ \A t \in Timers :
       timer[t] = "active"
       /\ (t # g_collect_timer_handele \/ service \in {"load_delete", "delete", "forget"}) =>
         /\ service \in {"load_delete", "delete", "forget", "unlabel", "drain"}
         /\ \E i \in 1..Len(commands) : commands[i] = <<"stop", t>>

(* The number counts down from the one that was asked for to zero.           *)
NumberCounts ==
  console # "idle" \/ labelled =>
    /\ wanted \in Numbers /\ collect_number <= wanted
    /\ console # "idle" => collect_number = wanted
    /\ service = "store" => serviceArg = collect_number
    /\ service \notin Ending => collect_number > 0
    /\ service \in Ending => collect_number = 0

Samples == IF files # << >> /\ files[1] = 0 THEN Tail(files) ELSE files

(* The row that is being printed, and the host.                             *)
RowsDescend ==
  /\ \A i \in 1..Len(Samples) : Samples[i] <= wanted
  /\ \A i, j \in 1..Len(Samples) : i < j => Samples[i] > Samples[j]
  /\ printer = "idle" => rowNumber = 0
  /\ console # "idle" \/ labelled =>
       /\ printer = "row" =>
            \/ collect_number <= rowNumber /\ rowNumber <= wanted
            \/ rowNumber = 0 /\ files = << >>
       /\ \A i \in 1..Len(Samples) :
            collect_number <= Samples[i] /\ (printer = "row" => rowNumber <= Samples[i])
       /\ taget_last => files # << >> /\ files[Len(files)] = taget_seq_last
       /\ ~ taget_last => files = << >>
  /\ console = "label" => files = << >>

PatientIInv == patient => TurnsTaken /\ OldTimersStop /\ NumberCounts /\ RowsDescend

LEMMA PatientConsole ==
  ASSUME LabelIInv, patient, TurnsTaken, OldTimersStop, NumberCounts, SetNumber \/ Console
  PROVE  TurnsTaken' /\ OldTimersStop' /\ NumberCounts'
<1> USE DEF consoleVars, serviceVars, timerVars, printVars, hostVars
<1> DEFINE h == g_collect_timer_handele
<1>1. /\ TypeOK /\ HandlesKnown
      /\ commands \in Seq(CommandSet)
      /\ timer \in [Timers -> {"none", "dormant", "active", "deleted"}]
      /\ (h # NULL => h \in Timers)
  BY DEF LabelIInv, TypeOK, Handles, CommandSet
<1>2. CASE SetNumber
  <2>1. /\ console = "idle" /\ ~ labelled /\ h = NULL /\ service \in {"idle", "drain"}
        /\ console' = "label"
        /\ UNCHANGED <<labelled, g_collect_timer_handele, service, serviceArg, commands, timer>>
    BY <1>2 DEF SetNumber, CollectionOver, TurnsTaken
  <2>2. TurnsTaken'
    BY <2>1 DEF TurnsTaken, Ending
  <2>3. \A i \in 1..Len(commands) : commands[i][1] # "start"
    BY <2>1 DEF OldTimersStop
  <2>4. OldTimersStop'
    BY <2>1, <2>3 DEF OldTimersStop
  <2>5. wanted' \in Numbers /\ collect_number' = wanted' /\ wanted' \in Nat /\ wanted' > 0
    BY <1>2, ModulusAssumption DEF SetNumber
  <2>6. NumberCounts'
    BY <2>1, <2>5 DEF NumberCounts, Ending
  <2>7. QED
    BY <2>2, <2>4, <2>6
<1>3. CASE SetTaget \/ TestHandle
  <2>1. /\ console \in {"label", "test"} /\ h = NULL /\ service \in {"idle", "drain"}
        /\ console' = IF console = "label" THEN "test" ELSE "create"
        /\ labelled'
        /\ UNCHANGED <<g_collect_timer_handele, service, serviceArg, commands, timer,
                       collect_number, wanted>>
    BY <1>3 DEF SetTaget, TestHandle, ConsoleStep, TurnsTaken
  <2>2. TurnsTaken'
    BY <2>1 DEF TurnsTaken, Ending
  <2>3. \A i \in 1..Len(commands) : commands[i][1] # "start"
    BY <2>1 DEF OldTimersStop
  <2>4. OldTimersStop'
    BY <2>1, <2>3 DEF OldTimersStop
  <2>5. NumberCounts'
    BY <2>1 DEF NumberCounts, Ending
  <2>6. QED
    BY <2>2, <2>4, <2>5
<1>4. CASE CreateTimer
  <2>1. PICK v \in Timers : timer[v] = "none"
    BY <1>1, <1>4 DEF CreateTimer, ConsoleStep, HandlesKnown, MayBegin
  <2>2. PICK u \in Timers : /\ timer[u] = "none"
                            /\ timer' = [timer EXCEPT ![u] = "dormant"]
                            /\ g_collect_timer_handele' = u
    BY <1>4, <2>1 DEF CreateTimer
  <2>3. /\ \A w \in Timers : timer'[w] = IF w = u THEN "dormant" ELSE timer[w]
        /\ u # NULL
    BY <1>1, <2>2, TimersAssumption
  <2>4. \A i \in 1..Len(commands) : commands[i][2] # u /\ commands[i][2] \in Timers
    BY <1>1, <2>2 DEF HandlesKnown, Known
  <2>5. /\ console = "create" /\ console' = "load_start" /\ h = NULL /\ labelled
        /\ service \in {"idle", "drain"}
        /\ UNCHANGED <<labelled, service, serviceArg, commands, collect_number, wanted>>
    BY <1>4 DEF CreateTimer, ConsoleStep, TurnsTaken
  <2>6. TurnsTaken'
    BY <2>2, <2>3, <2>4, <2>5 DEF TurnsTaken, NoCommand, Ending
  <2>7. \A i \in 1..Len(commands) : commands[i][1] # "start"
    BY <2>5 DEF OldTimersStop
  <2>8. \A w \in Timers : timer'[w] = "active" =>
           service = "drain" /\ \E i \in 1..Len(commands) : commands[i] = <<"stop", w>>
    BY <2>3, <2>5, TimersAssumption DEF OldTimersStop
  <2>9. \A i \in 1..Len(commands) : timer'[commands[i][2]] # "deleted"
    BY <2>3, <2>4 DEF OldTimersStop
  <2>10. OldTimersStop'
    BY <2>2, <2>4, <2>5, <2>7, <2>8, <2>9 DEF OldTimersStop
  <2>11. NumberCounts'
    BY <2>5 DEF NumberCounts, Ending
  <2>12. QED
    BY <2>6, <2>10, <2>11
<1>5. CASE LoadHandle("load_start", "start")
  <2>1. /\ console = "load_start" /\ console' = "start" /\ consoleArg' = h
        /\ UNCHANGED <<labelled, g_collect_timer_handele, service, serviceArg, commands, timer,
                       collect_number, wanted>>
    BY <1>5 DEF LoadHandle, ConsoleStep
  <2>2. TurnsTaken'
    BY <2>1 DEF TurnsTaken, NoCommand, Ending
  <2>3. OldTimersStop'
    BY <2>1 DEF OldTimersStop
  <2>4. NumberCounts'
    BY <2>1 DEF NumberCounts, Ending
  <2>5. QED
    BY <2>2, <2>3, <2>4
<1>6. CASE Post("start", "idle", "start")
  <2>1. /\ console = "start" /\ console' = "idle" /\ labelled
        /\ commands' = Append(commands, <<"start", h>>)
        /\ h \in Timers /\ h # NULL /\ timer[h] = "dormant" /\ NoCommand(h)
        /\ service \in {"idle", "drain"}
        /\ UNCHANGED <<labelled, g_collect_timer_handele, service, serviceArg, timer,
                       collect_number, wanted>>
    BY <1>1, <1>6 DEF Post, ConsoleStep, TurnsTaken
  <2>2. /\ Len(commands') = Len(commands) + 1 /\ Len(commands) \in Nat
        /\ \A i \in 1..Len(commands) : commands'[i] = commands[i] /\ i \in 1..Len(commands')
        /\ commands'[Len(commands')] = <<"start", h>> /\ Len(commands') \in 1..Len(commands')
        /\ \A i \in 1..Len(commands') : i = Len(commands') \/ i \in 1..Len(commands)
    BY <1>1, <2>1
  <2>3. TurnsTaken'
    BY <2>1, <2>2 DEF TurnsTaken, StartWaits, Ending
  <2>4. \A i \in 1..Len(commands) : commands[i][1] # "start" /\ commands[i][2] # h
    BY <2>1 DEF OldTimersStop, NoCommand
  <2>5. \A i \in 1..Len(commands') :
          /\ commands'[i][1] = "start" => i = Len(commands') /\ commands'[i][2] = h
          /\ commands'[i][1] # "start" => commands'[i][2] # h
          /\ timer[commands'[i][2]] # "deleted"
    BY <2>1, <2>2, <2>4 DEF OldTimersStop
  <2>6. \A i, j \in 1..Len(commands') :
          i < j /\ commands'[i][1] = "delete" => commands'[j][2] # commands'[i][2]
    <3>1. SUFFICES ASSUME NEW i \in 1..Len(commands'), NEW j \in 1..Len(commands'),
                          i < j, commands'[i][1] = "delete"
                   PROVE  commands'[j][2] # commands'[i][2]
      OBVIOUS
    <3>2. i \in 1..Len(commands) /\ commands'[i] = commands[i]
      BY <2>2, <3>1
    <3>3. CASE j \in 1..Len(commands)
      BY <2>2, <3>1, <3>2, <3>3 DEF OldTimersStop
    <3>4. CASE j = Len(commands')
      BY <2>2, <2>4, <3>2, <3>4
    <3>5. QED
      BY <2>2, <3>3, <3>4
  <2>7. \A t \in Timers : timer[t] = "active" =>
           service = "drain" /\ \E i \in 1..Len(commands') : commands'[i] = <<"stop", t>>
    <3>1. \A t \in Timers : timer[t] = "active" =>
             service = "drain" /\ \E i \in 1..Len(commands) : commands[i] = <<"stop", t>>
      BY <2>1 DEF OldTimersStop
    <3>2. QED
      BY <2>2, <3>1
  <2>8. OldTimersStop'
    BY <2>1, <2>5, <2>6, <2>7 DEF OldTimersStop
  <2>9. NumberCounts'
    BY <2>1 DEF NumberCounts, Ending
  <2>10. QED
    BY <2>3, <2>8, <2>9
<1>7. CASE \/ Post("stop", "load_delete", "stop") \/ LoadHandle("load_delete", "delete")
           \/ Post("delete", "create", "delete") \/ LoadNull
  BY <1>7 DEF Post, LoadHandle, ConsoleStep, LoadNull, TurnsTaken
<1>8. QED
  BY <1>2, <1>3, <1>4, <1>5, <1>6, <1>7 DEF Console

(* Only the label's own timer can expire, and only while no command waits.   *)
LEMMA OwnTimerExpires ==
  ASSUME LabelIInv, patient, TurnsTaken, OldTimersStop, NEW t \in Timers, Expire(t)
  PROVE  /\ t = g_collect_timer_handele /\ commands = << >>
         /\ console = "idle" /\ labelled /\ service = "idle"
<1>1. service = "idle" /\ timer[t] = "active"
  BY DEF Expire
<1>2. t = g_collect_timer_handele
  BY <1>1 DEF OldTimersStop
<1>3. t # NULL
  BY TimersAssumption
<1>4. console = "idle" /\ labelled
  <2>1. console \in {"idle", "label", "test", "stop", "load_delete", "delete", "create",
                     "load_start", "start"}
    BY DEF LabelIInv, TypeOK
  <2>2. QED
    BY <1>1, <1>2, <1>3, <2>1 DEF TurnsTaken
<1>5. ~ StartWaits(t)
  BY <1>1, <1>2 DEF OldTimersStop, StartWaits
<1>6. commands = << >>
  BY <1>1, <1>2, <1>4, <1>5 DEF TurnsTaken
<1>7. QED
  BY <1>1, <1>2, <1>4, <1>6

LEMMA PatientCallback ==
  ASSUME LabelIInv, patient, TurnsTaken, OldTimersStop, NumberCounts, Service, ~ Command
  PROVE  TurnsTaken' /\ OldTimersStop' /\ NumberCounts'
<1> USE DEF consoleVars, serviceVars, timerVars, printVars, hostVars, OthersUnchanged
<1> DEFINE h == g_collect_timer_handele
<1>1. /\ TypeOK /\ HandlesKnown
      /\ commands \in Seq(CommandSet) /\ Len(commands) \in Nat
      /\ timer \in [Timers -> {"none", "dormant", "active", "deleted"}]
      /\ (h # NULL => h \in Timers)
      /\ collect_number \in Nat
  BY ModulusAssumption DEF LabelIInv, TypeOK, Handles, CommandSet
<1>2. CASE \E t \in Timers : Expire(t)
  <2>1. PICK t \in Timers : Expire(t)
    BY <1>2
  <2>2. /\ t = h /\ commands = << >> /\ console = "idle" /\ labelled /\ service = "idle"
        /\ service' = "store" /\ serviceArg' = collect_number /\ timer[h] = "active" /\ h # NULL
        /\ UNCHANGED <<labelled, g_collect_timer_handele, console, consoleArg, commands, timer,
                       collect_number, wanted>>
    BY <2>1, OwnTimerExpires, TimersAssumption DEF Expire
  <2>3. TurnsTaken'
    BY <2>2 DEF TurnsTaken, Ending
  <2>4. OldTimersStop'
    BY <2>2 DEF OldTimersStop
  <2>5. NumberCounts'
    BY <2>2 DEF NumberCounts, Ending
  <2>6. QED
    BY <2>3, <2>4, <2>5
<1>3. CASE Store
  <2>1. /\ service = "store" /\ commands = << >> /\ console = "idle" /\ labelled
        /\ h # NULL /\ timer[h] = "active"
        /\ serviceArg = collect_number /\ collect_number > 0
        /\ wanted \in Numbers /\ collect_number <= wanted
    BY <1>3 DEF Store, TurnsTaken, NumberCounts, Ending
  <2>2. collect_number' = collect_number - 1
    <3>1. serviceArg \in 0..(Modulus - 1) /\ serviceArg # 0
      BY <1>1, <2>1 DEF TypeOK
    <3>2. collect_number' = serviceArg - 1
      BY <1>3, <3>1, Decrement DEF Store
    <3>3. QED
      BY <2>1, <3>2
  <2>3. /\ service' = IF collect_number' = 0 THEN "load_stop" ELSE "idle"
        /\ UNCHANGED <<labelled, g_collect_timer_handele, console, consoleArg, commands, timer, wanted>>
    BY <1>3, <2>1 DEF Store, Return
  <2>4. TurnsTaken'
    BY <2>1, <2>3 DEF TurnsTaken, Ending
  <2>5. OldTimersStop'
    BY <2>1, <2>3 DEF OldTimersStop
  <2>6. NumberCounts'
    <3>1. wanted \in Nat
      BY <2>1, ModulusAssumption
    <3>2. QED
      BY <1>1, <2>1, <2>2, <2>3, <3>1 DEF NumberCounts, Ending
  <2>7. QED
    BY <2>4, <2>5, <2>6
<1>4. CASE ServiceLoads("load_stop", "stop") \/ ServiceLoads("load_delete", "delete")
  <2>1. /\ service \in {"load_stop", "load_delete"}
        /\ service' = IF service = "load_stop" THEN "stop" ELSE "delete"
        /\ serviceArg' = h
        /\ UNCHANGED <<labelled, g_collect_timer_handele, console, consoleArg, commands, timer,
                       collect_number, wanted>>
    BY <1>4 DEF ServiceLoads
  <2>2. TurnsTaken'
    BY <2>1 DEF TurnsTaken, Ending
  <2>3. OldTimersStop'
    <3>1. CASE service = "load_stop"
      BY <2>1, <3>1 DEF OldTimersStop, TurnsTaken
    <3>2. CASE service = "load_delete"
      BY <2>1, <3>2 DEF OldTimersStop
    <3>3. QED
      BY <2>1, <3>1, <3>2
  <2>4. NumberCounts'
    BY <2>1 DEF NumberCounts, Ending
  <2>5. QED
    BY <2>2, <2>3, <2>4
<1>5. CASE ServicePosts("stop", "load_delete", "stop")
  <2>1. /\ service = "stop" /\ service' = "load_delete" /\ commands = << >> /\ serviceArg = h
        /\ h # NULL /\ h \in Timers /\ timer[h] = "active" /\ console = "idle" /\ labelled
        /\ UNCHANGED <<labelled, g_collect_timer_handele, console, consoleArg, timer,
                       collect_number, wanted>>
    BY <1>1, <1>5 DEF ServicePosts, TurnsTaken, Ending
  <2>2. commands' = << <<"stop", h>> >>
    <3>1. Len(commands) < QueueLength
      BY <2>1, QueueAssumption
    <3>2. commands' = Append(commands, <<"stop", h>>)
      BY <1>5, <2>1, <3>1 DEF ServicePosts
    <3>3. QED
      BY <2>1, <3>2
  <2>3. Len(commands') = 1 /\ commands'[1] = <<"stop", h>>
    BY <2>2
  <2>4. TurnsTaken'
    BY <2>1, <2>3 DEF TurnsTaken, Ending
  <2>5. \A t \in Timers : timer[t] = "active" => t = h
    BY <2>1 DEF OldTimersStop
  <2>6. OldTimersStop'
    BY <2>1, <2>3, <2>5 DEF OldTimersStop
  <2>7. NumberCounts'
    BY <2>1 DEF NumberCounts, Ending
  <2>8. QED
    BY <2>4, <2>6, <2>7
<1>6. CASE ServicePosts("delete", "forget", "delete")
  <2>1. /\ service = "delete" /\ service' = "forget" /\ serviceArg = h
        /\ h # NULL /\ h \in Timers /\ timer[h] = "active" /\ console = "idle" /\ labelled
        /\ \A i \in 1..Len(commands) : commands[i] = <<"stop", h>>
        /\ UNCHANGED <<labelled, g_collect_timer_handele, console, consoleArg, timer,
                       collect_number, wanted>>
    BY <1>1, <1>6 DEF ServicePosts, TurnsTaken, Ending
  <2>2. TurnsTaken'
    BY <2>1 DEF TurnsTaken, Ending
  <2>3. commands' = Append(commands, <<"delete", h>>) \/ commands' = commands
    BY <1>6, <2>1 DEF ServicePosts
  <2>4. /\ \A i \in 1..Len(commands) : i \in 1..Len(commands') /\ commands'[i] = commands[i]
        /\ \A i \in 1..Len(commands') :
             \/ i \in 1..Len(commands) /\ commands'[i] = <<"stop", h>>
             \/ i = Len(commands') /\ commands'[i] = <<"delete", h>>
    BY <1>1, <2>1, <2>3
  <2>5. /\ \A i \in 1..Len(commands') : commands'[i][1] # "start" /\ commands'[i][2] = h
        /\ \A i \in 1..Len(commands') : commands'[i][1] = "delete" => i = Len(commands')
    BY <2>4
  <2>6. \A t \in Timers : timer[t] = "active" =>
           \E i \in 1..Len(commands') : commands'[i] = <<"stop", t>>
    <3>1. \A t \in Timers : timer[t] = "active" =>
             \E i \in 1..Len(commands) : commands[i] = <<"stop", t>>
      BY <2>1 DEF OldTimersStop
    <3>2. QED
      BY <2>4, <3>1
  <2>7. \A i, j \in 1..Len(commands') : ~ (i < j /\ commands'[i][1] = "delete")
    <3>1. Len(commands') \in Nat
      BY <1>1, <2>3
    <3>2. QED
      BY <2>5, <3>1
  <2>8. OldTimersStop'
    BY <2>1, <2>5, <2>6, <2>7 DEF OldTimersStop
  <2>9. NumberCounts'
    BY <2>1 DEF NumberCounts, Ending
  <2>10. QED
    BY <2>2, <2>8, <2>9
<1>7. CASE ForgetHandle
  <2>1. /\ service = "forget" /\ service' = "unlabel" /\ g_collect_timer_handele' = NULL
        /\ timer[h] = "active" /\ console = "idle" /\ labelled
        /\ UNCHANGED <<labelled, console, consoleArg, serviceArg, commands, timer,
                       collect_number, wanted>>
    BY <1>7 DEF ForgetHandle, TurnsTaken, Ending
  <2>2. TurnsTaken'
    BY <2>1 DEF TurnsTaken, Ending
  <2>3. /\ \A i \in 1..Len(commands) : commands[i][1] # "start"
        /\ \A i \in 1..Len(commands) : commands[i][2] # NULL
    BY <1>1, <2>1, TimersAssumption DEF OldTimersStop, HandlesKnown, Known
  <2>4. OldTimersStop'
    BY <2>1, <2>3 DEF OldTimersStop
  <2>5. NumberCounts'
    BY <2>1 DEF NumberCounts, Ending
  <2>6. QED
    BY <2>2, <2>4, <2>5
<1>8. CASE Unlabel
  <2>1. /\ service = "unlabel" /\ service' = (IF commands = << >> THEN "idle" ELSE "drain")
        /\ h = NULL /\ console = "idle" /\ ~ labelled'
        /\ UNCHANGED <<g_collect_timer_handele, console, consoleArg, serviceArg, commands, timer,
                       collect_number, wanted>>
    BY <1>8 DEF Unlabel, Return, TurnsTaken, Ending
  <2>2. TurnsTaken'
    BY <2>1 DEF TurnsTaken, Ending
  <2>3. \A t \in Timers : timer[t] = "active" =>
           \E i \in 1..Len(commands) : commands[i] = <<"stop", t>>
    BY <2>1, TimersAssumption DEF OldTimersStop
  <2>4. \A t \in Timers : timer[t] = "active" => service' = "drain"
    BY <1>1, <2>1, <2>3
  <2>5. /\ \A i \in 1..Len(commands) : commands[i][1] # "start" /\ commands[i][2] # NULL
        /\ \A i \in 1..Len(commands) : timer[commands[i][2]] # "deleted"
    BY <1>1, <2>1, TimersAssumption DEF OldTimersStop, HandlesKnown, Known
  <2>6. OldTimersStop'
    BY <2>1, <2>3, <2>4, <2>5 DEF OldTimersStop
  <2>7. NumberCounts'
    BY <2>1 DEF NumberCounts
  <2>8. QED
    BY <2>2, <2>6, <2>7
<1>9. CASE ServiceLoadsNull
  BY <1>9 DEF ServiceLoadsNull, TurnsTaken
<1>10. QED
  BY <1>2, <1>3, <1>4, <1>5, <1>6, <1>7, <1>8, <1>9 DEF Service

LEMMA PatientCommand ==
  ASSUME LabelIInv, patient, TurnsTaken, OldTimersStop, NumberCounts, Command
  PROVE  /\ TurnsTaken' /\ OldTimersStop' /\ NumberCounts'
         /\ UNCHANGED <<console, labelled, wanted, collect_number, printVars, hostVars, patient>>
<1> DEFINE h == g_collect_timer_handele
<1>1. /\ TypeOK /\ HandlesKnown
      /\ commands \in Seq(CommandSet) /\ Len(commands) \in Nat
      /\ timer \in [Timers -> {"none", "dormant", "active", "deleted"}]
      /\ (h # NULL => h \in Timers)
  BY DEF LabelIInv, TypeOK, Handles, CommandSet
<1>2. commands # << >> /\ service \in {"idle", "drain"}
  BY <1>1, CommandTaken
<1>3. timer[commands[1][2]] # "deleted"
  BY <1>1, <1>2 DEF OldTimersStop
<1>4. PICK c \in {"start", "stop", "delete"}, t \in Timers :
        /\ commands[1] = <<c, t>>
        /\ commands' = Tail(commands)
        /\ timer' = [timer EXCEPT ![t] =
             IF timer[t] = "deleted" THEN "deleted"
             ELSE IF c = "start" THEN "active"
             ELSE IF c = "stop" THEN "dormant" ELSE "deleted"]
        /\ service' = IF commands' = << >> THEN "idle" ELSE "drain"
        /\ UNCHANGED <<collect_number, labelled, g_collect_timer_handele, serviceArg>>
        /\ OthersUnchanged
  BY <1>1, <1>3, CommandTaken
<1>5. UNCHANGED <<g_collect_timer_handele, console, consoleArg, labelled, wanted,
                  collect_number, serviceArg>>
  BY <1>4 DEF OthersUnchanged, consoleVars
<1>6. service' \in {"idle", "drain"}
  BY <1>4
<1>7. /\ \A i \in 1..Len(commands') : commands'[i] = commands[i + 1] /\ i + 1 \in 1..Len(commands)
      /\ \A i \in 1..Len(commands) : i # 1 => i - 1 \in 1..Len(commands') /\ commands'[i - 1] = commands[i]
      /\ 1 \in 1..Len(commands) /\ Len(commands') = Len(commands) - 1 /\ Len(commands') \in Nat
      /\ Len(commands) = 1 => commands' = << >>
      /\ Len(commands) # 1 => commands' # << >>
  <2>1. commands' = Tail(commands)
    BY <1>4
  <2>2. Len(commands) > 0 /\ Len(commands') = Len(commands) - 1 /\ commands' \in Seq(CommandSet)
    BY <1>1, <1>2, <2>1
  <2>3. \A i \in 1..Len(commands') : commands'[i] = commands[i + 1] /\ i + 1 \in 1..Len(commands)
    BY <1>1, <1>2, <2>1, <2>2
  <2>4. ASSUME NEW i \in 1..Len(commands), i # 1
        PROVE  i - 1 \in 1..Len(commands') /\ commands'[i - 1] = commands[i]
    <3>1. i - 1 \in 1..Len(commands') /\ (i - 1) + 1 = i
      BY <1>1, <2>2, <2>4
    <3>2. QED
      BY <2>3, <3>1
  <2>5. QED
    BY <1>1, <2>2, <2>3, <2>4
<1>8. /\ \A u \in Timers : u # t => timer'[u] = timer[u]
      /\ timer'[t] = IF c = "start" THEN "active"
                     ELSE IF c = "stop" THEN "dormant" ELSE "deleted"
  BY <1>1, <1>3, <1>4
<1>9. c = "start" => Len(commands) = 1 /\ t = h /\ console = "idle"
  <2>1. 1 \in 1..Len(commands) /\ commands[1] = <<c, t>>
    BY <1>4, <1>7
  <2>2. commands[1][1] = "start" =>
          1 = Len(commands) /\ commands[1][2] = h /\ console = "idle"
    BY <2>1 DEF OldTimersStop
  <2>3. commands[1][1] = c /\ commands[1][2] = t
    BY <2>1
  <2>4. QED
    BY <2>2, <2>3
<1>10. c # "start" => t # h
  <2>1. 1 \in 1..Len(commands) /\ commands[1] = <<c, t>>
    BY <1>4, <1>7
  <2>2. commands[1][1] # "start" => commands[1][2] # h
    BY <1>2, <2>1 DEF OldTimersStop
  <2>3. commands[1][1] = c /\ commands[1][2] = t
    BY <2>1
  <2>4. QED
    BY <2>2, <2>3
<1>11. TurnsTaken'
  <2>1. console \in {"load_start", "start"} =>
          h # NULL /\ timer'[h] = "dormant" /\ NoCommand(h)'
    <3>1. SUFFICES ASSUME console \in {"load_start", "start"}
                   PROVE  h # NULL /\ timer'[h] = "dormant" /\ NoCommand(h)'
      OBVIOUS
    <3>2. h # NULL /\ timer[h] = "dormant" /\ NoCommand(h) /\ h \in Timers
      BY <1>1, <3>1 DEF TurnsTaken
    <3>3. t # h
      BY <1>4, <1>7, <3>2 DEF NoCommand
    <3>4. NoCommand(h)'
      BY <1>5, <1>7, <3>2 DEF NoCommand
    <3>5. QED
      BY <1>8, <3>2, <3>3, <3>4
  <2>2. console = "idle" /\ labelled =>
          /\ h # NULL
          /\ (timer'[h] = "active" /\ commands' = << >>) \/ StartWaits(h)'
    <3>1. SUFFICES ASSUME console = "idle", labelled
                   PROVE  h # NULL /\ ((timer'[h] = "active" /\ commands' = << >>) \/ StartWaits(h)')
      OBVIOUS
    <3>2. h # NULL /\ StartWaits(h) /\ h \in Timers
      BY <1>1, <1>2, <3>1 DEF TurnsTaken
    <3>3. PICK i \in 1..Len(commands) : commands[i] = <<"start", h>>
      BY <3>2 DEF StartWaits
    <3>4. CASE i = 1
      BY <1>4, <1>7, <1>8, <1>9, <3>2, <3>3, <3>4
    <3>5. CASE i # 1
      BY <1>5, <1>7, <3>2, <3>3, <3>5 DEF StartWaits
    <3>6. QED
      BY <3>4, <3>5
  <2>3. QED
    BY <1>2, <1>5, <1>6, <2>1, <2>2 DEF TurnsTaken, Ending
<1>12. OldTimersStop'
  <2>1. ASSUME NEW i \in 1..Len(commands')
        PROVE  /\ commands'[i][1] = "start" =>
                    /\ i = Len(commands') /\ commands'[i][2] = h
                    /\ h # NULL /\ console = "idle" /\ timer'[h] = "dormant"
               /\ commands'[i][1] # "start" => commands'[i][2] # h
               /\ timer'[commands'[i][2]] # "deleted"
    <3>1. /\ commands'[i] = commands[i + 1] /\ i + 1 \in 1..Len(commands)
          /\ Len(commands) # 1 /\ i \in Nat
      BY <1>7, <2>1
    <3>2. c # "start" /\ t # h
      BY <1>9, <1>10, <3>1
    <3>3. commands'[i][2] \in Timers
      BY <1>1, <3>1 DEF HandlesKnown, Known
    <3>4. commands'[i][1] = "start" =>
            /\ i = Len(commands') /\ commands'[i][2] = h
            /\ h # NULL /\ console = "idle" /\ timer[h] = "dormant"
      BY <1>7, <3>1 DEF OldTimersStop
    <3>5. commands'[i][1] = "start" => timer'[h] = "dormant"
      BY <1>1, <1>8, <3>2, <3>4
    <3>6. commands'[i][1] # "start" => commands'[i][2] # h
      BY <1>2, <3>1 DEF OldTimersStop
    <3>7. timer'[commands'[i][2]] # "deleted"
      <4>1. CASE commands'[i][2] = t
        <5>1. 1 < i + 1
          BY <3>1, <1>7
        <5>2. c # "delete"
          BY <1>4, <1>7, <3>1, <4>1, <5>1 DEF OldTimersStop
        <5>3. QED
          BY <1>8, <4>1, <5>2
      <4>2. CASE commands'[i][2] # t
        <5>1. timer[commands[i + 1][2]] # "deleted"
          BY <3>1 DEF OldTimersStop
        <5>2. QED
          BY <1>8, <3>1, <3>3, <4>2, <5>1
      <4>3. QED
        BY <4>1, <4>2
    <3>8. QED
      BY <3>4, <3>5, <3>6, <3>7
  <2>2. \A i, j \in 1..Len(commands') :
          i < j /\ commands'[i][1] = "delete" => commands'[j][2] # commands'[i][2]
    <3>1. SUFFICES ASSUME NEW i \in 1..Len(commands'), NEW j \in 1..Len(commands'),
                          i < j, commands'[i][1] = "delete"
                   PROVE  commands'[j][2] # commands'[i][2]
      OBVIOUS
    <3>2. i + 1 < j + 1
      BY <1>7, <3>1
    <3>3. QED
      BY <1>7, <3>1, <3>2 DEF OldTimersStop
  <2>3. ASSUME NEW u \in Timers, timer'[u] = "active", u # h
        PROVE  service' = "drain" /\ \E i \in 1..Len(commands') : commands'[i] = <<"stop", u>>
    <3>1. u # t
      BY <1>8, <1>9, <2>3
    <3>2. timer[u] = "active"
      BY <1>8, <2>3, <3>1
    <3>3. PICK i \in 1..Len(commands) : commands[i] = <<"stop", u>>
      BY <2>3, <3>2 DEF OldTimersStop
    <3>4. i # 1
      BY <1>4, <3>1, <3>3
    <3>5. i - 1 \in 1..Len(commands') /\ commands'[i - 1] = <<"stop", u>>
      BY <1>7, <3>3, <3>4
    <3>6. commands' # << >>
      BY <1>7, <3>3, <3>4
    <3>7. QED
      BY <1>4, <3>5, <3>6
  <2>4. \A i \in 1..Len(commands') :
          /\ commands'[i][1] = "start" =>
               /\ i = Len(commands') /\ commands'[i][2] = h
               /\ h # NULL /\ console = "idle" /\ timer'[h] = "dormant"
          /\ commands'[i][1] # "start" => commands'[i][2] # h
          /\ timer'[commands'[i][2]] # "deleted"
    BY <2>1
  <2>5. \A u \in Timers : timer'[u] = "active" /\ u # h =>
          service' = "drain" /\ \E i \in 1..Len(commands') : commands'[i] = <<"stop", u>>
    BY <2>3
  <2>6. h' = h /\ console' = console
    BY <1>5
  <2> HIDE DEF h
  <2>7. QED
    BY <1>6, <2>2, <2>4, <2>5, <2>6 DEF OldTimersStop, h
<1>13. NumberCounts'
  BY <1>2, <1>5, <1>6 DEF NumberCounts, Ending
<1>14. QED
  BY <1>4, <1>5, <1>11, <1>12, <1>13 DEF OthersUnchanged

LEMMA PatientRowStays ==
  ASSUME ReadNumber \/ Row \/ RowIgnored \/ UNCHANGED vars
  PROVE  /\ UNCHANGED <<collect_number, labelled, g_collect_timer_handele, wanted, console,
                        consoleArg, service, serviceArg, commands, timer, patient>>
         /\ TurnsTaken => TurnsTaken'
         /\ OldTimersStop => OldTimersStop'
         /\ NumberCounts => NumberCounts'
<1>1. UNCHANGED <<collect_number, labelled, g_collect_timer_handele, wanted, console,
                  consoleArg, service, serviceArg, commands, timer, patient>>
  BY DEF ReadNumber, Row, RowIgnored, RowDone, vars, consoleVars, serviceVars, timerVars
<1>2. TurnsTaken => TurnsTaken'
  BY <1>1 DEF TurnsTaken, NoCommand, StartWaits
<1>3. OldTimersStop => OldTimersStop'
  BY <1>1 DEF OldTimersStop
<1>4. NumberCounts => NumberCounts'
  BY <1>1 DEF NumberCounts
<1>5. QED
  BY <1>1, <1>2, <1>3, <1>4

(* Rows that are on their way when the device's number or label changes.      *)
LEMMA RowsOnTheirWay ==
  ASSUME LabelIInv, patient, TurnsTaken, OldTimersStop, NumberCounts, RowsDescend,
         SetNumber \/ Console \/ Service
  PROVE  RowsDescend' /\ patient'
<1> USE DEF serviceVars, timerVars, printVars, hostVars, OthersUnchanged
<1>1. TypeOK /\ collect_number \in Nat
  BY ModulusAssumption DEF LabelIInv, TypeOK
<1>2. CASE SetNumber
  <2>1. /\ files' = << >> /\ rowNumber = 0 /\ ~ taget_last /\ console' = "label"
        /\ UNCHANGED <<printer, rowNumber, taget_last, taget_seq_last, patient>>
    BY <1>2 DEF SetNumber, CollectionOver
  <2>2. Samples' = << >>
    BY <2>1 DEF Samples
  <2>3. RowsDescend'
    BY <2>1, <2>2 DEF RowsDescend
  <2>4. QED
    BY <2>1, <2>3
<1>3. CASE Console
  <2>1. ~ LoadNull
    BY DEF LoadNull, TurnsTaken
  <2>2. UNCHANGED <<printer, rowNumber, taget_last, taget_seq_last, files, patient,
                    wanted, collect_number>>
    BY <1>3, <2>1 DEF Console, SetTaget, TestHandle, Post, LoadHandle, CreateTimer, ConsoleStep
  <2>3. console' # "label" /\ console # "idle"
    BY <1>3, <2>1 DEF Console, SetTaget, TestHandle, Post, LoadHandle, CreateTimer, ConsoleStep
  <2>4. Samples' = Samples
    BY <2>2 DEF Samples
  <2>5. RowsDescend'
    BY <2>2, <2>3, <2>4 DEF RowsDescend
  <2>6. QED
    BY <2>2, <2>5
<1>4. CASE Store
  <2>1. /\ console = "idle" /\ labelled /\ serviceArg = collect_number /\ collect_number > 0
    BY <1>4 DEF Store, TurnsTaken, NumberCounts, Ending
  <2>2. collect_number' = collect_number - 1
    <3>1. serviceArg \in 0..(Modulus - 1) /\ serviceArg # 0
      BY <1>1, <2>1 DEF TypeOK
    <3>2. collect_number' = serviceArg - 1
      BY <1>4, <3>1, Decrement DEF Store
    <3>3. QED
      BY <2>1, <3>2
  <2>3. UNCHANGED <<printer, rowNumber, taget_last, taget_seq_last, files, patient,
                    wanted, console, labelled>>
    BY <1>4 DEF Store, consoleVars
  <2>4. Samples' = Samples
    BY <2>3 DEF Samples
  <2>5. /\ rowNumber \in Nat /\ files \in Seq(Nat)
    BY <1>1, ModulusAssumption DEF TypeOK
  <2>6. Samples \in Seq(Nat)
    BY <2>5 DEF Samples
  <2>7. \A i \in 1..Len(Samples) : Samples[i] \in Nat
    BY <2>6
  <2>8. RowsDescend'
    BY <1>1, <2>1, <2>2, <2>3, <2>4, <2>5, <2>7 DEF RowsDescend
  <2>9. QED
    BY <2>3, <2>8
<1>5. CASE Service /\ ~ Store /\ ~ Command
  <2>1. ~ ServiceLoadsNull
    BY DEF ServiceLoadsNull, TurnsTaken
  <2>2. /\ UNCHANGED <<printer, rowNumber, taget_last, taget_seq_last, files, patient,
                       wanted, console, collect_number>>
        /\ labelled' = labelled \/ labelled' = FALSE
    <3>1. CASE (\E t \in Timers : Expire(t)) \/ ForgetHandle \/ Unlabel
      BY <3>1 DEF Expire, ForgetHandle, Unlabel, consoleVars
    <3>2. CASE ServiceLoads("load_stop", "stop") \/ ServiceLoads("load_delete", "delete")
      BY <3>2 DEF ServiceLoads, consoleVars
    <3>3. CASE ServicePosts("stop", "load_delete", "stop") \/ ServicePosts("delete", "forget", "delete")
      BY <3>3 DEF ServicePosts, consoleVars
    <3>4. QED
      BY <1>5, <2>1, <3>1, <3>2, <3>3 DEF Service
  <2>3. Samples' = Samples
    BY <2>2 DEF Samples
  <2>4. RowsDescend'
    BY <2>2, <2>3 DEF RowsDescend
  <2>5. QED
    BY <2>2, <2>4
<1>6. CASE Command
  <2>1. UNCHANGED <<console, labelled, wanted, collect_number, printer, rowNumber, taget_last,
                    taget_seq_last, files, patient>>
    BY <1>6, PatientCommand
  <2>2. Samples' = Samples
    BY <2>1 DEF Samples
  <2>3. RowsDescend'
    BY <2>1, <2>2 DEF RowsDescend
  <2>4. QED
    BY <2>1, <2>3
<1>7. QED
  BY <1>2, <1>3, <1>4, <1>5, <1>6

(* What another sample does to the numbers of the files.                      *)
LEMMA SamplesAppend ==
  ASSUME NEW s \in Seq(Nat), NEW n \in Nat
  PROVE  LET Cut(q) == IF q # << >> /\ q[1] = 0 THEN Tail(q) ELSE q
             e == Append(s, n)
         IN  /\ Cut(s) \in Seq(Nat)
             /\ s = << >> => Cut(e) = IF n = 0 THEN << >> ELSE <<n>>
             /\ s # << >> =>
                  /\ Cut(e) = Append(Cut(s), n)
                  /\ Cut(s) # << >> => Cut(s)[Len(Cut(s))] = s[Len(s)]
<1> DEFINE Cut(q) == IF q # << >> /\ q[1] = 0 THEN Tail(q) ELSE q
           e == Append(s, n)
<1>1. Cut(s) \in Seq(Nat)
  OBVIOUS
<1>2. CASE s = << >>
  <2>1. e = <<n>> /\ e # << >> /\ e[1] = n
    BY <1>2
  <2>2. Tail(<<n>>) = << >>
    OBVIOUS
  <2>3. QED
    BY <1>1, <1>2, <2>1, <2>2
<1>3. CASE s # << >>
  <2>1. e # << >> /\ e[1] = s[1] /\ Len(s) \in Nat /\ Len(s) > 0
    BY <1>3
  <2>2. CASE s[1] # 0
    BY <1>1, <1>3, <2>1, <2>2
  <2>3. CASE s[1] = 0
    <3>1. Cut(s) = Tail(s) /\ Cut(e) = Tail(e)
      BY <1>3, <2>1, <2>3
    <3>2. Tail(e) = Append(Tail(s), n)
      BY <1>3
    <3>3. Tail(s) # << >> => Tail(s)[Len(Tail(s))] = s[Len(s)]
      BY <1>3
    <3>4. QED
      BY <1>1, <1>3, <3>1, <3>2, <3>3
  <2>4. QED
    BY <2>2, <2>3
<1>4. QED
  BY <1>2, <1>3

LEMMA RowsPrinted ==
  ASSUME LabelIInv, patient, TurnsTaken, OldTimersStop, NumberCounts, RowsDescend,
         ReadNumber \/ Row \/ RowIgnored \/ UNCHANGED vars
  PROVE  RowsDescend' /\ patient'
<1> USE DEF hostVars
<1>1. /\ files \in Seq(Nat) /\ rowNumber \in Nat /\ collect_number \in Nat
      /\ labelled \in BOOLEAN /\ taget_last \in BOOLEAN
  BY ModulusAssumption DEF LabelIInv, TypeOK
<1>2. UNCHANGED <<collect_number, labelled, wanted, console, patient>>
  BY PatientRowStays
<1>3. CASE UNCHANGED vars
  <2>1. UNCHANGED <<printer, rowNumber, taget_last, taget_seq_last, files>>
    BY <1>3 DEF vars, printVars
  <2>2. QED
    BY <1>2, <2>1 DEF RowsDescend, Samples
<1>4. CASE ReadNumber
  <2>1. /\ printer = "idle" /\ printer' = "row" /\ rowNumber' = collect_number
        /\ UNCHANGED <<taget_last, taget_seq_last, files>>
    BY <1>4 DEF ReadNumber
  <2>2. Samples' = Samples
    BY <2>1 DEF Samples
  <2>3. QED
    BY <1>1, <1>2, <2>1, <2>2 DEF RowsDescend, NumberCounts
<1>5. CASE RowIgnored
  <2>1. /\ printer' = "idle" /\ rowNumber' = 0
        /\ UNCHANGED <<taget_last, taget_seq_last, files>>
    BY <1>5 DEF RowIgnored, RowDone
  <2>2. Samples' = Samples
    BY <2>1 DEF Samples
  <2>3. QED
    BY <1>2, <2>1, <2>2 DEF RowsDescend
<1>6. CASE Row /\ ~ labelled
  <2>1. /\ printer' = "idle" /\ rowNumber' = 0 /\ files' = files
        /\ ~ taget_last' /\ taget_seq_last' = rowNumber
    BY <1>6 DEF Row, RowDone
  <2>2. Samples' = Samples
    BY <2>1 DEF Samples
  <2>3. console # "idle" => console = "label"
    <3>1. console \in {"idle", "label", "test", "stop", "load_delete", "delete", "create",
                       "load_start", "start"}
      BY DEF LabelIInv, TypeOK
    <3>2. QED
      BY <1>6, <3>1 DEF TurnsTaken
  <2>4. console # "idle" => files = << >>
    BY <2>3 DEF RowsDescend
  <2>5. QED
    BY <1>2, <1>6, <2>1, <2>2, <2>4 DEF RowsDescend
<1>7. CASE Row /\ labelled
  <2> DEFINE n == rowNumber
  <2>1. /\ printer = "row" /\ printer' = "idle" /\ rowNumber' = 0
        /\ taget_last' /\ taget_seq_last' = n
        /\ files' = IF ~ taget_last \/ taget_seq_last # n THEN Append(files, n) ELSE files
    BY <1>1, <1>7 DEF Row, RowDone
  <2>2. /\ console # "label"
        /\ (collect_number <= n /\ n <= wanted) \/ (n = 0 /\ files = << >>)
        /\ \A i \in 1..Len(Samples) : collect_number <= Samples[i] /\ n <= Samples[i]
        /\ taget_last => files # << >> /\ files[Len(files)] = taget_seq_last
        /\ ~ taget_last => files = << >>
    BY <1>7, <2>1 DEF RowsDescend, TurnsTaken
  <2>3. Samples \in Seq(Nat) /\ Len(Samples) \in Nat
    BY <1>1 DEF Samples
  <2>4. CASE files = << >>
    <3>1. files' = <<n>> /\ files' # << >> /\ files'[Len(files')] = n
      BY <1>1, <2>1, <2>2, <2>4
    <3>2. Samples' = IF n = 0 THEN << >> ELSE <<n>>
      BY <3>1 DEF Samples
    <3>3. n # 0 => Len(Samples') = 1 /\ Samples'[1] = n /\ collect_number <= n /\ n <= wanted
      BY <2>2, <3>2
    <3>4. n = 0 => Samples' = << >>
      BY <3>2
    <3>5. /\ \A i \in 1..Len(Samples') : Samples'[i] <= wanted /\ collect_number <= Samples'[i]
          /\ \A i, j \in 1..Len(Samples') : ~ (i < j)
      <4>1. CASE n = 0
        BY <3>4, <4>1
      <4>2. CASE n # 0
        <5>1. \A i \in 1..Len(Samples') : i = 1
          <6>1. Len(Samples') = 1
            BY <3>3, <4>2
          <6>2. \A i \in 1..1 : i = 1
            OBVIOUS
          <6>3. QED
            BY <6>1, <6>2
        <5>2. /\ Samples'[1] <= wanted /\ collect_number <= Samples'[1]
              /\ \A i, j \in 1..Len(Samples') : i = j
          BY <3>3, <4>2, <5>1
        <5>3. ~ (1 < 1)
          OBVIOUS
        <5>4. QED
          BY <5>1, <5>2, <5>3
      <4>3. QED
        BY <4>1, <4>2
    <3>6. QED
      BY <1>2, <2>1, <2>2, <3>1, <3>5 DEF RowsDescend
  <2>5. CASE files # << >> /\ taget_seq_last = n
    <3>1. files' = files /\ taget_last /\ files[Len(files)] = n
      BY <2>1, <2>2, <2>5
    <3>2. Samples' = Samples
      BY <3>1 DEF Samples
    <3>3. QED
      BY <1>2, <2>1, <2>2, <2>5, <3>1, <3>2 DEF RowsDescend
  <2>6. CASE files # << >> /\ taget_seq_last # n
    <3>1. /\ files' = Append(files, n) /\ files' # << >> /\ files'[Len(files')] = n
          /\ files[Len(files)] # n
          /\ collect_number <= n /\ n <= wanted
      BY <1>1, <2>1, <2>2, <2>6
    <3>2. /\ Samples' = Append(Samples, n)
          /\ Samples # << >> => Samples[Len(Samples)] = files[Len(files)]
      BY <1>1, <2>6, <3>1, SamplesAppend DEF Samples
    <3>3. /\ Len(Samples') = Len(Samples) + 1
          /\ \A i \in 1..Len(Samples) : Samples'[i] = Samples[i]
          /\ Samples'[Len(Samples')] = n
      BY <1>1, <2>3, <3>2
    <3>4. \A i \in 1..Len(Samples') : Samples'[i] <= wanted /\ collect_number <= Samples'[i]
      BY <2>2, <2>3, <3>1, <3>3 DEF RowsDescend
    <3>5. ASSUME NEW i \in 1..Len(Samples), Len(Samples) # 0
          PROVE  Samples[i] > n
      <4>1. Samples[i] \in Nat /\ Samples[Len(Samples)] \in Nat /\ Len(Samples) \in 1..Len(Samples)
        BY <2>3, <3>5
      <4>2. Samples[Len(Samples)] > n
        <5>1. Samples[Len(Samples)] # n
          BY <2>3, <3>1, <3>2, <3>5
        <5>2. QED
          BY <1>1, <2>2, <4>1, <5>1
      <4>3. CASE i = Len(Samples)
        BY <4>2, <4>3
      <4>4. CASE i < Len(Samples)
        <5>1. Samples[i] > Samples[Len(Samples)]
          BY <4>1, <4>4 DEF RowsDescend
        <5>2. QED
          BY <1>1, <4>1, <4>2, <5>1
      <4>5. QED
        BY <2>3, <4>3, <4>4
    <3>6. ASSUME NEW i \in 1..Len(Samples'), NEW j \in 1..Len(Samples'), i < j
          PROVE  Samples'[i] > Samples'[j]
      <4>1. i \in 1..Len(Samples) /\ Len(Samples) # 0
        BY <2>3, <3>3, <3>6
      <4>2. CASE j \in 1..Len(Samples)
        BY <3>3, <3>6, <4>1, <4>2 DEF RowsDescend
      <4>3. CASE j = Len(Samples')
        BY <3>3, <3>5, <4>1, <4>3
      <4>4. QED
        BY <2>3, <3>3, <4>2, <4>3
    <3>7. \A i, j \in 1..Len(Samples') : i < j => Samples'[i] > Samples'[j]
      BY <3>6
    <3>8. QED
      BY <1>2, <2>1, <2>2, <3>1, <3>4, <3>7 DEF RowsDescend
  <2>7. QED
    BY <2>4, <2>5, <2>6
<1>8. QED
  BY <1>2, <1>3, <1>4, <1>5, <1>6, <1>7

LEMMA PatientFixed ==
  ASSUME [Next]_vars
  PROVE  patient' = patient
<1> USE DEF OthersUnchanged
<1>1. CASE SetNumber \/ Console
  BY <1>1 DEF SetNumber, Console, SetTaget, TestHandle, LoadHandle, LoadNull, Post, CreateTimer,
              ConsoleStep, Reset
<1>2. CASE (\E t \in Timers : Expire(t)) \/ Store \/ ForgetHandle \/ Unlabel \/ ServiceLoadsNull
  BY <1>2 DEF Expire, Store, ForgetHandle, Unlabel, ServiceLoadsNull, Reset
<1>3. CASE \/ ServiceLoads("load_stop", "stop") \/ ServiceLoads("load_delete", "delete")
           \/ ServicePosts("stop", "load_delete", "stop") \/ ServicePosts("delete", "forget", "delete")
  BY <1>3 DEF ServiceLoads, ServicePosts
<1>4. CASE Command
  BY <1>4 DEF Command, Reset
<1>5. CASE ReadNumber \/ Row \/ RowIgnored \/ UNCHANGED vars
  BY <1>5, PatientRowStays
<1>6. QED
  BY <1>1, <1>2, <1>3, <1>4, <1>5 DEF Next, Service

LEMMA PatientStep ==
  LabelIInv /\ PatientIInv /\ [Next]_vars => PatientIInv'
<1> SUFFICES ASSUME LabelIInv, PatientIInv, [Next]_vars, patient'
             PROVE  TurnsTaken' /\ OldTimersStop' /\ NumberCounts' /\ RowsDescend'
  BY DEF PatientIInv
<1>1. patient
  BY PatientFixed
<1>2. TurnsTaken /\ OldTimersStop /\ NumberCounts /\ RowsDescend
  BY <1>1 DEF PatientIInv
<1>3. CASE SetNumber \/ Console
  BY <1>1, <1>2, <1>3, PatientConsole, RowsOnTheirWay
<1>4. CASE Service
  BY <1>1, <1>2, <1>4, PatientCallback, PatientCommand, RowsOnTheirWay
<1>5. CASE ReadNumber \/ Row \/ RowIgnored \/ UNCHANGED vars
  BY <1>1, <1>2, <1>5, PatientRowStays, RowsPrinted
<1>6. QED
  BY <1>3, <1>4, <1>5 DEF Next

LEMMA PatientInit == Init => PatientIInv
<1> SUFFICES ASSUME Init
             PROVE  TurnsTaken /\ OldTimersStop /\ NumberCounts /\ RowsDescend
  BY DEF PatientIInv
<1>1. TurnsTaken
  BY DEF Init, TurnsTaken, Ending
<1>2. OldTimersStop
  BY DEF Init, OldTimersStop
<1>3. NumberCounts
  BY DEF Init, NumberCounts
<1>4. Samples = << >> /\ files = << >> /\ printer = "idle" /\ rowNumber = 0
      /\ console = "idle" /\ ~ labelled
  BY DEF Init, Samples
<1>5. RowsDescend
  BY <1>4 DEF RowsDescend
<1>6. QED
  BY <1>1, <1>2, <1>3, <1>5

LEMMA PatientAlways == Spec => []PatientIInv
BY LabelAlways, PatientInit, PatientStep, PTL DEF Spec

(* A patient operator's collection puts each of its samples into one file:   *)
(* the print task reads a row's number and label at different times, yet the *)
(* numbers of the host's files descend from the one that was asked for.      *)
THEOREM OneFilePerSampleAlways == Spec => []OneFilePerSample
<1>1. PatientIInv => OneFilePerSample
  BY DEF PatientIInv, RowsDescend, Samples, OneFilePerSample
<1>2. QED
  BY <1>1, PatientAlways, PTL

-----------------------------------------------------------------------------
(* Every step of a patient operator's collection is one that Collection       *)
(* promises, or none: SetTaget begins it, Store takes a sample and Unlabel    *)
(* ends it.                                                                 *)
LEMMA CollectionStep ==
  LabelIInv /\ PatientIInv /\ [Next]_vars => [Abstract!Next]_(Abstract!vars)
<1> SUFFICES ASSUME LabelIInv, PatientIInv, [Next]_vars
             PROVE  [Abstract!Next]_(Abstract!vars)
  OBVIOUS
<1> USE DEF OthersUnchanged, Abstract!vars
<1>1. /\ labelled \in BOOLEAN /\ patient \in BOOLEAN /\ patient' = patient
      /\ collect_number \in 0..(Modulus - 1)
  BY PatientFixed DEF LabelIInv, TypeOK
<1>2. CASE ~ patient
  BY <1>1, <1>2
<1>3. CASE patient
  <2>1. TurnsTaken /\ NumberCounts
    BY <1>3 DEF PatientIInv
  <2>2. ASSUME UNCHANGED <<labelled, collect_number>>
        PROVE  [Abstract!Next]_(Abstract!vars)
    BY <1>1, <2>2
  <2>3. CASE SetNumber
    <3>1. ~ labelled /\ labelled' = labelled
      BY <1>3, <2>3 DEF SetNumber, CollectionOver
    <3>2. QED
      BY <1>1, <3>1
  <2>4. CASE SetTaget
    <3>1. /\ console = "label" /\ labelled' = TRUE /\ collect_number' = collect_number
          /\ ~ labelled /\ collect_number \in Numbers
      BY <2>1, <2>4 DEF SetTaget, ConsoleStep, TurnsTaken, NumberCounts
    <3>2. Abstract!Begin
      BY <1>1, <1>3, <3>1 DEF Abstract!Begin
    <3>3. QED
      BY <3>2 DEF Abstract!Next
  <2>5. CASE Store
    <3>1. /\ labelled /\ labelled' = labelled /\ serviceArg = collect_number /\ collect_number > 0
      BY <2>1, <2>5 DEF Store, TurnsTaken, NumberCounts, Ending
    <3>2. collect_number' = collect_number - 1
      <4>1. serviceArg \in 0..(Modulus - 1) /\ serviceArg # 0
        BY <1>1, <3>1
      <4>2. collect_number' = serviceArg - 1
        BY <2>5, <4>1, Decrement DEF Store
      <4>3. QED
        BY <3>1, <4>2
    <3>3. Abstract!Sample
      BY <1>1, <1>3, <3>1, <3>2 DEF Abstract!Sample
    <3>4. QED
      BY <3>3 DEF Abstract!Next
  <2>6. CASE Unlabel
    <3>1. /\ labelled /\ labelled' = FALSE /\ collect_number = 0
      BY <2>1, <2>6 DEF Unlabel, TurnsTaken, NumberCounts, Ending
    <3>2. Abstract!End
      BY <1>1, <1>3, <3>1 DEF Abstract!End
    <3>3. QED
      BY <3>2 DEF Abstract!Next
  <2>7. CASE Console /\ ~ SetTaget
    <3>1. ~ LoadNull
      BY <2>1 DEF LoadNull, TurnsTaken
    <3>2. UNCHANGED <<labelled, collect_number>>
      BY <2>7, <3>1 DEF Console, TestHandle, Post, LoadHandle, CreateTimer
    <3>3. QED
      BY <2>2, <3>2
  <2>8. CASE Service /\ ~ Store /\ ~ Unlabel
    <3>1. ~ ServiceLoadsNull
      BY <2>1 DEF ServiceLoadsNull, TurnsTaken
    <3>2. CASE (\E t \in Timers : Expire(t)) \/ ForgetHandle
      BY <2>2, <3>2 DEF Expire, ForgetHandle
    <3>3. CASE ServiceLoads("load_stop", "stop") \/ ServiceLoads("load_delete", "delete")
      BY <2>2, <3>3 DEF ServiceLoads
    <3>4. CASE ServicePosts("stop", "load_delete", "stop") \/ ServicePosts("delete", "forget", "delete")
      BY <2>2, <3>4 DEF ServicePosts
    <3>5. CASE Command
      <4>1. OldTimersStop
        BY <1>3 DEF PatientIInv
      <4>2. UNCHANGED <<labelled, collect_number>>
        BY <1>3, <2>1, <3>5, <4>1, PatientCommand
      <4>3. QED
        BY <2>2, <4>2
    <3>6. QED
      BY <2>8, <3>1, <3>2, <3>3, <3>4, <3>5 DEF Service
  <2>9. CASE ReadNumber \/ Row \/ RowIgnored \/ UNCHANGED vars
    BY <2>2, <2>9, PatientRowStays
  <2>10. QED
    BY <2>3, <2>4, <2>5, <2>6, <2>7, <2>8, <2>9 DEF Next
<1>4. QED
  BY <1>1, <1>2, <1>3

(* The safety part of ImplementsCollection: labelled collection, with its     *)
(* three tasks and the timer service's queue, takes no step that Collection   *)
(* does not allow.                                                           *)
THEOREM CollectionStepsOnly == Spec => Abstract!Init /\ [][Abstract!Next]_(Abstract!vars)
<1>1. Init => Abstract!Init
  BY DEF Init, Abstract!Init
<1>2. QED
  BY <1>1, LabelAlways, PatientAlways, CollectionStep, PTL DEF Spec

=============================================================================
