-------------------------- MODULE PingSessionProofs --------------------------
(* The safety of PingSession for any number of sessions.  HandleNotDangling *)
(* is inductive given the types: the only step that stores a session in the *)
(* handle takes a new one, the only step after which a thread may free its  *)
(* session clears the handle, whichever session it names.                   *)
EXTENDS PingSession, TLAPS

IInv == TypeOK /\ HandleNotDangling

LEMMA InitInv == Init => IInv
  BY NullAssumption, TaskAssumption DEF Init, IInv, TypeOK, HandleNotDangling, Labels, Stages, Tasks

(* The steps of the command keep the invariant.  All but NewSession leave   *)
(* the handle and the threads alone.                                        *)
LEMMA ParseFailsKeepsInv == IInv /\ ParseFails => IInv'
  BY DEF IInv, TypeOK, HandleNotDangling, ParseFails, Goto, Labels, sessionVars

LEMMA CommandKeepsInv ==
  ASSUME IInv, NEW t \in Tasks, Parse(t) \/ Command(t)
  PROVE  IInv'
  <1> USE DEF IInv, TypeOK, HandleNotDangling
  <1>1. CASE Parse(t)
    BY <1>1 DEF Parse, Goto, Labels, sessionVars
  <1>2. CASE Decide(t)
    BY <1>2 DEF Decide, Goto, Labels, sessionVars
  <1>3. ASSUME NEW from \in Labels, NEW to \in Labels, Load(t, from, to)
        PROVE  IInv'
    BY <1>3 DEF Load, Goto, sessionVars
  <1>4. CASE Stop(t)
    BY <1>4 DEF Stop, Goto, Labels
  <1>5. CASE Delete(t)
    BY <1>5 DEF Delete, Goto, Labels
  <1>6. CASE UnknownHost(t)
    BY <1>6 DEF UnknownHost, Goto, Labels, sessionVars
  <1>7. CASE NewSession(t)
    <2> DEFINE s == CHOOSE u \in Sessions : thread[u] = "none"
    <2>1. s \in Sessions /\ thread[s] = "none"
      BY <1>7 DEF NewSession
    <2>2. TypeOK'
      BY <1>7, <2>1 DEF NewSession, Goto, Labels, Stages
    <2>3. g_ping_handle' = s /\ thread'[s] = "waiting"
      BY <1>7, <2>1 DEF NewSession
    <2>4. QED
      BY <2>2, <2>3 DEF Usable
  <1>8. CASE NewSessionFails(t)
    BY <1>8 DEF NewSessionFails, Goto, Labels, sessionVars
  <1>9. CASE Start(t)
    BY <1>9 DEF Start, Goto, Labels, Live
  <1>10. QED
    BY <1>1, <1>2, <1>3, <1>4, <1>5, <1>6, <1>7, <1>8, <1>9 DEF Command, Labels

(* A thread moves on among the stages the handle may name until it clears   *)
(* the handle; only then can it exit.                                       *)
LEMMA ThreadKeepsInv ==
  ASSUME IInv, NEW s \in Sessions, Thread(s) \/ LastPacket(s)
  PROVE  IInv'
  <1> USE DEF IInv, TypeOK, HandleNotDangling, ThreadStep, Stages, Usable, taskVars
  <1>1. CASE Wake(s)
    BY <1>1 DEF Wake
  <1>2. CASE LastPacket(s)
    BY <1>2 DEF LastPacket
  <1>3. CASE LoopEnds(s)
    BY <1>3 DEF LoopEnds
  <1>4. CASE OnEndDelete(s)
    BY <1>4 DEF OnEndDelete
  <1>5. CASE OnEndClear(s)
    BY <1>5 DEF OnEndClear
  <1>6. CASE ThreadFrees(s)
    BY <1>6 DEF ThreadFrees
  <1>7. QED
    BY <1>1, <1>2, <1>3, <1>4, <1>5, <1>6 DEF Thread

LEMMA NextKeepsInv == IInv /\ [Next]_vars => IInv'
  <1> SUFFICES ASSUME IInv, [Next]_vars
               PROVE  IInv'
    OBVIOUS
  <1>1. CASE Next
    BY <1>1, ParseFailsKeepsInv, CommandKeepsInv, ThreadKeepsInv DEF Next
  <1>2. CASE UNCHANGED vars
    BY <1>2 DEF vars, taskVars, sessionVars, IInv, TypeOK, HandleNotDangling
  <1>3. QED
    BY <1>1, <1>2

(* Every state of every behaviour is of the types TypeOK names. *)
THEOREM PingTypeCorrect == Spec => []TypeOK
  <1>1. IInv => TypeOK
    BY DEF IInv
  <1>2. QED
    BY <1>1, InitInv, NextKeepsInv, PTL DEF Spec

(* The handle never names a session that was given back to the heap.  This  *)
(* is the memory-safety half of ping_cmd.c: a later "ping --abort" that     *)
(* loads the handle loads NULL or a session that was not freed yet.         *)
THEOREM PingHandleNotDangling == Spec => []HandleNotDangling
  <1>1. IInv => HandleNotDangling
    BY DEF IInv
  <1>2. QED
    BY <1>1, InitInv, NextKeepsInv, PTL DEF Spec
=============================================================================
