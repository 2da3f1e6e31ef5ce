---------------------------- MODULE IpiPollProofs ----------------------------
(***************************************************************************)
(* For every set of cores, every choice of the threads that signals may    *)
(* interrupt and any number of signals: the interrupt path implements the  *)
(* doorbell, and no notification is lost between the mailbox and the       *)
(* thread that serves it.                                                  *)
(***************************************************************************)
EXTENDS IpiPoll, TLAPS

(***************************************************************************)
(* The types.                                                              *)
(***************************************************************************)
LEMMA TypeInit == Init => TypeOK
<1> SUFFICES ASSUME Init PROVE TypeOK
  OBVIOUS
<1>1. pc \in [Target -> ThreadPC] /\ ipc \in IrqPC /\ hpc \in [Thread -> HandlerPC]
  BY DEF Init, ThreadPC, IrqPC, HandlerPC
<1>2. peer \in [Target -> {"idle", "ring"}]
  BY DEF Init
<1>3. QED
  BY <1>1, <1>2 DEF Init, TypeOK

LEMMA TypeStep == TypeOK /\ [Next]_vars => TypeOK'
<1> USE DEF TypeOK, peerVars, flagVars, lockVars, threadVars
<1> SUFFICES ASSUME TypeOK, [Next]_vars PROVE TypeOK'
  OBVIOUS
<1>1. ASSUME NEW t \in Target, Put(t) \/ Ring(t) \/ StrayRing(t) \/ UioEvent(t)
      PROVE  TypeOK'
  BY <1>1 DEF Put, Ring, StrayRing, UioEvent
<1>2. CASE MainLoop \/ MenuExit \/ Join
  BY <1>2 DEF MainLoop, MenuExit, Join, MainGoto
<1>3. ASSUME NEW S \in SUBSET Target, Launch(S)
      PROVE  TypeOK'
  BY <1>3 DEF Launch, MainGoto, ThreadPC
<1>4. ASSUME NEW t \in Target,
             EnterThread(t) \/ SetUp(t) \/ AppStep(t) \/ LeaveThread(t)
      PROVE  TypeOK'
  BY <1>4 DEF EnterThread, SetUp, AppStep, LeaveThread, Goto, ThreadPC, PollPC
<1>5. ASSUME NEW t \in Target, PollStep(t)
      PROVE  TypeOK'
  BY <1>5 DEF PollStep, PollCheck, PollIrqLock, PollTest, PollServe,
       PollMutexLock, PollWait, PollWoken, PollUnlock, Goto, ThreadPC, PollPC,
       Thread
<1>6. ASSUME NEW t \in Target, SpuriousWake(t)
      PROVE  TypeOK'
  BY <1>6 DEF SpuriousWake, Goto, ThreadPC, PollPC
<1>7. ASSUME NEW t \in Target, IrqEnter(t)
      PROVE  TypeOK'
  BY <1>7 DEF IrqEnter, IrqGoto, IrqPC, Thread
<1>8. CASE IrqIgnore \/ IrqClear \/ IrqInvalid \/ IrqNotify \/ IrqMutexLock
  BY <1>8 DEF IrqIgnore, IrqClear, IrqInvalid, IrqNotify, IrqMutexLock,
       NotHandled, IrqGoto, IrqPC, Thread
<1>9. CASE IrqSignal
  BY <1>9 DEF IrqSignal, Signalled, IrqGoto, IrqPC, ThreadPC, PollPC
<1>10. CASE IrqAck
  BY <1>10 DEF IrqAck, IrqGoto, IrqPC
<1>11. ASSUME NEW th \in Thread, StopDeliver(th)
       PROVE  TypeOK'
  BY <1>11 DEF StopDeliver, HandlerPC
<1>12. ASSUME NEW th \in Thread, StopMutexLock(th)
       PROVE  TypeOK'
  BY <1>12 DEF StopMutexLock, HandlerPC
<1>13. ASSUME NEW th \in Thread, StopSignal(th)
       PROVE  TypeOK'
  BY <1>13 DEF StopSignal, Signalled, HandlerPC, ThreadPC, PollPC
<1>14. CASE UNCHANGED vars
  BY <1>14 DEF vars
<1>15. QED
  BY <1>1, <1>2, <1>3, <1>4, <1>5, <1>6, <1>7, <1>8, <1>9, <1>10, <1>11,
     <1>12, <1>13, <1>14, ThreadAssumption
  DEF Next, MainStep, ClientStep, IrqStep

THEOREM TypeCorrect == Spec => []TypeOK
  BY TypeInit, TypeStep, PTL DEF Spec

(***************************************************************************)
(* irq_lock, the UIO event and the flag.                                   *)
(***************************************************************************)
LEMMA HandOverInit == Init => HandOver
<1> SUFFICES ASSUME Init PROVE HandOver
  OBVIOUS
<1>1. Joined /\ IrqLockOwner
  BY ThreadAssumption DEF Init, Joined, IrqLockOwner, Thread
<1>2. EventHeld /\ FlagHeld
  BY DEF Init, EventHeld, FlagHeld
<1>3. QED
  BY <1>1, <1>2, TypeInit DEF HandOver

LEMMA HandOverStep == HandOver /\ [Next]_vars => HandOver'
<1> USE DEF HandOver, Joined, IrqLockOwner, EventHeld, FlagHeld, peerVars, flagVars,
        lockVars, threadVars
<1> DEFINE Rest == Joined /\ IrqLockOwner /\ EventHeld /\ FlagHeld
<1> SUFFICES ASSUME HandOver, [Next]_vars PROVE Rest'
  BY TypeStep
<1>0. Main # Irq /\ Main \notin Target /\ Irq \notin Target /\ NoThread \notin Thread
  BY ThreadAssumption
<1>1. ASSUME NEW t \in Target, Put(t) \/ Ring(t) \/ StrayRing(t) \/ UioEvent(t)
      PROVE  Rest'
  BY <1>1 DEF Put, Ring, StrayRing, UioEvent, TypeOK
<1>2. CASE MainLoop \/ MenuExit \/ Join
  BY <1>2 DEF MainLoop, MenuExit, Join, MainGoto
<1>3. ASSUME NEW S \in SUBSET Target, Launch(S)
      PROVE  Rest'
  BY <1>3 DEF Launch, MainGoto
<1>4. ASSUME NEW t \in Target,
             EnterThread(t) \/ SetUp(t) \/ AppStep(t) \/ LeaveThread(t)
      PROVE  Rest'
  BY <1>4 DEF EnterThread, SetUp, AppStep, LeaveThread, Goto, TypeOK
<1>5. ASSUME NEW t \in Target, PollStep(t)
      PROVE  Rest'
  <2>1. CASE PollIrqLock(t)
    BY <1>0, <2>1 DEF PollIrqLock, Goto, TypeOK, Thread
  <2>2. CASE PollTest(t)
    BY <1>0, <2>2 DEF PollTest, Goto, TypeOK, Thread
  <2>3. CASE PollCheck(t) \/ PollServe(t) \/ PollMutexLock(t) \/ PollWait(t)
             \/ PollWoken(t) \/ PollUnlock(t)
    BY <2>3 DEF PollCheck, PollServe, PollMutexLock, PollWait, PollWoken,
         PollUnlock, Goto, TypeOK
  <2>4. QED
    BY <1>5, <2>1, <2>2, <2>3 DEF PollStep
<1>6. ASSUME NEW t \in Target, SpuriousWake(t)
      PROVE  Rest'
  BY <1>6 DEF SpuriousWake, Goto, TypeOK
<1>7. ASSUME NEW t \in Target, IrqEnter(t)
      PROVE  Rest'
  BY <1>0, <1>7 DEF IrqEnter, IrqGoto, Thread
<1>8. CASE IrqIgnore \/ IrqInvalid
  BY <1>0, <1>8 DEF IrqIgnore, IrqInvalid, NotHandled, IrqGoto, Thread
<1>9. CASE IrqClear \/ IrqNotify \/ IrqMutexLock
  BY <1>9 DEF IrqClear, IrqNotify, IrqMutexLock, IrqGoto, TypeOK
<1>10. CASE IrqSignal
  BY <1>10 DEF IrqSignal, Signalled, IrqGoto, TypeOK
<1>11. CASE IrqAck
  BY <1>0, <1>11 DEF IrqAck, IrqGoto, Thread
<1>12. ASSUME NEW th \in Thread, StopDeliver(th) \/ StopMutexLock(th)
       PROVE  Rest'
  BY <1>12 DEF StopDeliver, StopMutexLock
<1>13. ASSUME NEW th \in Thread, StopSignal(th)
       PROVE  Rest'
  BY <1>13 DEF StopSignal, Signalled, TypeOK
<1>14. CASE UNCHANGED vars
  BY <1>14 DEF vars
<1>15. QED
  BY <1>1, <1>2, <1>3, <1>4, <1>5, <1>6, <1>7, <1>8, <1>9, <1>10, <1>11,
     <1>12, <1>13, <1>14, ThreadAssumption
  DEF Next, MainStep, ClientStep, IrqStep

(***************************************************************************)
(* Between the moment the handler clears the flag of a core and the moment *)
(* it acknowledges the core's event, irq_lock keeps platform_poll from     *)
(* taking the notification.                                                *)
(***************************************************************************)
THEOREM HandOverCorrect == Spec => []HandOver
  BY HandOverInit, HandOverStep, PTL DEF Spec

(***************************************************************************)
(* The mutex.                                                              *)
(***************************************************************************)
LEMMA MutexInit == Init => MutexOwner
  BY ThreadAssumption DEF Init, MutexOwner, InOwnSection, Thread

LEMMA MutexStep == HandOver /\ MutexOwner /\ [Next]_vars => MutexOwner'
<1> USE DEF MutexOwner, InOwnSection, peerVars, flagVars, lockVars, threadVars
<1> SUFFICES ASSUME HandOver, MutexOwner, [Next]_vars PROVE MutexOwner'
  OBVIOUS
<1>0. /\ TypeOK
      /\ Main # Irq /\ Main \notin Target /\ Irq \notin Target
      /\ NoThread \notin Thread
  BY ThreadAssumption DEF HandOver
<1>1. ASSUME NEW t \in Target, Put(t) \/ Ring(t) \/ StrayRing(t) \/ UioEvent(t)
      PROVE  MutexOwner'
  BY <1>1 DEF Put, Ring, StrayRing, UioEvent
<1>2. CASE MainLoop \/ MenuExit \/ Join
  BY <1>2 DEF MainLoop, MenuExit, Join, MainGoto
<1>3. ASSUME NEW S \in SUBSET Target, Launch(S)
      PROVE  MutexOwner'
  BY <1>3 DEF Launch, MainGoto, HandOver, Joined
<1>4. ASSUME NEW t \in Target,
             EnterThread(t) \/ SetUp(t) \/ AppStep(t) \/ LeaveThread(t)
      PROVE  MutexOwner'
  BY <1>0, <1>4 DEF EnterThread, SetUp, AppStep, LeaveThread, Goto, TypeOK
<1>5. ASSUME NEW t \in Target, PollStep(t)
      PROVE  MutexOwner'
  <2>1. CASE PollMutexLock(t) \/ PollWoken(t)
    BY <1>0, <2>1 DEF PollMutexLock, PollWoken, Goto, Runs, TypeOK, Thread
  <2>2. CASE PollWait(t) \/ PollUnlock(t)
    BY <1>0, <2>2 DEF PollWait, PollUnlock, Goto, Runs, TypeOK, Thread
  <2>3. CASE PollCheck(t) \/ PollIrqLock(t) \/ PollTest(t) \/ PollServe(t)
    BY <1>0, <2>3 DEF PollCheck, PollIrqLock, PollTest, PollServe, Goto, TypeOK
  <2>4. QED
    BY <1>5, <2>1, <2>2, <2>3 DEF PollStep
<1>6. ASSUME NEW t \in Target, SpuriousWake(t)
      PROVE  MutexOwner'
  BY <1>0, <1>6 DEF SpuriousWake, Goto, TypeOK
<1>7. ASSUME NEW t \in Target, IrqEnter(t)
      PROVE  MutexOwner'
  BY <1>7 DEF IrqEnter, IrqGoto
<1>8. CASE IrqIgnore \/ IrqClear \/ IrqInvalid \/ IrqNotify \/ IrqAck
  BY <1>8 DEF IrqIgnore, IrqClear, IrqInvalid, IrqNotify, IrqAck, NotHandled,
       IrqGoto
<1>9. CASE IrqMutexLock
  BY <1>0, <1>9 DEF IrqMutexLock, IrqGoto, Runs, TypeOK, Thread
<1>10. CASE IrqSignal
  BY <1>0, <1>10 DEF IrqSignal, Signalled, IrqGoto, Runs, TypeOK, Thread
<1>11. ASSUME NEW th \in Thread, StopDeliver(th)
       PROVE  MutexOwner'
  BY <1>0, <1>11 DEF StopDeliver, Runs, TypeOK
<1>12. ASSUME NEW th \in Thread, StopMutexLock(th)
       PROVE  MutexOwner'
  BY <1>0, <1>12 DEF StopMutexLock, TypeOK
<1>13. ASSUME NEW th \in Thread, StopSignal(th)
       PROVE  MutexOwner'
  BY <1>0, <1>13 DEF StopSignal, Signalled, TypeOK
<1>14. CASE UNCHANGED vars
  BY <1>14 DEF vars
<1>15. QED
  BY <1>1, <1>2, <1>3, <1>4, <1>5, <1>6, <1>7, <1>8, <1>9, <1>10, <1>11,
     <1>12, <1>13, <1>14, ThreadAssumption
  DEF Next, MainStep, ClientStep, IrqStep

(***************************************************************************)
(* Whatever thread a signal interrupts, the mutex belongs to the one       *)
(* critical section that took it, and is freed by that section alone.      *)
(***************************************************************************)
THEOREM MutexCorrect == Spec => []MutexOwner
  BY HandOverInit, HandOverStep, MutexInit, MutexStep, PTL DEF Spec

(***************************************************************************)
(* The doorbell.                                                           *)
(***************************************************************************)
LEMMA BellInit == Init => Bell!Init
  BY DEF Init, Bell!Init, Owed, ClientOf

LEMMA BellStep == HandOver /\ [Next]_vars => [Bell!Next]_Bell!vars
<1> USE DEF peerVars, flagVars, lockVars, threadVars
<1> DEFINE owed == [t \in Target |-> Owed(t) \/ peer[t] = "ring"]
           client == [t \in Target |-> ClientOf(t)]
           Same(t) == owed'[t] = owed[t] /\ client'[t] = client[t]
           Others(t) == \A u \in Target \ {t} : Same(u)
           Stutter == UNCHANGED <<fresh, owed, client>>
<1> SUFFICES ASSUME HandOver, [Next]_vars
             PROVE  Bell!Next \/ Stutter
  BY DEF Bell!vars
<1>0. TypeOK /\ TypeOK'
  BY TypeStep DEF HandOver
\* What a step changes is its own target's.
<1>1. ASSUME NEW t \in Target, Others(t)
      PROVE  /\ owed' = [owed EXCEPT ![t] = owed'[t]] /\ owed'[t] \in BOOLEAN
             /\ client' = [client EXCEPT ![t] = client'[t]]
  <2>1. owed' = [owed EXCEPT ![t] = owed'[t]]
    BY <1>1
  <2>2. client' = [client EXCEPT ![t] = client'[t]]
    BY <1>1
  <2>3. owed'[t] \in BOOLEAN
    BY <1>0 DEF Owed, TypeOK
  <2>4. QED
    BY <2>1, <2>2, <2>3
<1>2. ASSUME NEW t \in Target, Put(t) \/ StrayRing(t)
      PROVE  Bell!Ring(t)
  <2>1. owed'[t] /\ client'[t] = client[t] /\ Others(t)
    BY <1>0, <1>2 DEF Put, StrayRing, ClientOf, Owed, TypeOK
  <2>2. \E w \in BOOLEAN : fresh' = [fresh EXCEPT ![t] = @ \/ w]
    <3>1. CASE Put(t)
      BY <1>0, <3>1 DEF Put, TypeOK
    <3>2. CASE StrayRing(t)
      BY <1>0, <3>2 DEF StrayRing, TypeOK
    <3>3. QED
      BY <1>2, <3>1, <3>2
  <2>3. owed' = [owed EXCEPT ![t] = TRUE] /\ client' = client
    BY <1>1, <2>1
  <2>4. QED
    BY <2>2, <2>3 DEF Bell!Ring
<1>3. ASSUME NEW t \in Target, Ring(t)
      PROVE  Stutter
  BY <1>0, <1>3 DEF Ring, Owed, ClientOf, TypeOK
<1>4. ASSUME NEW t \in Target, UioEvent(t)
      PROVE  Stutter
  BY <1>0, <1>4 DEF UioEvent, Owed, ClientOf, TypeOK
<1>5. CASE MainLoop \/ MenuExit \/ Join
  BY <1>5 DEF MainLoop, MenuExit, Join, MainGoto, Owed, ClientOf
<1>6. ASSUME NEW S \in SUBSET Target, Launch(S)
      PROVE  Stutter
  \* No thread runs that the menu could start again.
  BY <1>0, <1>6 DEF Launch, MainGoto, Owed, ClientOf, HandOver, Joined
<1>7. ASSUME NEW t \in Target, EnterThread(t)
      PROVE  Bell!Enter(t)
  <2>1. client[t] = "away" /\ client'[t] = "there" /\ owed'[t] = owed[t] /\ Others(t)
    BY <1>0, <1>7 DEF EnterThread, Goto, Owed, ClientOf, TypeOK
  <2>2. fresh' = [fresh EXCEPT ![t] = fresh[t]]
    BY <1>0, <1>7 DEF EnterThread, TypeOK
  <2>3. owed' = owed /\ client' = [client EXCEPT ![t] = "there"]
    BY <1>1, <2>1
  <2>4. QED
    BY <2>1, <2>2, <2>3 DEF Bell!Enter
<1>8. ASSUME NEW t \in Target, LeaveThread(t)
      PROVE  Bell!Leave(t)
  <2>1. client[t] = "there" /\ client'[t] = "away" /\ owed'[t] = owed[t] /\ Others(t)
    BY <1>0, <1>8 DEF LeaveThread, Goto, Owed, ClientOf, TypeOK
  <2>2. owed' = owed /\ client' = [client EXCEPT ![t] = "away"] /\ fresh' = fresh
    BY <1>1, <1>8, <2>1 DEF LeaveThread
  <2>3. QED
    BY <2>1, <2>2 DEF Bell!Leave
<1>9. ASSUME NEW t \in Target, SetUp(t) \/ AppStep(t) \/ SpuriousWake(t)
      PROVE  Stutter
  BY <1>0, <1>9 DEF SetUp, AppStep, SpuriousWake, Goto, Owed, ClientOf, TypeOK
<1>10. ASSUME NEW t \in Target, PollStep(t)
       PROVE  Bell!Answer(t) \/ Bell!Serve(t) \/ Stutter
  <2>1. CASE PollTest(t) /\ ~sync[t]
    \* The flag's ring is answered; one behind it may be on its way.
    <3>1. client[t] = "there" /\ client'[t] = "looking" /\ owed[t] /\ Others(t)
      BY <1>0, <2>1 DEF PollTest, Goto, Owed, ClientOf, TypeOK
    <3>2. fresh' = fresh
      BY <2>1 DEF PollTest
    <3>3. QED
      BY <1>1, <3>1, <3>2 DEF Bell!Answer
  <2>2. CASE PollTest(t) /\ sync[t]
    BY <1>0, <2>2 DEF PollTest, Goto, Owed, ClientOf, TypeOK
  <2>3. CASE PollServe(t)
    <3>1. client[t] = "looking" /\ client'[t] = "there" /\ owed'[t] = owed[t] /\ Others(t)
      BY <1>0, <2>3 DEF PollServe, Goto, Owed, ClientOf, TypeOK
    <3>2. owed' = owed /\ client' = [client EXCEPT ![t] = "there"]
      BY <1>1, <3>1
    <3>3. QED
      BY <2>3, <3>1, <3>2 DEF PollServe, Bell!Serve
  <2>4. CASE PollCheck(t) \/ PollIrqLock(t) \/ PollMutexLock(t) \/ PollWait(t)
             \/ PollWoken(t) \/ PollUnlock(t)
    BY <1>0, <2>4 DEF PollCheck, PollIrqLock, PollMutexLock, PollWait,
         PollWoken, PollUnlock, Goto, Owed, ClientOf, TypeOK
  <2>5. QED
    BY <1>10, <2>1, <2>2, <2>3, <2>4 DEF PollStep
<1>11. CASE IrqStep
  <2>1. CASE IrqClear
    \* The event stands for the ring that the mailbox no longer shows.
    BY <1>0, <2>1 DEF IrqClear, IrqGoto, Owed, ClientOf, TypeOK, HandOver, EventHeld
  <2>2. CASE IrqNotify
    BY <1>0, <2>2 DEF IrqNotify, IrqGoto, Owed, ClientOf, TypeOK, HandOver, EventHeld
  <2>3. CASE IrqAck
    \* The flag, still clear, stands for the event.
    BY <1>0, <2>3 DEF IrqAck, IrqGoto, Owed, ClientOf, TypeOK, HandOver, FlagHeld
  <2>4. CASE IrqSignal
    BY <1>0, <2>4 DEF IrqSignal, Signalled, IrqGoto, Owed, ClientOf, TypeOK
  <2>5. CASE \/ \E t \in Target : IrqEnter(t)
             \/ IrqIgnore \/ IrqInvalid \/ IrqMutexLock
    BY <2>5 DEF IrqEnter, IrqIgnore, IrqInvalid, IrqMutexLock, NotHandled,
       IrqGoto, Owed, ClientOf
  <2>6. QED
    BY <1>11, <2>1, <2>2, <2>3, <2>4, <2>5 DEF IrqStep
<1>12. ASSUME NEW th \in Thread, StopDeliver(th) \/ StopMutexLock(th)
       PROVE  Stutter
  BY <1>12 DEF StopDeliver, StopMutexLock, Owed, ClientOf
<1>13. ASSUME NEW th \in Thread, StopSignal(th)
       PROVE  Stutter
  BY <1>0, <1>13 DEF StopSignal, Signalled, Owed, ClientOf, TypeOK
<1>14. CASE UNCHANGED vars
  BY <1>14 DEF vars, Owed, ClientOf
<1>15. QED
  BY <1>2, <1>3, <1>4, <1>5, <1>6, <1>7, <1>8, <1>9, <1>10, <1>11,
     <1>12, <1>13, <1>14, ThreadAssumption
  DEF Next, MainStep, ClientStep, Bell!Next

(***************************************************************************)
(* The interrupt path of the RZ/G3S client implements the doorbell.        *)
(***************************************************************************)
THEOREM ImplementsDoorbell == Spec => BellSafeSpec
  BY BellInit, BellStep, HandOverInit, HandOverStep, PTL
  DEF Spec, BellSafeSpec, Bell!SafeSpec

(***************************************************************************)
(* No notification is lost: buffers the remote core has rung for have a    *)
(* ring standing for them until platform_poll serves them.                 *)
(***************************************************************************)
THEOREM NoNotificationLost == Spec => []NoLostNotification
<1> DEFINE Work == Bell!NoWorkWithoutRing
<1>1. Bell!Init => Work
  BY DEF Bell!Init, Bell!NoWorkWithoutRing
<1>2. TypeOK /\ Work /\ [Bell!Next]_Bell!vars => Work'
  BY DEF Bell!Next, Bell!Ring, Bell!Answer, Bell!Serve, Bell!Enter, Bell!Leave,
     Bell!vars, Bell!NoWorkWithoutRing, TypeOK
<1>3. Work => NoLostNotification
  BY DEF Bell!NoWorkWithoutRing, NoLostNotification, Stands, ClientOf
<1>4. QED
  BY <1>1, <1>2, <1>3, TypeCorrect, ImplementsDoorbell, PTL
  DEF BellSafeSpec, Bell!SafeSpec
=============================================================================
