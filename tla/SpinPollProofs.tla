---------------------------- MODULE SpinPollProofs ----------------------------
(***************************************************************************)
(* The spinning client: the hand-over of irq_lock, event and flag between  *)
(* handler and client, and the safety part of the doorbell, which rests on *)
(* it.                                                                     *)
(***************************************************************************)
EXTENDS SpinPoll, TLAPS

LEMMA HandOverInit == Init => HandOver
  BY DEF Init, HandOver, TypeOK

LEMMA HandOverStep == HandOver /\ [Next]_vars => HandOver'
<1> SUFFICES ASSUME HandOver, [Next]_vars PROVE HandOver'
  OBVIOUS
<1> USE DEF HandOver, TypeOK
<1>1. CASE Put \/ Ring \/ StrayRing \/ UioEvent
  <2>1. CASE Put
    BY <2>1 DEF Put
  <2>2. CASE Ring
    BY <2>2 DEF Ring
  <2>3. CASE StrayRing
    BY <2>3 DEF StrayRing
  <2>4. CASE UioEvent
    BY <2>4 DEF UioEvent
  <2>5. QED
    BY <1>1, <2>1, <2>2, <2>3, <2>4
<1>2. CASE AppStep
  BY <1>2 DEF AppStep, EnterApp, SetUpFails, EnterPoll, LeaveApp, Goto
<1>3. CASE PollStep
  <2>1. CASE PollIrqLock
    BY <2>1 DEF PollIrqLock, Goto
  <2>2. CASE PollTest
    BY <2>2 DEF PollTest, Goto
  <2>3. CASE PollServe
    BY <2>3 DEF PollServe
  <2>4. CASE PollReturn \/ PollYield
    BY <2>4 DEF PollReturn, PollYield, Goto
  <2>5. QED
    BY <1>3, <2>1, <2>2, <2>3, <2>4 DEF PollStep
<1>4. CASE IrqEnter \/ IrqInvalid
  BY <1>4 DEF IrqEnter, IrqInvalid
<1>5. CASE IrqNotify \/ IrqAck
  BY <1>5 DEF IrqNotify, IrqAck
<1>6. CASE UNCHANGED vars
  BY <1>6 DEF vars
<1>7. QED
  BY <1>1, <1>2, <1>3, <1>4, <1>5, <1>6 DEF Next

(***************************************************************************)
(* irq_lock keeps handler and client apart, and the notification stays in  *)
(* the flag until its event is acknowledged.                               *)
(***************************************************************************)
THEOREM HandOverCorrect == Spec => []HandOver
  BY HandOverInit, HandOverStep, PTL DEF Spec

-----------------------------------------------------------------------------
LEMMA BellInit == Init => Bell!Init
  BY DEF Init, Bell!Init, Owed, ClientIs

LEMMA BellStep == HandOver /\ [Next]_vars => [Bell!Next]_Bell!vars
<1> DEFINE work == [t \in {Client} |-> fresh]
           owed == [t \in {Client} |-> Owed \/ peer = "ring"]
           client == [t \in {Client} |-> ClientIs]
           Stutter == UNCHANGED <<work, owed, client>>
<1> SUFFICES ASSUME HandOver, [Next]_vars
             PROVE  Bell!Next \/ Stutter
  BY DEF Bell!vars
<1>0. TypeOK
  BY DEF HandOver
<1>1. CASE Put
  <2>1. owed' = [owed EXCEPT ![Client] = TRUE] /\ UNCHANGED client
    BY <1>1 DEF Put, Owed, ClientIs
  <2>2. work' = [work EXCEPT ![Client] = @ \/ TRUE]
    BY <1>1 DEF Put
  <2>3. QED
    BY <2>1, <2>2 DEF Bell!Next, Bell!Ring
<1>2. CASE StrayRing
  <2>1. owed' = [owed EXCEPT ![Client] = TRUE] /\ UNCHANGED client
    BY <1>2 DEF StrayRing, Owed, ClientIs
  <2>2. work' = [work EXCEPT ![Client] = @ \/ FALSE]
    BY <1>0, <1>2 DEF StrayRing, TypeOK
  <2>3. QED
    BY <2>1, <2>2 DEF Bell!Next, Bell!Ring
<1>3. CASE Ring \/ UioEvent
  BY <1>3 DEF Ring, UioEvent, Owed, ClientIs
<1>4. CASE EnterApp
  <2>1. client[Client] = "away" /\ client' = [client EXCEPT ![Client] = "there"]
    BY <1>4 DEF EnterApp, Goto, ClientIs
  <2>2. owed' = owed /\ work' = [work EXCEPT ![Client] = work[Client]]
    BY <1>4 DEF EnterApp, Owed
  <2>3. QED
    BY <2>1, <2>2 DEF Bell!Next, Bell!Enter
<1>5. CASE LeaveApp
  <2>1. client[Client] = "there" /\ client' = [client EXCEPT ![Client] = "away"]
    BY <1>5 DEF LeaveApp, Goto, ClientIs
  <2>2. UNCHANGED <<work, owed>>
    BY <1>5 DEF LeaveApp, Owed
  <2>3. QED
    BY <2>1, <2>2 DEF Bell!Next, Bell!Leave
<1>6. CASE SetUpFails \/ EnterPoll
  BY <1>6 DEF SetUpFails, EnterPoll, Goto, Owed, ClientIs
<1>7. CASE PollTest /\ ~sync
  \* The flag's ring is answered; one behind it may be on its way.
  <2>1. /\ client[Client] = "there" /\ owed[Client]
        /\ client' = [client EXCEPT ![Client] = "looking"]
    BY <1>7 DEF PollTest, Goto, Owed, ClientIs
  <2>2. owed' = [owed EXCEPT ![Client] = owed'[Client]] /\ work' = work
    BY <1>7 DEF PollTest
  <2>3. owed'[Client] \in BOOLEAN
    BY <1>0, <1>7 DEF PollTest, TypeOK, Owed
  <2>4. QED
    BY <2>1, <2>2, <2>3 DEF Bell!Next, Bell!Answer
<1>8. CASE PollTest /\ sync
  BY <1>0, <1>8 DEF PollTest, Goto, Owed, ClientIs, TypeOK
<1>9. CASE PollServe
  <2>1. client[Client] = "looking" /\ client' = [client EXCEPT ![Client] = "looking"]
    BY <1>9 DEF PollServe, ClientIs
  <2>2. work' = [work EXCEPT ![Client] = FALSE] /\ owed' = owed
    BY <1>9 DEF PollServe, Owed
  <2>3. QED
    BY <2>1, <2>2 DEF Bell!Next, Bell!Serve
<1>10. CASE PollReturn
  <2>1. client[Client] = "looking" /\ client' = [client EXCEPT ![Client] = "there"]
    BY <1>10 DEF PollReturn, Goto, ClientIs
  <2>2. work' = [work EXCEPT ![Client] = FALSE] /\ owed' = owed
    BY <1>0, <1>10 DEF PollReturn, Goto, Owed, TypeOK
  <2>3. QED
    BY <2>1, <2>2 DEF Bell!Next, Bell!Serve
<1>11. CASE PollIrqLock \/ PollYield
  BY <1>11 DEF PollIrqLock, PollYield, Goto, Owed, ClientIs
<1>12. CASE IrqEnter \/ IrqInvalid
  BY <1>12 DEF IrqEnter, IrqInvalid, Owed, ClientIs
<1>13. CASE IrqNotify
  \* The event stands beside the flag until it is acknowledged.
  BY <1>13 DEF IrqNotify, Owed, ClientIs, HandOver
<1>14. CASE IrqAck
  BY <1>14 DEF IrqAck, Owed, ClientIs, HandOver
<1>15. CASE UNCHANGED vars
  BY <1>15 DEF vars, Owed, ClientIs
<1>16. QED
  BY <1>1, <1>2, <1>3, <1>4, <1>5, <1>6, <1>7, <1>8, <1>9, <1>10, <1>11, <1>12, <1>13,
     <1>14, <1>15 DEF Next, AppStep, PollStep

(***************************************************************************)
(* The safety part of BellSpec: from the ring of the remote core to the    *)
(* client's answer nothing drops a notification, and an answer is one look *)
(* at the vrings.                                                          *)
(***************************************************************************)
THEOREM ImplementsDoorbell == Spec => Bell!SafeSpec
  BY BellInit, BellStep, HandOverInit, HandOverStep, PTL DEF Spec, Bell!SafeSpec

(***************************************************************************)
(* No notification is lost: once the remote core has rung, a buffer left   *)
(* in the vring has a ring standing for it on its way to the client.       *)
(***************************************************************************)
THEOREM NoNotificationLost == Spec => [](fresh /\ peer = "idle" => Stands)
<1> DEFINE Work == Bell!NoWorkWithoutRing
           Lost == ~(fresh /\ peer = "idle" => Stands)
<1>1. Bell!Init => Work
  BY DEF Bell!Init, Bell!NoWorkWithoutRing
<1>2. HandOver /\ Work /\ [Bell!Next]_Bell!vars => Work'
  BY DEF Bell!Next, Bell!Ring, Bell!Answer, Bell!Serve, Bell!Enter, Bell!Leave,
     Bell!vars, Bell!NoWorkWithoutRing, HandOver, TypeOK
<1>3. Work => ~Lost
  BY DEF Bell!NoWorkWithoutRing, Stands, ClientIs
<1>4. QED
  BY <1>1, <1>2, <1>3, HandOverCorrect, ImplementsDoorbell, PTL DEF Bell!SafeSpec
=============================================================================
