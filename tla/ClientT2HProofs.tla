--------------------------- MODULE ClientT2HProofs ---------------------------
(***************************************************************************)
(* The client of RZ/T2H as the composition of its parts: every behaviour   *)
(* of the whole is one of the echo test and one of the spinning client, so *)
(* their theorems hold of it; and what is open and registered is a         *)
(* function of where main is, for every choice of the calls that fail.     *)
(***************************************************************************)
EXTENDS ClientT2H, TLAPS

\* E and P with their theorems.
EP == INSTANCE EchoTestProofs WITH
        pc <- apc, ThreadLocal <- FALSE, Runs <- 1, force_stop <- ~TRUE
PP == INSTANCE SpinPollProofs WITH pc <- ppc, peer <- ring, fresh <- toHost # <<>>

Undone == faults \subseteq {"vdev"}
MemDev == Dev \ {"ipi"}

TypeLife ==
  /\ mpc \in {"create", "ipi", "irq", "memory", "map", "vdev", "app",
              "cleanup", "remove", "undo", "failed", "exit", "crash"}
  /\ k \in 1 .. Len(Memory) + 1
  /\ dev \in [Dev -> {"null", "open", "closed"}]
  /\ handler \in BOOLEAN /\ faults \subseteq Fail

\* Before the interrupt is enabled.
Fresh ==
  mpc \in {"create", "ipi", "irq"} =>
    /\ k = 1 /\ ~handler /\ \A d \in MemDev : dev[d] = "null"
    /\ dev["ipi"] = IF mpc = "irq" THEN "open" ELSE "null"

\* From then to the last clean-up the handler stands on an open device.
Registered ==
  mpc \in {"memory", "map", "vdev", "app", "cleanup", "remove"} =>
    handler /\ dev["ipi"] = "open"

Opening ==
  mpc = "memory" => \A m \in 1 .. Len(Memory) : dev[Memory[m]] = "null" <=> m >= k

Opened ==
  /\ mpc \in {"map", "vdev", "app", "cleanup"} => \A d \in MemDev : dev[d] # "null"
  /\ mpc = "app" => \A d \in MemDev \ {"rsc"} : dev[d] = "open"

\* A memory device is closed early only for want of an I/O region.
NoRegion ==
  "noio" \notin faults =>
    /\ dev["shm"] # "closed"
    /\ mpc \in {"memory", "map", "vdev", "app", "cleanup"} =>
         \A d \in MemDev : dev[d] # "closed"

Closed ==
  mpc = "remove" => dev["shm"] # "null" /\ \A d \in MemDev \ {"shm"} : dev[d] = "closed"

\* The test and platform_poll run in app only.
InApp == apc # "idle" \/ ppc \notin {"start", "end"} => mpc = "app"

Undoing == mpc \in {"undo", "failed"} => ~Undone

Left ==
  Undone =>
    /\ mpc = "crash" => ipc = "entry" /\ dev["shm"] = "null"
    /\ mpc = "exit" => ~handler /\ dev["shm"] # "closed" /\ \A d \in Dev \ {"shm"} : dev[d] = "closed"

LifeInv ==
  /\ TypeLife
  /\ Fresh /\ Registered /\ Opening /\ Opened /\ NoRegion /\ Closed
  /\ InApp /\ Undoing /\ Left

-----------------------------------------------------------------------------
\* The parameters are such as the echo test needs; a process runs it once.
LEMMA Parameters == EP!EchoAssumption /\ EP!OwnCounters
  BY SizeAssumption DEF EP!EchoAssumption, EP!OwnCounters

LEMMA EchoInit == Init => EP!Init
  BY DEF Init, E!Init, EP!Init

LEMMA SpinInit == Init => PP!Init
  BY DEF Init, E!Init, P!Init, PP!Init

\* Every step is one of the echo test or none of it.
LEMMA EchoStep == [Next]_vars => [EP!Next]_EP!vars
<1> SUFFICES ASSUME [Next]_vars PROVE EP!Next \/ UNCHANGED echo
  BY DEF EP!vars, echo
<1>1. CASE MainStep
  <2>1. CASE CreateVdev
    <3>1. E!Start => EP!Start
      BY DEF E!Start, E!Goto, EP!Start, EP!Goto
    <3>2. QED
      BY <2>1, <3>1 DEF CreateVdev, Outside, EP!Next
  <2>2. CASE ReleaseVdev
    BY <2>2 DEF ReleaseVdev
  <2>3. CASE Undo \/ CleanUpRemove
    BY <2>3 DEF Undo, CleanUpRemove, Remove, Outside
  <2>4. CASE CreateProc \/ OpenIpi \/ EnableInterrupt \/ OpenMemory \/ ProcReady \/ MapTable
    BY <2>4 DEF CreateProc, OpenIpi, EnableInterrupt, OpenMemory, ProcReady, MapTable, Outside
  <2>5. CASE InitFailed \/ CleanUp
    BY <2>5 DEF InitFailed, CleanUp, Outside
  <2>6. QED
    BY <1>1, <2>1, <2>2, <2>3, <2>4, <2>5 DEF MainStep
<1>2. CASE AppStep
  <2> USE DEF E!Goto, E!local, E!counters, E!peer, E!vrings,
              EP!Goto, EP!local, EP!counters, EP!peer, EP!vrings
  <2>1. CASE AppStarts
    <3>1. EP!PayloadInit \/ EP!CreateEpt
      BY <2>1 DEF AppStarts, E!PayloadInit, E!CreateEpt, EP!PayloadInit, EP!CreateEpt
    <3>2. QED
      BY <3>1 DEF EP!Next, EP!AppStep
  <2>2. CASE AppPolls \/ PollGoesOn \/ PollReturns
    <3>1. E!Polls => EP!Polls
      BY DEF E!Polls, EP!Polls
    <3>2. E!PollReturns => EP!PollReturns
      BY DEF E!PollReturns, EP!PollReturns
    <3>3. QED
      BY <2>2, <3>1, <3>2 DEF AppPolls, PollGoesOn, PollReturns, EP!Next, EP!AppStep
  <2>3. CASE AppSends
    <3>1. EP!Send
      BY <2>3 DEF AppSends, E!Send, EP!Send
    <3>2. QED
      BY <3>1 DEF EP!Next, EP!AppStep
  <2>4. CASE AppRuns
    <3>1. E!Bound => EP!Bound
      BY DEF E!Bound, EP!Bound
    <3>2. E!SendFails \/ E!AllSent => EP!SendFails \/ EP!AllSent
      BY DEF E!SendFails, E!AllSent, EP!SendFails, EP!AllSent
    <3>3. E!Echoed \/ E!NextPayload => EP!Echoed \/ EP!NextPayload
      BY DEF E!Echoed, E!NextPayload, EP!Echoed, EP!NextPayload
    <3>4. E!Report \/ E!Shutdown => EP!Report \/ EP!Shutdown
      BY DEF E!Report, E!Shutdown, EP!Report, EP!Shutdown
    <3>5. QED
      BY <2>4, <3>1, <3>2, <3>3, <3>4 DEF AppRuns, EP!Next, EP!AppStep
  <2>5. CASE PollReceives
    <3>1. EP!Receive
      BY <2>5 DEF PollReceives, E!Receive, E!Bind, E!Unbind, E!Cb0, E!Echo, E!Payload,
                  EP!Receive, EP!Bind, EP!Unbind, EP!Cb0, EP!Echo, EP!Payload
    <3>2. QED
      BY <3>1 DEF EP!Next, EP!AppStep
  <2>6. QED
    BY <1>2, <2>1, <2>2, <2>3, <2>4, <2>5 DEF AppStep
<1>3. CASE RemotePuts
  <2> USE DEF E!local, E!counters, E!peer, EP!local, EP!counters, EP!peer
  <2>1. E!Announce \/ E!Leave => EP!Announce \/ EP!Leave
    BY DEF E!Announce, E!Leave, EP!Announce, EP!Leave
  <2>2. E!RemoteEcho => EP!RemoteEcho
    BY DEF E!RemoteEcho, E!Echo, E!Payload, EP!RemoteEcho, EP!Echo, EP!Payload
  <2>3. QED
    BY <1>3, <2>1, <2>2 DEF RemotePuts, EP!Next
<1>4. CASE PollLocks \/ HandlerEnters \/ HandlerRuns \/ HandlerCrashes \/ Rings \/ Strays
  BY <1>4 DEF PollLocks, HandlerEnters, HandlerRuns, HandlerCrashes, Rings, Strays
<1>5. CASE UNCHANGED vars
  BY <1>5 DEF vars
<1>6. QED
  BY <1>1, <1>2, <1>3, <1>4, <1>5 DEF Next

\* Every step is one of the spinning client or none of it: the callback that
\* takes the last message leaves the vrings empty.
LEMMA SpinStep == [Next]_vars => [PP!Next]_PP!vars
<1> SUFFICES ASSUME [Next]_vars PROVE PP!Next \/ UNCHANGED <<toHost # <<>>, spin>>
  BY DEF PP!vars, spin
<1> USE DEF P!Goto, PP!Goto
<1>1. CASE MainStep
  <2>1. CASE CreateVdev
    <3>1. P!EnterApp => PP!EnterApp
      BY DEF P!EnterApp, PP!EnterApp
    <3>2. QED
      BY <2>1, <3>1 DEF CreateVdev, Outside, echo, PP!Next, PP!AppStep
  <2>2. CASE ReleaseVdev
    <3>1. PP!LeaveApp
      BY <2>2 DEF ReleaseVdev, P!LeaveApp, PP!LeaveApp
    <3>2. QED
      BY <3>1 DEF PP!Next, PP!AppStep
  <2>3. CASE Undo \/ CleanUpRemove
    BY <2>3 DEF Undo, CleanUpRemove, Remove, Outside, echo
  <2>4. CASE CreateProc \/ OpenIpi \/ EnableInterrupt \/ OpenMemory \/ ProcReady \/ MapTable
    BY <2>4 DEF CreateProc, OpenIpi, EnableInterrupt, OpenMemory, ProcReady, MapTable,
                Outside, echo
  <2>5. CASE InitFailed \/ CleanUp
    BY <2>5 DEF InitFailed, CleanUp, Outside, echo
  <2>6. QED
    BY <1>1, <2>1, <2>2, <2>3, <2>4, <2>5 DEF MainStep
<1>2. CASE AppStep
  <2> USE DEF E!local, E!counters, E!peer, E!vrings
  <2>1. CASE AppStarts
    BY <2>1 DEF AppStarts, E!PayloadInit, E!CreateEpt
  <2>2. CASE AppPolls \/ AppSends
    <3>1. PP!EnterPoll
      BY <2>2 DEF AppPolls, AppSends, P!EnterPoll, PP!EnterPoll
    <3>2. QED
      BY <3>1 DEF PP!Next, PP!AppStep
  <2>3. CASE AppRuns
    BY <2>3 DEF AppRuns, E!Bound, E!SendFails, E!AllSent, E!Echoed, E!NextPayload,
                E!Report, E!Shutdown
  <2>4. CASE PollReceives
    <3>1. toHost # <<>> /\ ppc = "serve" /\ UNCHANGED spin
      BY <2>4 DEF PollReceives, E!Receive
    <3>2. CASE toHost' = <<>>
      <4>1. PP!PollServe
        BY <3>1, <3>2 DEF PP!PollServe, spin
      <4>2. QED
        BY <4>1 DEF PP!Next, PP!PollStep
    <3>3. QED
      BY <3>1, <3>2
  <2>5. CASE PollGoesOn \/ PollReturns
    <3>1. PP!PollTest \/ PP!PollReturn \/ PP!PollYield
      BY <2>5 DEF PollGoesOn, PollReturns, P!PollTest, P!PollReturn, P!PollYield,
                  PP!PollTest, PP!PollReturn, PP!PollYield
    <3>2. QED
      BY <3>1 DEF PP!Next, PP!PollStep
  <2>6. QED
    BY <1>2, <2>1, <2>2, <2>3, <2>4, <2>5 DEF AppStep
<1>3. CASE PollLocks
  <2>1. PP!PollIrqLock
    BY <1>3 DEF PollLocks, P!PollIrqLock, PP!PollIrqLock
  <2>2. QED
    BY <2>1 DEF PP!Next, PP!PollStep
<1>4. CASE HandlerEnters
  BY <1>4 DEF HandlerEnters, P!IrqEnter, PP!IrqEnter, PP!Next
<1>5. CASE HandlerRuns
  BY <1>5 DEF HandlerRuns, P!IrqInvalid, P!IrqNotify, P!IrqAck,
              PP!IrqInvalid, PP!IrqNotify, PP!IrqAck, PP!Next
<1>6. CASE HandlerCrashes
  BY <1>6 DEF HandlerCrashes, echo
<1>7. CASE RemotePuts
  <2>1. (toHost' = toHost /\ UNCHANGED spin) \/ PP!Put
    BY <1>7 DEF RemotePuts, P!Put, PP!Put
  <2>2. QED
    BY <2>1 DEF PP!Next
<1>8. CASE Rings \/ Strays
  BY <1>8 DEF Rings, Strays, P!Ring, P!UioEvent, P!StrayRing,
              PP!Ring, PP!UioEvent, PP!StrayRing, PP!Next
<1>9. CASE UNCHANGED vars
  BY <1>9 DEF vars, echo
<1>10. QED
  BY <1>1, <1>2, <1>3, <1>4, <1>5, <1>6, <1>7, <1>8, <1>9 DEF Next
-----------------------------------------------------------------------------
\* The order in which the memory devices are opened.
LEMMA Devices ==
  /\ Len(Memory) = 4
  /\ Memory[1] = "rsc" /\ Memory[2] = "ctl" /\ Memory[3] = "vshm" /\ Memory[4] = "shm"
  /\ MemDev = {Memory[m] : m \in 1 .. Len(Memory)}
  /\ MemDev = {"rsc", "ctl", "vshm", "shm"} /\ Dev = {"ipi"} \cup MemDev
<1>1. Len(Memory) = 4
  BY DEF Memory
<1>2. Memory[1] = "rsc" /\ Memory[2] = "ctl" /\ Memory[3] = "vshm" /\ Memory[4] = "shm"
  BY DEF Memory
<1>3. MemDev = {"rsc", "ctl", "vshm", "shm"} /\ Dev = {"ipi"} \cup MemDev
  BY DEF MemDev, Dev
<1>4. QED
  BY <1>1, <1>2, <1>3

LEMMA LifeInit == Init => LifeInv
<1> SUFFICES ASSUME Init PROVE LifeInv
  OBVIOUS
<1> USE DEF Init
<1>1. apc = "idle" /\ ppc = "start"
  BY DEF E!Init, P!Init
<1>2. TypeLife
  <2>1. k \in 1 .. Len(Memory) + 1
    BY Devices
  <2>2. dev \in [Dev -> {"null", "open", "closed"}]
    OBVIOUS
  <2>3. handler \in BOOLEAN /\ faults \subseteq Fail
    OBVIOUS
  <2>4. QED
    BY <2>1, <2>2, <2>3 DEF TypeLife
<1>3. Fresh
  BY Devices DEF Fresh
<1>4. NoRegion
  BY Devices DEF NoRegion
<1>5. Registered /\ Opening /\ Opened /\ Closed /\ InApp /\ Undoing /\ Left
  BY <1>1 DEF Registered, Opening, Opened, Closed, InApp, Undoing, Left
<1>6. QED
  BY <1>2, <1>3, <1>4, <1>5 DEF LifeInv

\* main's steps.
LEMMA MainKeeps == LifeInv /\ MainStep => LifeInv'
<1> SUFFICES ASSUME LifeInv, MainStep PROVE LifeInv'
  OBVIOUS
<1> USE Devices DEF LifeInv, TypeLife, Fresh, Registered, Opening, Opened, NoRegion, Closed,
        InApp, Undoing, Left, Undone, Goto, Works, Fails, Is, Outside, echo, spin
<1>1. CASE CreateProc
  BY <1>1 DEF CreateProc
<1>2. CASE OpenIpi
  BY <1>2 DEF OpenIpi
<1>3. CASE EnableInterrupt
  <2>1. CASE mpc' = "memory" /\ handler' = TRUE
    <3>1. UNCHANGED <<k, dev, faults>> /\ mpc = "irq" /\ Outside
      BY <1>3, <2>1 DEF EnableInterrupt
    <3>2. TypeLife'
      BY <2>1, <3>1
    <3>3. Opening'
      BY <2>1, <3>1
    <3>4. QED
      BY <2>1, <3>1, <3>2, <3>3
  <2>2. CASE mpc' = "undo" /\ handler' = handler
    BY <1>3, <2>2 DEF EnableInterrupt
  <2>3. QED
    BY <1>3, <2>1, <2>2 DEF EnableInterrupt
<1>4. CASE OpenMemory
  BY <1>4 DEF OpenMemory
<1>5. CASE ProcReady
  BY <1>5 DEF ProcReady
<1>6. CASE MapTable
  BY <1>6 DEF MapTable
<1>7. CASE Undo
  BY <1>7 DEF Undo, Remove
<1>8. CASE InitFailed
  BY <1>8 DEF InitFailed
<1>9. CASE CreateVdev
  BY <1>9 DEF CreateVdev, CanNotify
<1>10. CASE ReleaseVdev
  BY <1>10 DEF ReleaseVdev, P!LeaveApp, P!Goto
<1>11. CASE CleanUp
  BY <1>11 DEF CleanUp
<1>12. CASE CleanUpRemove
  <2>1. /\ mpc = "remove" /\ mpc' = "exit" /\ handler' = FALSE /\ Is("ipi", "closed")
        /\ UNCHANGED <<k, faults>> /\ Outside
    BY <1>12 DEF CleanUpRemove, Remove
  <2>2. TypeLife'
    BY <2>1
  <2>3. \A d \in Dev \ {"shm"} : dev'[d] = "closed"
    BY <2>1
  <2>4. dev'["shm"] = dev["shm"]
    BY <2>1
  <2>5. NoRegion'
    BY <2>1, <2>4
  <2>6. Left'
    <3>1. Undone => "noio" \notin faults
      OBVIOUS
    <3>2. QED
      BY <2>1, <2>3, <2>4, <3>1
  <2>7. QED
    BY <2>1, <2>2, <2>5, <2>6
<1>13. QED
  BY <1>1, <1>2, <1>3, <1>4, <1>5, <1>6, <1>7, <1>8, <1>9, <1>10, <1>11, <1>12 DEF MainStep

\* The other steps leave main where it is, but for the handler that crashes.
LEMMA OthersKeep ==
  ASSUME LifeInv,
         \/ AppStep \/ PollLocks \/ HandlerEnters \/ HandlerRuns \/ HandlerCrashes
         \/ RemotePuts \/ Rings \/ Strays
  PROVE  LifeInv'
<1> USE DEF P!Goto, E!Goto
<1>1. CASE HandlerCrashes
  <2> USE <1>1 DEF HandlerCrashes, LifeInv, echo, spin
  <2>1. dev["shm"] \in {"null", "open", "closed"}
    BY Devices DEF TypeLife
  <2>2. Left'
    BY <2>1 DEF Left, NoRegion, Undone
  <2>3. mpc # "app"
    BY Devices DEF Opened
  <2>4. TypeLife' /\ NoRegion' /\ InApp'
    BY <2>3 DEF TypeLife, NoRegion, InApp
  <2>5. QED
    BY <2>2, <2>4 DEF Fresh, Registered, Opening, Opened, Closed, Undoing
<1>2. CASE ~HandlerCrashes
  <2>1. /\ UNCHANGED life
        /\ apc' # "idle" => apc # "idle"
        /\ ppc' \notin {"start", "end"} => ppc \notin {"start", "end"}
        /\ mpc = "crash" => ipc' = ipc
    <3>1. CASE AppStarts \/ AppRuns
      BY <3>1 DEF AppStarts, AppRuns, E!PayloadInit, E!CreateEpt, E!Bound, E!SendFails,
                  E!AllSent, E!Echoed, E!NextPayload, E!Report, E!Shutdown, spin
    <3>2. CASE AppPolls \/ AppSends
      BY <3>2 DEF AppPolls, AppSends, P!EnterPoll, E!Polls, E!Send
    <3>3. CASE PollReceives
      BY <3>3 DEF PollReceives, E!Receive, spin
    <3>4. CASE PollLocks \/ PollGoesOn \/ PollReturns
      BY <3>4 DEF PollLocks, PollGoesOn, PollReturns, E!PollReturns, P!PollIrqLock,
                  P!PollTest, P!PollReturn, P!PollYield, echo
    <3>5. CASE HandlerEnters \/ HandlerRuns
      BY <3>5 DEF HandlerEnters, HandlerRuns, Alive, P!IrqEnter, P!IrqInvalid, P!IrqNotify,
                  P!IrqAck, echo
    <3>6. CASE RemotePuts
      BY <3>6 DEF RemotePuts, P!Put, E!Announce, E!Leave, E!RemoteEcho, spin
    <3>7. CASE Rings \/ Strays
      BY <3>7 DEF Rings, Strays, P!Ring, P!UioEvent, P!StrayRing, echo
    <3>8. QED
      BY <1>2, <3>1, <3>2, <3>3, <3>4, <3>5, <3>6, <3>7 DEF AppStep
  <2>2. InApp' /\ Left'
    BY <2>1 DEF LifeInv, InApp, Left, Undone, life
  <2>3. QED
    BY <2>1, <2>2 DEF LifeInv, life, TypeLife, Fresh, Registered, Opening, Opened,
                      NoRegion, Closed, Undoing, Undone
<1>3. QED
  BY <1>1, <1>2

LEMMA LifeStep == LifeInv /\ [Next]_vars => LifeInv'
<1> SUFFICES ASSUME LifeInv, [Next]_vars PROVE LifeInv'
  OBVIOUS
<1>1. CASE UNCHANGED vars
  BY <1>1 DEF vars, life, echo, spin, LifeInv, TypeLife, Fresh, Registered, Opening,
              Opened, NoRegion, Closed, InApp, Undoing, Left, Undone
<1>2. QED
  BY <1>1, MainKeeps, OthersKeep DEF Next

-----------------------------------------------------------------------------
(***************************************************************************)
(* Every behaviour of the client, whatever main does before and after the  *)
(* test and whichever calls fail, is one of the echo test: platform_poll,  *)
(* the handler and the clean-up touch none of its state.                   *)
(***************************************************************************)
THEOREM ImplementsEcho == Spec => EP!Spec
  BY EchoInit, EchoStep, PTL DEF Spec, EP!Spec

(***************************************************************************)
(* And one of the spinning client: the messages of the vring are its       *)
(* buffers, and app polls as its thread may.                               *)
(***************************************************************************)
THEOREM ImplementsSpin == Spec => PP!Spec
  BY SpinInit, SpinStep, PTL DEF Spec, PP!Spec

(***************************************************************************)
(* What the parts keep, the whole keeps: types, irq_lock and the flag as   *)
(* handed over between handler and client, at most one payload under way   *)
(* and the awaited one among it, and a report that is true.                *)
(***************************************************************************)
THEOREM PartsCorrect ==
  Spec => [](/\ EP!TypeOK /\ EP!OneUnderWay /\ EP!ReportIsTrue /\ EP!AwaitedUnderWay
             /\ PP!HandOver)
<1>1. EP!Spec => []EP!TypeOK
  BY Parameters, EP!TypeCorrect
<1>2. EP!Spec => []EP!OneUnderWay
  BY Parameters, EP!OneUnderWayCorrect
<1>3. EP!Spec => []EP!ReportIsTrue
  BY Parameters, EP!ReportCorrect
<1>4. EP!Spec => []EP!AwaitedUnderWay
  BY Parameters, EP!AwaitedCorrect
<1>5. PP!Spec => []PP!HandOver
  BY PP!HandOverCorrect
<1>6. QED
  BY <1>1, <1>2, <1>3, <1>4, <1>5, ImplementsEcho, ImplementsSpin, PTL

(***************************************************************************)
(* The interrupt path of the whole client is a doorbell: from the ring of  *)
(* the remote core to the call of platform_poll that answers it nothing    *)
(* drops a notification, and that call looks at the vrings once for it.    *)
(***************************************************************************)
THEOREM ImplementsDoorbell == Spec => PP!Bell!SafeSpec
<1>1. PP!Spec => PP!Bell!SafeSpec
  BY PP!ImplementsDoorbell
<1>2. QED
  BY <1>1, ImplementsSpin, PTL

(***************************************************************************)
(* Whatever fails on the way, a message of the remote core that has rung   *)
(* is not forgotten between the interrupt and the poll that serves it.     *)
(***************************************************************************)
THEOREM NoMessageForgotten ==
  Spec => [](toHost # <<>> /\ ring = "idle" => PP!Stands)
<1>1. PP!Spec => [](toHost # <<>> /\ ring = "idle" => PP!Stands)
  BY PP!NoNotificationLost
<1>2. QED
  BY <1>1, ImplementsSpin, PTL

(***************************************************************************)
(* The test runs on open devices and with its handler registered.          *)
(***************************************************************************)
THEOREM RunsCorrect == Spec => []RunsWithDevices
<1>1. LifeInv => RunsWithDevices
  BY Devices DEF LifeInv, InApp, Registered, Opened, RunsWithDevices
<1>2. QED
  BY LifeInit, LifeStep, <1>1, PTL DEF Spec

(***************************************************************************)
(* main releases what it holds, for every choice of the calls that fail    *)
(* among those that are undone; the handler without its memory is the only *)
(* crash left.                                                             *)
(***************************************************************************)
THEOREM ReleaseCorrect == Spec => []ReleasedAtExit
<1>1. EP!TypeOK => E!TypeOK
  BY DEF EP!TypeOK, EP!Payload, EP!Echo, EP!NameService,
         E!TypeOK, E!Payload, E!Echo, E!NameService
<1>2. PP!HandOver => P!TypeOK
  BY DEF PP!HandOver, PP!TypeOK, P!TypeOK
<1>3. LifeInv /\ EP!TypeOK /\ PP!HandOver => ReleasedAtExit
  <2> SUFFICES ASSUME LifeInv, EP!TypeOK, PP!HandOver PROVE ReleasedAtExit
    OBVIOUS
  <2>1. TypeOK
    BY <1>1, <1>2 DEF LifeInv, TypeLife, TypeOK
  <2>2. QED
    BY <2>1, Devices DEF LifeInv, Left, Undone, ReleasedAtExit
<1>4. QED
  BY LifeInit, LifeStep, PartsCorrect, <1>3, PTL DEF Spec
=============================================================================
