--------------------------- MODULE ClientG2LProofs ---------------------------
(***************************************************************************)
(* The client of RZ/G2L: the hand-over of irq_lock, event and flag between *)
(* handler and thread, on which the doorbell rests, and what is open,      *)
(* registered and counted as a function of where main is, for every choice *)
(* of what fails and any number of runs of the test.                       *)
(***************************************************************************)
EXTENDS ClientG2L, TLAPS

\* E with its theorems.
EP == INSTANCE EchoTestProofs WITH pc <- apc, ThreadLocal <- FALSE

\* irq_lock separates the handler from the test of the flag; the handler holds its
\* event, and its notification stays in the flag, until it acknowledges.
HandOver ==
  /\ irqLock = "irq" <=> ipc # "poll"
  /\ irqLock = "client" <=> ppc = "test"
  /\ ipc # "poll" => event
  /\ ipc \in {"mutex_lock", "signal", "ack"} => ~sync

TypeWake ==
  /\ sighandled \in BOOLEAN
  /\ hpc \in {"none", "mutex_lock", "signal", "done"}
  /\ ring \in {"idle", "ring"}
  /\ line \in BOOLEAN /\ msgValid \in BOOLEAN /\ event \in BOOLEAN /\ sync \in BOOLEAN
  /\ irqLock \in {"free", "client", "irq"}
  /\ mutex \in {"free", "client", "irq", "stop"}
  /\ ppc \in {"out", "check", "irq_lock", "test", "serve", "mutex_lock", "locked",
              "waiting", "woken", "unlock"}
  /\ ipc \in {"poll", "entry", "read", "mutex_lock", "signal", "ack"}

\* platform_poll is called from the two loops of app.
InPoll == ppc # "out" <=> apc \in {"bind_poll", "poll"}

WakeInv == TypeWake /\ HandOver /\ InPoll /\ NoLostRing

-----------------------------------------------------------------------------
AllAre(S, s) == \A d \in S : dev[d] = s
Undoable == faults \subseteq {"map", "vdev"}

TypeLife ==
  /\ mpc \in {"create", "ipi", "irq", "vrinfo", "memory", "add", "map", "undo",
              "undo_irq", "menu", "join", "cleanup", "cleanup_irq", "exit", "crash"}
  /\ k \in Ids /\ registered \in 0 .. 2
  /\ dev \in [Dev -> {"null", "open", "closed"}]
  /\ handler \in BOOLEAN
  /\ vr_info \in [Ids -> BOOLEAN] /\ platform \in [Ids -> BOOLEAN]
  /\ thread \in {"none", "start", "app"}
  /\ faults \subseteq Fail

\* Before the handler is registered.
Fresh ==
  mpc = "ipi" \/ (mpc \in {"create", "irq"} /\ k = 0) =>
    /\ k = 0 /\ ~handler /\ registered = 0
    /\ AllAre(Memory, "null")
    /\ dev["ipi"] = IF mpc = "irq" THEN "open" ELSE "null"
    /\ \A j \in Ids : ~vr_info[j] /\ ~platform[j]

\* While the instances are made: what has passed add_memory_device is open.
Building ==
  mpc \in {"vrinfo", "memory", "add", "map"} \/ (mpc \in {"create", "irq"} /\ k = 1) =>
    /\ handler /\ dev["ipi"] = "open"
    /\ registered = IF mpc \in {"create", "irq"} THEN k ELSE k + 1
    /\ \A j \in Ids :
         /\ platform[j] <=> j < k
         /\ vr_info[j] <=> j < k \/ (j = k /\ mpc \in {"memory", "add", "map"})
    /\ mpc = "memory" => k = 0
    /\ mpc \in {"vrinfo", "memory"} /\ k = 0 => AllAre(Memory, "null")
    /\ mpc = "map" \/ k = 1 => AllAre(Memory, "open")
    /\ mpc = "add" /\ "noio" \notin faults => AllAre(Memory, "open")

\* From the menu to the clean-up of the first instance.
Standing ==
  mpc \in {"menu", "join"} \/ (mpc = "cleanup" /\ k = 0) =>
    /\ handler /\ registered = 2 /\ AllAre(Dev, "open")
    /\ \A j \in Ids : platform[j] /\ vr_info[j]

\* The first instance is gone, its devices and memory information are not.
Counting ==
  mpc = "cleanup" /\ k = 1 =>
    /\ handler /\ registered = 1 /\ AllAre(Dev, "open")
    /\ \A j \in Ids : vr_info[j]
    /\ ~platform[0]

Closing ==
  mpc = "cleanup_irq" =>
    /\ k = 1 /\ handler /\ dev["ipi"] = "open" /\ AllAre(Memory, "null")
    /\ ~vr_info[1] /\ \A j \in Ids : j # k => ~platform[j]

Undoing ==
  mpc \in {"undo", "undo_irq"} /\ Undoable =>
    /\ k = 0 /\ handler /\ registered = 1 /\ dev["ipi"] = "open"
    /\ AllAre(Memory, IF mpc = "undo" THEN "open" ELSE "null")
    /\ vr_info[0] <=> mpc = "undo"
    /\ ~vr_info[1] /\ \A j \in Ids : ~platform[j]

\* The handler runs on its open device.
Taken == Undoable /\ Alive /\ ipc # "poll" => handler /\ dev["ipi"] = "open"

Left ==
  Undoable =>
    /\ mpc = "crash" => ipc = "read" /\ dev["shm"] = "null"
    /\ mpc = "exit" =>
         /\ ~handler /\ dev["ipi"] = "closed" /\ AllAre(Memory, "null")
         /\ ~vr_info[1] /\ \A j \in Ids : ~platform[j]

Threads == thread # "none" => mpc \in {"join", "crash"}

LifeInv ==
  /\ TypeLife
  /\ Fresh /\ Building /\ Standing /\ Counting /\ Closing /\ Undoing
  /\ Taken /\ Left /\ Threads

\* app runs on the communication thread.
OnThread == apc # "idle" => thread = "app"

IInv == EP!TInv /\ WakeInv /\ LifeInv /\ OnThread
-----------------------------------------------------------------------------
LEMMA Parameters == EP!EchoAssumption
  BY SizeAssumption DEF EP!EchoAssumption

LEMMA EchoInit == Init => EP!Init
  BY DEF Init, E!Init, EP!Init

\* main's steps but for the start of a run.
Aside ==
  \/ CreateProc \/ OpenIpi \/ EnableInterrupt \/ CreateVrinfo \/ OpenMemory
  \/ AddMemory \/ MapTable \/ Undo \/ CleanUp \/ LeaveMenu \/ Launch \/ Join
  \/ ReleaseVdev

LEMMA AsideOutside == Aside => Outside
  BY DEF Aside, CreateProc, OpenIpi, EnableInterrupt, CreateVrinfo, OpenMemory,
         AddMemory, MapTable, Undo, CleanUp, LeaveMenu, Launch, Join, ReleaseVdev

\* Every step is one of the echo test or none of it.
LEMMA EchoStep == [Next]_vars => [EP!Next]_EP!vars
<1> SUFFICES ASSUME [Next]_vars PROVE EP!Next \/ UNCHANGED echo
  BY DEF EP!vars, echo
<1> USE DEF E!Goto, E!local, E!counters, E!peer, E!vrings,
            EP!Goto, EP!local, EP!counters, EP!peer, EP!vrings
<1>1. CASE MainStep
  <2>1. CASE CreateVdev
    <3>1. E!Start => EP!Start
      BY DEF E!Start, EP!Start
    <3>2. QED
      BY <2>1, <3>1 DEF CreateVdev, EP!Next
  <2>2. CASE Aside
    BY <2>2, AsideOutside DEF Outside
  <2>3. QED
    BY <1>1, <2>1, <2>2 DEF MainStep, Aside
<1>2. CASE AppStep
  <2>1. CASE AppStarts
    <3>1. EP!PayloadInit \/ EP!CreateEpt
      BY <2>1 DEF AppStarts, E!PayloadInit, E!CreateEpt, EP!PayloadInit, EP!CreateEpt
    <3>2. QED
      BY <3>1 DEF EP!Next, EP!AppStep
  <2>2. CASE AppPolls
    <3>1. EP!Polls
      BY <2>2 DEF AppPolls, E!Polls, EP!Polls
    <3>2. QED
      BY <3>1 DEF EP!Next, EP!AppStep
  <2>3. CASE AppSends
    <3>1. EP!Send
      BY <2>3 DEF AppSends, E!Send, EP!Send
    <3>2. QED
      BY <3>1 DEF EP!Next, EP!AppStep
  <2>4. CASE AppRuns
    <3>1. E!Bound => EP!Bound
      BY DEF E!Bound, EP!Bound
    <3>2. E!SendFails \/ E!AllSent => EP!SendFails \/ EP!AllSent
      BY DEF E!SendFails, E!AllSent, EP!SendFails, EP!AllSent
    <3>3. E!Echoed \/ E!NextPayload => EP!Echoed \/ EP!NextPayload
      BY DEF E!Echoed, E!NextPayload, EP!Echoed, EP!NextPayload
    <3>4. E!Report \/ E!Shutdown => EP!Report \/ EP!Shutdown
      BY DEF E!Report, E!Shutdown, EP!Report, EP!Shutdown
    <3>5. QED
      BY <2>4, <3>1, <3>2, <3>3, <3>4 DEF AppRuns, EP!Next, EP!AppStep
  <2>5. QED
    BY <1>2, <2>1, <2>2, <2>3, <2>4 DEF AppStep
<1>3. CASE PollStep
  <2>1. E!PollReturns => EP!PollReturns
    BY DEF E!PollReturns, EP!PollReturns
  <2>2. CASE PollServe
    <3>1. E!Receive => EP!Receive
      BY DEF E!Receive, E!Bind, E!Unbind, E!Cb0, E!Echo, E!Payload,
             EP!Receive, EP!Bind, EP!Unbind, EP!Cb0, EP!Echo, EP!Payload
    <3>2. QED
      BY <2>1, <2>2, <3>1 DEF PollServe, EP!Next, EP!AppStep
  <2>3. CASE PollCheck
    BY <2>1, <2>3 DEF PollCheck, EP!Next, EP!AppStep
  <2>4. CASE PollIrqLock \/ PollTest \/ PollSleep
    BY <2>4 DEF PollIrqLock, PollTest, PollSleep
  <2>5. QED
    BY <1>3, <2>2, <2>3, <2>4 DEF PollStep
<1>4. CASE IrqStep
  BY <1>4 DEF IrqStep, IrqEnter, IrqClear, IrqRead, IrqCrash, IrqSignal, IrqAck, Outside
<1>5. CASE StopHandler
  <2>1. E!Stop => EP!Stop
    BY DEF E!Stop, EP!Stop
  <2>2. QED
    BY <1>5, <2>1 DEF StopHandler, EP!Next
<1>6. CASE RemotePuts
  <2>1. E!Announce \/ E!Leave => EP!Announce \/ EP!Leave
    BY DEF E!Announce, E!Leave, EP!Announce, EP!Leave
  <2>2. E!RemoteEcho => EP!RemoteEcho
    BY DEF E!RemoteEcho, E!Echo, E!Payload, EP!RemoteEcho, EP!Echo, EP!Payload
  <2>3. QED
    BY <1>6, <2>1, <2>2 DEF RemotePuts, EP!Next
<1>7. CASE Rings \/ UioEvent
  BY <1>7 DEF Rings, UioEvent
<1>8. CASE UNCHANGED vars
  BY <1>8 DEF vars
<1>9. QED
  BY <1>1, <1>2, <1>3, <1>4, <1>5, <1>6, <1>7, <1>8 DEF Next

-----------------------------------------------------------------------------
\* The wake-up path.
LEMMA WakeInit == Init => WakeInv
  BY DEF Init, E!Init, WakeInv, TypeWake, HandOver, InPoll, NoLostRing

LEMMA WakeStep == WakeInv /\ [Next]_vars => WakeInv'
<1> SUFFICES ASSUME WakeInv, [Next]_vars PROVE WakeInv'
  OBVIOUS
<1> USE DEF WakeInv, TypeWake, HandOver, InPoll, NoLostRing, Owed, Stands, peer, lock, stop,
           E!Goto
<1>1. CASE MainStep
  <2>1. CASE CreateVdev
    <3>1. /\ toHost' \in {toHost, <<>>}
          /\ (apc = "idle" /\ apc' = "init") \/ apc' = apc
      BY <2>1 DEF CreateVdev, E!Start, echo
    <3>2. QED
      BY <2>1, <3>1 DEF CreateVdev
  <2>2. CASE Aside
    BY <2>2, AsideOutside DEF Outside, echo
  <2>3. QED
    BY <1>1, <2>1, <2>2 DEF MainStep, Aside
<1>2. CASE AppStep
  <2> USE DEF E!local, E!counters, E!peer, E!vrings
  <2>1. CASE AppStarts
    <3>1. /\ UNCHANGED <<toHost, hpc, peer, lock, ppc, ipc>> /\ ppc = "out"
          /\ apc' \in {"ept", "bind", "idle"}
      BY <2>1 DEF AppStarts, E!PayloadInit, E!CreateEpt
    <3>2. sighandled' \in BOOLEAN
      BY <2>1 DEF AppStarts
    <3>3. QED
      BY <3>1, <3>2
  <2>2. CASE AppPolls
    BY <2>2 DEF AppPolls, E!Polls
  <2>3. CASE AppSends
    BY <2>3 DEF AppSends, E!Send
  <2>4. CASE AppRuns
    BY <2>4 DEF AppRuns, E!Bound, E!SendFails, E!AllSent, E!Echoed, E!NextPayload,
                E!Report, E!Shutdown
  <2>5. QED
    BY <1>2, <2>1, <2>2, <2>3, <2>4 DEF AppStep
<1>3. CASE PollStep
  <2> USE DEF PollGoto, echo
  <2>0. E!PollReturns => apc' \in {"bind", "polled"} /\ toHost' = toHost
    BY DEF E!PollReturns, E!vrings
  <2>1. CASE PollCheck
    BY <2>0, <2>1 DEF PollCheck
  <2>2. CASE PollIrqLock
    BY <2>2 DEF PollIrqLock
  <2>3. CASE PollTest
    BY <2>3 DEF PollTest
  <2>4. CASE PollServe
    <3>1. /\ ppc = "serve" /\ UNCHANGED <<stop, peer, lock, ipc>>
          /\ \/ ppc' = "serve" /\ apc' = apc
             \/ ppc' = "out" /\ apc' \in {"bind", "polled"} /\ toHost' = <<>>
      <4>1. E!Receive => apc' = apc
        BY DEF E!Receive
      <4>2. QED
        BY <2>0, <2>4, <4>1 DEF PollServe
    <3>2. QED
      BY <3>1
  <2>5. CASE PollSleep
    BY <2>5 DEF PollSleep
  <2>6. QED
    BY <1>3, <2>1, <2>2, <2>3, <2>4, <2>5 DEF PollStep
<1>4. CASE IrqStep
  <2> USE DEF IrqGoto, echo
  <2>1. CASE IrqEnter
    BY <2>1 DEF IrqEnter
  <2>2. CASE IrqClear
    BY <2>2 DEF IrqClear
  <2>3. CASE IrqRead
    <3>1. CASE ipc' = "mutex_lock"
      BY <2>3, <3>1 DEF IrqRead
    <3>2. CASE ipc' = "poll"
      BY <2>3, <3>2 DEF IrqRead
    <3>3. QED
      BY <2>3, <3>1, <3>2 DEF IrqRead
  <2>4. CASE IrqCrash
    BY <2>4 DEF IrqCrash, Outside
  <2>5. CASE IrqSignal
    BY <2>5 DEF IrqSignal, Signalled
  <2>6. CASE IrqAck
    BY <2>6 DEF IrqAck
  <2>7. QED
    BY <1>4, <2>1, <2>2, <2>3, <2>4, <2>5, <2>6 DEF IrqStep
<1>5. CASE StopHandler
  BY <1>5 DEF StopHandler, E!Stop, E!peer, E!vrings, Signalled, echo
<1>6. CASE RemotePuts
  <2>1. /\ UNCHANGED <<apc, stop, line, msgValid, event, lock, ppc, ipc>>
        /\ ring = "idle" /\ ring' \in {"idle", "ring"} /\ (ring' = "idle" => toHost' = toHost)
    BY <1>6 DEF RemotePuts, E!Announce, E!Leave, E!RemoteEcho
  <2>2. QED
    BY <2>1
<1>7. CASE Rings
  <2>1. /\ line' = TRUE /\ ring' = "idle" /\ msgValid' \in BOOLEAN
        /\ UNCHANGED <<main, stop, echo, event, lock, ppc, ipc>>
    BY <1>7 DEF Rings
  <2>2. QED
    BY <2>1 DEF echo
<1>8. CASE UioEvent
  BY <1>8 DEF UioEvent, echo
<1>9. CASE UNCHANGED vars
  BY <1>9 DEF vars, echo
<1>10. QED
  BY <1>1, <1>2, <1>3, <1>4, <1>5, <1>6, <1>7, <1>8, <1>9 DEF Next

\* The mutex goes from hand to hand in PollSleep, IrqSignal and StopHandler only.
LEMMA MutexStep == WakeInv /\ MutexOwner /\ [Next]_vars => MutexOwner'
<1> SUFFICES ASSUME WakeInv, MutexOwner, [Next]_vars PROVE MutexOwner'
  OBVIOUS
<1> USE DEF WakeInv, TypeWake, HandOver, MutexOwner, lock, stop
<1>1. CASE UNCHANGED <<hpc, mutex, irqLock, ppc, ipc>>
  BY <1>1
<1>2. CASE AppPolls \/ AppSends
  <2>1. ppc = "out" /\ ppc' = "check" /\ UNCHANGED <<hpc, lock, ipc>>
    BY <1>2 DEF AppPolls, AppSends, E!Polls, E!Send, InPoll, E!Goto
  <2>2. QED
    BY <2>1
<1>3. CASE PollStep
  <2> USE DEF PollGoto
  <2>1. CASE PollCheck
    BY <2>1 DEF PollCheck
  <2>2. CASE PollIrqLock
    BY <2>2 DEF PollIrqLock
  <2>3. CASE PollTest
    BY <2>3 DEF PollTest
  <2>4. CASE PollServe
    BY <2>4 DEF PollServe
  <2>5. CASE PollSleep
    BY <2>5 DEF PollSleep
  <2>6. QED
    BY <1>3, <2>1, <2>2, <2>3, <2>4, <2>5 DEF PollStep
<1>4. CASE IrqStep
  <2> USE DEF IrqGoto
  <2>1. CASE IrqEnter
    BY <2>1 DEF IrqEnter
  <2>2. CASE IrqClear \/ IrqRead \/ IrqCrash
    <3>1. /\ UNCHANGED <<hpc, mutex, ppc>>
          /\ irqLock' \in {irqLock, "free"}
          /\ ipc' = ipc \/ (ipc # "signal" /\ ipc' # "signal")
      BY <2>2 DEF IrqClear, IrqRead, IrqCrash, Outside
    <3>2. QED
      BY <3>1
  <2>3. CASE IrqSignal
    BY <2>3 DEF IrqSignal, Signalled
  <2>4. CASE IrqAck
    BY <2>4 DEF IrqAck
  <2>5. QED
    BY <1>4, <2>1, <2>2, <2>3, <2>4 DEF IrqStep
<1>5. CASE StopHandler
  BY <1>5 DEF StopHandler, Signalled
<1>6. CASE MainStep
  BY <1>1, <1>6, AsideOutside DEF MainStep, Aside, Outside, CreateVdev
<1>7. CASE AppStarts \/ AppRuns
  BY <1>1, <1>7 DEF AppStarts, AppRuns
<1>8. CASE RemotePuts \/ Rings \/ UioEvent \/ UNCHANGED vars
  BY <1>1, <1>8 DEF RemotePuts, Rings, UioEvent, vars
<1>9. QED
  BY <1>2, <1>3, <1>4, <1>5, <1>6, <1>7, <1>8 DEF Next, AppStep

-----------------------------------------------------------------------------
\* The lifecycle.
LEMMA Devices ==
  /\ Memory = {"areas", "shm"} /\ Dev = {"ipi", "areas", "shm"}
  /\ Ids = {0, 1}
  BY DEF Memory, Dev, Ids

LEMMA LifeInit == Init => LifeInv
<1> SUFFICES ASSUME Init PROVE LifeInv
  OBVIOUS
<1> USE Devices DEF Init
<1>1. TypeLife
  <2>1. /\ vr_info \in [Ids -> BOOLEAN] /\ platform \in [Ids -> BOOLEAN]
        /\ dev \in [Dev -> {"null", "open", "closed"}]
    OBVIOUS
  <2>2. k \in Ids /\ registered \in 0 .. 2 /\ faults \subseteq Fail
    OBVIOUS
  <2>3. handler \in BOOLEAN
    OBVIOUS
  <2>4. QED
    BY <2>1, <2>2, <2>3 DEF TypeLife
<1>2. Fresh
  BY DEF Fresh, AllAre
<1>3. QED
  BY <1>1, <1>2 DEF LifeInv, Building, Standing, Counting, Closing, Undoing, Taken, Left, Threads

LEMMA RemoveTypes ==
  ASSUME TypeLife, NEW from, NEW next, NEW to,
         \/ DeinitMemory(from, next, to) /\ UNCHANGED handler
         \/ DisableInterrupt(from, to) /\ UNCHANGED vr_info
  PROVE  /\ registered' \in 0 .. 2 /\ dev' \in [Dev -> {"null", "open", "closed"}]
         /\ handler' \in BOOLEAN /\ vr_info' \in [Ids -> BOOLEAN]
<1> USE DEF TypeLife
<1>1. CASE DeinitMemory(from, next, to) /\ UNCHANGED handler
  <2>1. CASE registered > 1 /\ registered' = registered - 1 /\ UNCHANGED <<dev, vr_info>>
    BY <1>1, <2>1
  <2>2. CASE /\ UNCHANGED registered /\ vr_info' = [vr_info EXCEPT ![k] = FALSE]
             /\ dev' = [d \in Dev |-> IF d \in Memory /\ vr_info[k] THEN "null" ELSE dev[d]]
    BY <1>1, <2>2
  <2>3. QED
    BY <1>1, <2>1, <2>2 DEF DeinitMemory
<1>2. CASE DisableInterrupt(from, to) /\ UNCHANGED vr_info
  <2>1. registered' \in 0 .. 2 /\ dev' \in [Dev -> {"null", "open", "closed"}]
    BY <1>2 DEF DisableInterrupt, Is
  <2>2. handler' = handler \/ handler' = FALSE
    BY <1>2 DEF DisableInterrupt
  <2>3. handler' \in BOOLEAN
    BY <2>2
  <2>4. QED
    BY <1>2, <2>1, <2>3
<1>3. QED
  BY <1>1, <1>2

LEMMA AsideKeeps == LifeInv /\ HandOver /\ Aside => LifeInv'
<1> SUFFICES ASSUME LifeInv, HandOver, Aside PROVE LifeInv'
  OBVIOUS
<1>0. UNCHANGED ipc
  BY AsideOutside DEF Outside
<1> USE <1>0, Devices
    DEF LifeInv, TypeLife, Fresh, Building, Standing, Counting, Closing, Undoing, Taken,
        Left, Threads, Undoable, AllAre, Alive, Goto, Works, Fails, Is
<1>1. CASE CreateProc
  BY <1>1 DEF CreateProc
<1>2. CASE OpenIpi
  BY <1>2 DEF OpenIpi, CloseIpi
<1>3. CASE EnableInterrupt
  <2>1. CASE mpc' = "vrinfo"
    <3>1. /\ mpc = "irq" /\ handler' = TRUE /\ registered' = registered + 1
          /\ UNCHANGED <<k, dev, vr_info, platform, thread, faults>>
      BY <1>3, <2>1 DEF EnableInterrupt, CloseIpi
    <3>2. TypeLife'
      BY <2>1, <3>1
    <3>3. Building'
      BY <2>1, <3>1
    <3>4. QED
      BY <2>1, <3>1, <3>2, <3>3
  <2>2. CASE mpc' = "undo"
    <3>1. /\ mpc = "irq" /\ Is("ipi", "closed") /\ Fails("irq")
          /\ UNCHANGED <<k, handler, registered, vr_info, platform, thread>>
      BY <1>3, <2>2 DEF EnableInterrupt, CloseIpi
    <3>2. QED
      BY <2>2, <3>1
  <2>3. QED
    BY <1>3, <2>1, <2>2 DEF EnableInterrupt, CloseIpi
<1>4. CASE CreateVrinfo
  <2>1. CASE mpc' # "undo"
    <3>1. /\ mpc = "vrinfo" /\ mpc' = (IF k = 0 THEN "memory" ELSE "add")
          /\ vr_info' = [vr_info EXCEPT ![k] = TRUE]
          /\ UNCHANGED <<k, dev, handler, registered, platform, thread, faults>>
      BY <1>4, <2>1 DEF CreateVrinfo, CloseIpi
    <3>2. TypeLife'
      BY <3>1
    <3>3. Building'
      BY <3>1
    <3>4. QED
      BY <3>1, <3>2, <3>3
  <2>2. CASE mpc' = "undo"
    <3>1. /\ mpc = "vrinfo" /\ Is("ipi", "closed") /\ Fails("alloc")
          /\ UNCHANGED <<k, handler, registered, vr_info, platform, thread>>
      BY <1>4, <2>2 DEF CreateVrinfo, CloseIpi
    <3>2. QED
      BY <2>2, <3>1
  <2>3. QED
    BY <2>1, <2>2
<1>5. CASE OpenMemory
  BY <1>5 DEF OpenMemory
<1>6. CASE AddMemory
  BY <1>6 DEF AddMemory
<1>7. CASE MapTable
  <2>1. CASE mpc' # "undo"
    <3>1. /\ mpc = "map" /\ platform' = [platform EXCEPT ![k] = TRUE]
          /\ IF k = 1 THEN mpc' = "menu" /\ k' = k ELSE mpc' = "create" /\ k' = k + 1
          /\ UNCHANGED <<dev, handler, registered, vr_info, thread, faults>>
      BY <1>7, <2>1 DEF MapTable
    <3>2. CASE k = 1
      <4>1. TypeLife'
        BY <3>1, <3>2
      <4>2. Standing'
        BY <3>1, <3>2
      <4>3. QED
        BY <3>1, <3>2, <4>1, <4>2
    <3>3. CASE k = 0
      <4>1. TypeLife'
        BY <3>1, <3>3
      <4>2. Building'
        BY <3>1, <3>3
      <4>3. QED
        BY <3>1, <3>3, <4>1, <4>2
    <3>4. QED
      BY <3>2, <3>3
  <2>2. CASE mpc' = "undo"
    <3>1. /\ mpc = "map" /\ k = 0 /\ Fails("map")
          /\ UNCHANGED <<k, dev, handler, registered, vr_info, platform, thread>>
      BY <1>7, <2>2 DEF MapTable
    <3>2. TypeLife'
      BY <2>2, <3>1
    <3>3. Undoing'
      BY <2>2, <3>1
    <3>4. QED
      BY <2>2, <3>1, <3>2, <3>3
  <2>3. QED
    BY <2>1, <2>2
<1>8. CASE Undo
  <2>0. UNCHANGED <<k, platform, thread, faults>> /\ mpc \in {"undo", "undo_irq"}
    BY <1>8 DEF Undo, DeinitMemory, DisableInterrupt
  <2>1. mpc' \in {"undo_irq", "exit", "crash"}
    BY <1>8 DEF Undo, DeinitMemory, DisableInterrupt
  <2>2. TypeLife'
    BY <1>8, <2>0, <2>1, RemoveTypes DEF Undo
  <2>3. CASE ~Undoable
    BY <2>0, <2>1, <2>2, <2>3
  <2> USE <2>2
  <2>4. CASE Undoable /\ mpc = "undo"
    <3>1. /\ mpc' = "undo_irq" /\ UNCHANGED <<handler, registered>>
          /\ dev'["ipi"] = dev["ipi"] /\ vr_info'[1] = vr_info[1] /\ ~vr_info'[0]
          /\ AllAre(Memory, "null")'
      <4>1. DeinitMemory("undo", "undo_irq", "exit") /\ UNCHANGED handler /\ registered <= 1
        BY <1>8, <2>4 DEF Undo, DisableInterrupt
      <4>2. /\ mpc' \in IF vr_info[k] /\ "closed" \in {dev["areas"], dev["shm"]}
                        THEN {"undo_irq", "crash"} ELSE {"undo_irq"}
            /\ dev' = [d \in Dev |-> IF d \in Memory /\ vr_info[k] THEN "null" ELSE dev[d]]
            /\ vr_info' = [vr_info EXCEPT ![k] = FALSE] /\ UNCHANGED <<handler, registered>>
        BY <2>4, <4>1 DEF DeinitMemory
      <4>3. vr_info[0] /\ dev["areas"] = "open" /\ dev["shm"] = "open" /\ k = 0
        BY <2>4
      <4>4. QED
        BY <4>2, <4>3
    <3>2. QED
      BY <2>0, <2>1, <2>4, <3>1
  <2>5. CASE Undoable /\ mpc = "undo_irq"
    <3>1. /\ mpc' = "exit" /\ handler' = FALSE /\ registered' = 0 /\ UNCHANGED vr_info
          /\ Is("ipi", "closed") /\ irqLock = "free"
      BY <1>8, <2>0, <2>5 DEF Undo, DeinitMemory, DisableInterrupt
    <3>2. QED
      BY <2>0, <2>1, <2>5, <3>1
  <2>6. QED
    BY <2>0, <2>3, <2>4, <2>5
<1>9. CASE CleanUp
  <2>0. /\ UNCHANGED <<thread, faults>> /\ platform' = [platform EXCEPT ![k] = FALSE]
        /\ mpc \in {"cleanup", "cleanup_irq"}
    BY <1>9 DEF CleanUp, DeinitMemory, DisableInterrupt
  <2>1. CASE mpc = "cleanup" /\ k = 0
    <3>1. /\ mpc' = "cleanup" /\ k' = 1 /\ registered' = 1
          /\ UNCHANGED <<dev, handler, vr_info>>
      BY <1>9, <2>1 DEF CleanUp, DeinitMemory, DisableInterrupt
    <3>2. TypeLife'
      BY <2>0, <2>1, <3>1
    <3>3. Counting'
      BY <2>0, <2>1, <3>1
    <3>4. QED
      BY <2>0, <2>1, <3>1, <3>2, <3>3
  <2>2. CASE mpc = "cleanup" /\ k = 1
    <3>1. /\ mpc' = "cleanup_irq" /\ UNCHANGED <<k, registered, handler>>
          /\ dev' = [d \in Dev |-> IF d \in Memory THEN "null" ELSE dev[d]]
          /\ vr_info' = [vr_info EXCEPT ![k] = FALSE]
      BY <1>9, <2>2 DEF CleanUp, DeinitMemory, DisableInterrupt
    <3>2. TypeLife'
      BY <2>0, <2>2, <3>1
    <3>3. Closing'
      BY <2>0, <2>2, <3>1
    <3>4. QED
      BY <2>0, <2>2, <3>1, <3>2, <3>3
  <2>3. CASE mpc = "cleanup_irq"
    <3>1. /\ mpc' = "exit" /\ handler' = FALSE /\ registered' = 0 /\ UNCHANGED <<k, vr_info>>
          /\ Is("ipi", "closed") /\ irqLock = "free"
      BY <1>9, <2>3 DEF CleanUp, DeinitMemory, DisableInterrupt
    <3>2. TypeLife'
      BY <1>9, <2>0, <3>1, RemoveTypes DEF CleanUp
    <3>3. Left'
      BY <2>0, <2>3, <3>1
    <3>4. QED
      BY <2>0, <2>3, <3>1, <3>2, <3>3
  <2>4. QED
    BY <2>0, <2>1, <2>2, <2>3
<1>10. CASE LeaveMenu
  BY <1>10 DEF LeaveMenu
<1>11. CASE Launch
  BY <1>11 DEF Launch
<1>12. CASE Join
  BY <1>12 DEF Join
<1>13. CASE ReleaseVdev
  BY <1>13 DEF ReleaseVdev
<1>14. QED
  BY <1>1, <1>2, <1>3, <1>4, <1>5, <1>6, <1>7, <1>8, <1>9, <1>10, <1>11, <1>12, <1>13
  DEF Aside

\* The other steps leave main where it is, but for what crashes it.
LEMMA OthersKeep ==
  ASSUME LifeInv,
         \/ CreateVdev \/ AppStep \/ PollStep \/ IrqStep \/ StopHandler
         \/ RemotePuts \/ Rings \/ UioEvent
  PROVE  LifeInv'
<1> USE DEF LifeInv
<1>1. CASE CreateVdev
  <2>1. /\ UNCHANGED <<k, dev, handler, registered, vr_info, platform, ipc>>
        /\ mpc' = mpc \/ (mpc' = "crash" /\ ~Undoable')
        /\ thread = "start" /\ thread' \in {"none", "start", "app"}
        /\ faults \subseteq faults' /\ faults' \subseteq Fail
    BY <1>1 DEF CreateVdev, Works, Fails, Undoable, TypeLife
  <2>2. mpc \in {"join", "crash"} /\ (Undoable' => Undoable)
    BY <2>1 DEF Threads, Undoable
  <2>3. TypeLife'
    BY <2>1 DEF TypeLife
  <2>4. mpc' = mpc \/ (mpc' = "crash" /\ ~Undoable') => Taken' /\ Left'
    BY <2>1, <2>2 DEF Taken, Left, Alive, AllAre
  <2>5. QED
    BY <2>1, <2>2, <2>3, <2>4 DEF Fresh, Building, Standing, Counting, Closing, Undoing,
                                  Threads, AllAre
<1>2. CASE IrqStep /\ IrqCrash
  <2>1. /\ UNCHANGED <<k, dev, handler, registered, vr_info, platform, thread, faults, ipc>>
        /\ mpc' = "crash" /\ Alive
        /\ \/ ipc = "entry" /\ dev["ipi"] # "open"
           \/ ipc = "read" /\ dev["shm"] # "open"
    BY <1>2 DEF IrqStep, IrqCrash, Outside
  <2>2. TypeLife'
    BY <2>1 DEF TypeLife
  <2>3. Undoable => ipc = "read" /\ dev["shm"] # "open"
    BY <2>1 DEF Taken
  <2>4. Undoable => dev["shm"] # "closed"
    BY <2>1, Devices DEF TypeLife, Fresh, Building, Standing, Counting, Closing, Undoing,
                         Left, Alive, AllAre, Undoable
  <2>5. dev["shm"] \in {"null", "open", "closed"}
    BY Devices DEF TypeLife
  <2>6. Left' /\ Taken'
    BY <2>1, <2>3, <2>4, <2>5 DEF Left, Taken, Alive, Undoable
  <2>7. QED
    BY <2>1, <2>2, <2>6 DEF Fresh, Building, Standing, Counting, Closing, Undoing, Threads
<1>3. CASE ~CreateVdev /\ ~(IrqStep /\ IrqCrash)
  <2>1. /\ UNCHANGED main
        /\ mpc \in {"crash", "exit"} => ipc' = ipc
        /\ ipc' # "poll" => ipc # "poll" \/ (handler /\ dev["ipi"] = "open")
    <3>1. CASE AppStep
      BY <3>1 DEF AppStep, AppStarts, AppPolls, AppSends, AppRuns
    <3>2. CASE PollStep
      BY <3>2 DEF PollStep, PollCheck, PollIrqLock, PollTest, PollServe, PollSleep
    <3>3. CASE IrqStep
      BY <1>3, <3>3 DEF IrqStep, IrqEnter, IrqClear, IrqRead, IrqSignal, IrqAck, IrqGoto, Alive
    <3>4. CASE StopHandler \/ RemotePuts \/ Rings \/ UioEvent
      BY <3>4 DEF StopHandler, RemotePuts, Rings, UioEvent
    <3>5. QED
      BY <1>3, <3>1, <3>2, <3>3, <3>4
  <2>2. Taken' /\ Left'
    BY <2>1 DEF main, Taken, Left, Alive, Undoable, AllAre
  <2>3. QED
    BY <2>1, <2>2 DEF main, TypeLife, Fresh, Building, Standing, Counting, Closing, Undoing,
                      Undoable, Threads, AllAre
<1>4. QED
  BY <1>1, <1>2, <1>3

LEMMA LifeStep == LifeInv /\ HandOver /\ [Next]_vars => LifeInv'
<1> SUFFICES ASSUME LifeInv, HandOver, [Next]_vars PROVE LifeInv'
  OBVIOUS
<1>1. CASE UNCHANGED vars
  BY <1>1 DEF vars, main, LifeInv, TypeLife, Fresh, Building, Standing, Counting, Closing,
              Undoing, Taken, Left, Undoable, Alive, Threads, AllAre
<1>2. CASE Next
  BY <1>2, AsideKeeps, OthersKeep DEF Next, MainStep, Aside
<1>3. QED
  BY <1>1, <1>2

-----------------------------------------------------------------------------
LEMMA ThreadStep == OnThread /\ LifeInv /\ [Next]_vars => OnThread'
<1> SUFFICES ASSUME OnThread, LifeInv, [Next]_vars PROVE OnThread'
  OBVIOUS
<1> USE DEF OnThread, E!Goto
<1>1. CASE CreateVdev
  BY <1>1 DEF CreateVdev, E!Start, echo
<1>2. CASE Aside
  \* The menu starts a thread when there is none.
  <2>1. apc' = apc /\ (apc # "idle" => thread' = thread)
    BY <1>2, AsideOutside DEF Aside, CreateProc, OpenIpi, EnableInterrupt, CreateVrinfo,
       OpenMemory, AddMemory, MapTable, Undo, CleanUp, LeaveMenu, Launch, Join, ReleaseVdev,
       Goto, Outside, echo, LifeInv, Threads
  <2>2. QED
    BY <2>1
<1>3. CASE AppStep
  BY <1>3 DEF AppStep, AppStarts, AppPolls, AppSends, AppRuns, main, E!PayloadInit,
              E!CreateEpt, E!Polls, E!Send, E!Bound, E!SendFails, E!AllSent, E!Echoed,
              E!NextPayload, E!Report, E!Shutdown
<1>4. CASE PollStep
  BY <1>4 DEF PollStep, PollCheck, PollIrqLock, PollTest, PollServe, PollSleep, main, echo,
              E!Receive, E!PollReturns
<1>5. CASE IrqStep
  BY <1>5 DEF IrqStep, IrqEnter, IrqClear, IrqRead, IrqCrash, IrqSignal, IrqAck, main, echo,
              Outside
<1>6. CASE StopHandler \/ RemotePuts \/ Rings \/ UioEvent \/ UNCHANGED vars
  BY <1>6 DEF StopHandler, RemotePuts, Rings, UioEvent, vars, main, echo, E!Stop, E!Announce,
              E!Leave, E!RemoteEcho
<1>7. QED
  BY <1>1, <1>2, <1>3, <1>4, <1>5, <1>6 DEF Next, MainStep, Aside

LEMMA InvInit == Init => IInv
<1>1. Init => OnThread
  BY DEF Init, E!Init, OnThread
<1>2. QED
  BY <1>1, Parameters, EchoInit, EP!TypeInit, WakeInit, LifeInit DEF IInv

LEMMA InvStep == IInv /\ [Next]_vars => IInv'
<1> SUFFICES ASSUME IInv, [Next]_vars PROVE IInv'
  OBVIOUS
<1>1. EP!TInv'
  BY Parameters, EchoStep, EP!TypeStep DEF IInv
<1>2. WakeInv'
  BY WakeStep DEF IInv
<1>3. LifeInv'
  BY LifeStep DEF IInv, WakeInv
<1>4. OnThread'
  BY ThreadStep DEF IInv
<1>5. QED
  BY <1>1, <1>2, <1>3, <1>4 DEF IInv

(***************************************************************************)
(* Every behaviour of the client, whatever main, its signal handler and    *)
(* the interrupts do between the runs, is one of the echo test with static *)
(* counters.                                                               *)
(***************************************************************************)
THEOREM ImplementsEcho == Spec => EP!Spec
  BY EchoInit, EchoStep, PTL DEF Spec, EP!Spec

(***************************************************************************)
(* No ring is lost between mailbox, UIO event and flag, in and between any *)
(* number of runs.                                                         *)
(***************************************************************************)
THEOREM RingCorrect == Spec => []NoLostRing
<1>1. IInv => NoLostRing
  BY DEF IInv, WakeInv
<1>2. QED
  BY InvInit, InvStep, <1>1, PTL DEF Spec

-----------------------------------------------------------------------------
\* The doorbell.
LEMMA BellInit == Init => Bell!Init
  BY DEF Init, E!Init, Bell!Init, Owed, ClientIs

LEMMA BellStep == IInv /\ [Next]_vars => [Bell!Next]_Bell!vars
<1> DEFINE work == [t \in {0} |-> toHost # <<>>]
           owed == [t \in {0} |-> Owed \/ ring = "ring"]
           client == [t \in {0} |-> ClientIs]
           Stutter == UNCHANGED <<work, owed, client>>
<1> SUFFICES ASSUME IInv, [Next]_vars
             PROVE  Bell!Next \/ Stutter
  BY DEF Bell!vars
<1>0. WakeInv /\ OnThread
  BY DEF IInv
<1> USE <1>0 DEF WakeInv, TypeWake, HandOver, InPoll, OnThread, Owed, ClientIs, peer, lock
\* What the thread does to the vrings, the flag does not see.
<1>1. ASSUME UNCHANGED <<peer, sync>> PROVE owed' = owed
  BY <1>1
<1>2. CASE MainStep
  <2>1. CASE CreateVdev /\ E!Start
    \* A new run has new vrings; a ring that stands is answered in it.
    <3>1. thread = "start" /\ thread' = "app" /\ ppc = "out" /\ toHost' = <<>>
      BY <2>1 DEF CreateVdev, E!Start, E!Goto, echo
    <3>2. UNCHANGED <<peer, sync, ppc>>
      BY <2>1 DEF CreateVdev
    <3>3. client[0] = "away" /\ client' = [client EXCEPT ![0] = "there"]
      BY <3>1, <3>2
    <3>4. work' = [work EXCEPT ![0] = FALSE] /\ owed' = owed
      BY <1>1, <3>1, <3>2
    <3>5. QED
      BY <3>3, <3>4 DEF Bell!Next, Bell!Enter
  <2>2. CASE CreateVdev /\ UNCHANGED echo
    BY <2>2 DEF CreateVdev, E!Start, E!Goto, echo
  <2>3. CASE ReleaseVdev
    <3>1. thread = "app" /\ thread' = "none" /\ ppc = "out"
      BY <2>3 DEF ReleaseVdev
    <3>2. UNCHANGED <<peer, sync, ppc, toHost>>
      BY <2>3 DEF ReleaseVdev, Outside, echo
    <3>3. client[0] = "there" /\ client' = [client EXCEPT ![0] = "away"]
      BY <3>1, <3>2
    <3>4. UNCHANGED <<work, owed>>
      BY <1>1, <3>2
    <3>5. QED
      BY <3>3, <3>4 DEF Bell!Next, Bell!Leave
  <2>4. CASE Aside /\ ~ReleaseVdev
    <3>1. UNCHANGED <<peer, sync, ppc, toHost>>
      BY <2>4, AsideOutside DEF Outside, echo
    \* No thread runs that the menu could start again.
    <3>2. thread' = "app" <=> thread = "app"
      BY <2>4 DEF Aside, CreateProc, OpenIpi, EnableInterrupt, CreateVrinfo, OpenMemory,
                  AddMemory, MapTable, Undo, CleanUp, LeaveMenu, Launch, Join, Goto,
                  IInv, LifeInv, Threads
    <3>3. QED
      BY <3>1, <3>2
  <2>5. QED
    BY <1>2, <2>1, <2>2, <2>3, <2>4 DEF MainStep, Aside, CreateVdev
<1>3. CASE AppStep
  <2> USE DEF E!local, E!counters, E!peer, E!vrings, E!Goto
  <2>1. UNCHANGED <<toHost, peer, sync, main>> /\ ppc' \in {ppc, "check"}
    <3>1. CASE AppStarts
      BY <3>1 DEF AppStarts, E!PayloadInit, E!CreateEpt
    <3>2. CASE AppPolls
      BY <3>2 DEF AppPolls, E!Polls
    <3>3. CASE AppSends
      BY <3>3 DEF AppSends, E!Send
    <3>4. CASE AppRuns
      BY <3>4 DEF AppRuns, E!Bound, E!SendFails, E!AllSent, E!Echoed, E!NextPayload,
                  E!Report, E!Shutdown
    <3>5. QED
      BY <1>3, <3>1, <3>2, <3>3, <3>4 DEF AppStep
  <2>2. ppc' = ppc \/ ppc = "out"
    BY <1>3 DEF AppStep, AppStarts, AppPolls, AppSends, AppRuns, E!Polls, E!Send
  <2>3. UNCHANGED client
    BY <2>1, <2>2 DEF main
  <2>4. QED
    BY <1>1, <2>1, <2>3
<1>4. CASE PollStep
  <2> USE DEF PollGoto, echo, main
  <2>1. CASE PollTest /\ ~sync
    \* The flag's ring is answered; one behind it may be on its way.
    <3>1. thread = "app"
      BY <2>1 DEF PollTest
    <3>2. ppc = "test" /\ ppc' = "serve" /\ thread' = "app"
      BY <2>1, <3>1 DEF PollTest
    <3>3. client[0] = "there" /\ owed[0]
      BY <2>1, <3>1, <3>2
    <3>4. client' = [client EXCEPT ![0] = "looking"]
      <4>1. ClientIs' = "looking"
        BY <3>2
      <4>2. QED
        BY <4>1
    <3>5. owed' = [owed EXCEPT ![0] = owed'[0]] /\ owed'[0] \in BOOLEAN /\ work' = work
      BY <2>1 DEF PollTest
    <3>6. QED
      BY <3>3, <3>4, <3>5 DEF Bell!Next, Bell!Answer
  <2>2. CASE PollTest /\ sync
    BY <2>2 DEF PollTest
  <2>3. CASE PollServe
    <3>1. ppc = "serve" /\ UNCHANGED <<peer, sync, thread>> /\ thread = "app"
      BY <2>3 DEF PollServe
    <3>2. CASE ppc' = "serve" /\ toHost' # <<>>
      <4>1. toHost # <<>>
        BY <2>3, <3>2 DEF PollServe, E!Receive
      <4>2. QED
        BY <1>1, <3>1, <3>2, <4>1
    <3>3. CASE toHost' = <<>> /\ ppc' \in {"serve", "out"}
      <4>1. PICK c \in {"looking", "there"} : client' = [client EXCEPT ![0] = c]
        BY <3>1, <3>3
      <4>2. client[0] = "looking"
        BY <3>1
      <4>3. work' = [work EXCEPT ![0] = FALSE] /\ owed' = owed
        BY <1>1, <3>1, <3>3
      <4>4. QED
        BY <4>1, <4>2, <4>3 DEF Bell!Next, Bell!Serve
    <3>4. QED
      BY <2>3, <3>2, <3>3 DEF PollServe, E!PollReturns, E!vrings
  <2>4. CASE PollCheck
    <3>1. UNCHANGED <<toHost, peer, sync, thread>> /\ ppc # "serve" /\ ppc' # "serve"
      BY <2>4 DEF PollCheck, E!PollReturns, E!vrings
    <3>2. QED
      BY <1>1, <3>1
  <2>5. CASE PollIrqLock \/ PollSleep
    <3>1. UNCHANGED <<toHost, peer, sync, thread>> /\ ppc # "serve" /\ ppc' # "serve"
      BY <2>5 DEF PollIrqLock, PollSleep
    <3>2. QED
      BY <1>1, <3>1
  <2>6. QED
    BY <1>4, <2>1, <2>2, <2>3, <2>4, <2>5 DEF PollStep
<1>5. CASE IrqStep
  <2> USE DEF IrqGoto, echo, main
  \* The event stands beside the flag until it is acknowledged.
  <2>1. CASE IrqEnter
    BY <2>1 DEF IrqEnter
  <2>2. CASE IrqClear
    BY <2>2 DEF IrqClear
  <2>3. CASE IrqRead
    BY <2>3 DEF IrqRead
  <2>4. CASE IrqCrash
    BY <2>4 DEF IrqCrash, Outside
  <2>5. CASE IrqSignal
    BY <2>5 DEF IrqSignal, Signalled
  <2>6. CASE IrqAck
    BY <2>6 DEF IrqAck
  <2>7. QED
    BY <1>5, <2>1, <2>2, <2>3, <2>4, <2>5, <2>6 DEF IrqStep
<1>6. CASE StopHandler
  BY <1>6 DEF StopHandler, E!Stop, E!peer, E!vrings, Signalled, echo, main
<1>7. CASE RemotePuts
  <2>1. UNCHANGED <<line, event, sync, thread, ppc>>
    BY <1>7 DEF RemotePuts, main
  <2>2. CASE toHost' = toHost
    BY <1>7, <2>1, <2>2 DEF RemotePuts
  <2>3. CASE toHost' # toHost
    <3>1. ring' = "ring" /\ client' = client
      BY <1>7, <2>1, <2>3 DEF RemotePuts
    <3>2. PICK m : toHost' = Append(toHost, m)
      BY <1>7, <2>3 DEF RemotePuts, E!Announce, E!Leave, E!RemoteEcho
    <3>3. toHost \in Seq(EP!Echo \cup EP!NameService)
      BY DEF IInv, EP!TInv, EP!TypeOK
    <3>4. toHost' # <<>>
      <4>1. Len(Append(toHost, m)) = Len(toHost) + 1 /\ Len(toHost) \in Nat
        BY <3>3
      <4>2. QED
        BY <3>2, <4>1
    <3>5. owed' = [owed EXCEPT ![0] = TRUE] /\ work' = [work EXCEPT ![0] = @ \/ TRUE]
      BY <3>1, <3>4
    <3>6. QED
      BY <3>1, <3>5 DEF Bell!Next, Bell!Ring
  <2>4. QED
    BY <2>2, <2>3
<1>8. CASE Rings
  <2>1. owed' = [owed EXCEPT ![0] = TRUE]
    BY <1>8 DEF Rings
  <2>2. client' = client /\ work' = [work EXCEPT ![0] = @ \/ FALSE]
    BY <1>8 DEF Rings, main, echo
  <2>3. QED
    BY <2>1, <2>2 DEF Bell!Next, Bell!Ring
<1>9. CASE UioEvent
  BY <1>9 DEF UioEvent, main, echo
<1>10. CASE UNCHANGED vars
  BY <1>10 DEF vars, main, echo
<1>11. QED
  BY <1>2, <1>3, <1>4, <1>5, <1>6, <1>7, <1>8, <1>9, <1>10 DEF Next

(***************************************************************************)
(* The whole client implements the safety part of the doorbell: between    *)
(* the ring of the remote core and the answer of a thread neither handler, *)
(* nor main, nor its signal handler drops a notification; and a thread     *)
(* looks at the vrings for a notification only, once for each.             *)
(***************************************************************************)
THEOREM ImplementsDoorbell == Spec => BellSafeSpec
  BY InvInit, InvStep, BellInit, BellStep, PTL DEF Spec, BellSafeSpec, Bell!SafeSpec

(***************************************************************************)
(* No path of platform_poll, the handler or stop_handler leaves the mutex  *)
(* behind or frees it for another, and the client never waits for it with  *)
(* irq_lock in its hands.                                                  *)
(***************************************************************************)
THEOREM MutexCorrect == Spec => []MutexOwner
<1>1. Init => MutexOwner
  BY DEF Init, MutexOwner
<1>2. QED
  BY WakeInit, WakeStep, MutexStep, <1>1, PTL DEF Spec

-----------------------------------------------------------------------------
(***************************************************************************)
(* The variables keep their types; while a thread runs, both instances     *)
(* stand with their devices open and their handler registered.             *)
(***************************************************************************)
THEOREM RunsCorrect == Spec => []RunsWithDevices
<1>1. EP!TypeOK => E!TypeOK
  BY DEF EP!TypeOK, EP!Payload, EP!Echo, EP!NameService,
         E!TypeOK, E!Payload, E!Echo, E!NameService
<1>2. IInv => RunsWithDevices
  <2> SUFFICES ASSUME IInv PROVE RunsWithDevices
    OBVIOUS
  <2>1. TypeOK
    BY <1>1 DEF IInv, EP!TInv, WakeInv, TypeWake, LifeInv, TypeLife, TypeOK
  <2>2. QED
    BY <2>1 DEF IInv, LifeInv, Threads, Standing, AllAre, Alive, RunsWithDevices
<1>3. QED
  BY InvInit, InvStep, <1>2, PTL DEF Spec

(***************************************************************************)
(* main leaves with the handler unregistered and every device closed once, *)
(* whichever of the calls that are undone fail; the handler that finds no  *)
(* `shm` is the only crash left.                                           *)
(***************************************************************************)
THEOREM ReleaseCorrect == Spec => []ReleasedAtExit
<1>1. IInv => ReleasedAtExit
  BY DEF IInv, LifeInv, Left, Undoable, AllAre, ReleasedAtExit
<1>2. QED
  BY InvInit, InvStep, <1>1, PTL DEF Spec
=============================================================================
