------------------------------ MODULE ClientT2H ------------------------------
(***************************************************************************)
(* The whole rpmsg client of RZ/T2H, from main's platform_init to its      *)
(* exit: the devices it opens and closes, the echo test (EchoTest), the    *)
(* spinning platform_poll with the interrupt thread that wakes it          *)
(* (SpinPoll), and a remote core that puts a message in the vring and then *)
(* rings.  RZ/N2H runs the same program but for names and addresses.       *)
(***************************************************************************)
EXTENDS Naturals, Sequences

CONSTANTS
  Num, Cap,             \* as in EchoTest
  Client,               \* as in SpinPoll
  Fail                  \* the kinds of calls that may fail

Kind == {"alloc",       \* of the remoteproc instance or its private part
         "open",        \* metal_device_open
         "noio",        \* metal_device_io_region: the device has no such region
         "irq",         \* metal_irq_register
         "map",         \* remoteproc_mmap, remoteproc_set_rsc_table
         "virtio",      \* remoteproc_create_virtio
         "vdev"}        \* a later call of platform_create_rpmsg_vdev

ASSUME FailAssumption == Fail \subseteq Kind
ASSUME SizeAssumption == Num \in Nat \ {0} /\ Cap \in Nat \ {0}

\* The devices in the order they are opened: the software interrupt, the resource
\* table, the vring control and buffer areas, and the memory of the messages.
Memory == <<"rsc", "ctl", "vshm", "shm">>
Dev == {"ipi", "rsc", "ctl", "vshm", "shm"}

VARIABLES
  mpc,                  \* where main is
  k,                    \* the memory device it opens
  dev,                  \* dev[d]: the pointer to d's libmetal device
  handler,              \* rzt2_proc_irq_handler is registered
  faults,               \* history: the kinds of calls that have failed
  apc, run, num, i, expect_rnum, rnum, err_cnt, announced, remote, left,
  toRemote, toHost, validated,                        \* EchoTest; apc is its pc
  ring, line, msgValid, event, sync, irqLock, ppc, ipc    \* SpinPoll; ring, ppc

life == <<mpc, k, dev, handler, faults>>
echo == <<apc, run, num, i, expect_rnum, rnum, err_cnt, announced, remote, left,
          toRemote, toHost, validated>>
spin == <<ring, line, msgValid, event, sync, irqLock, ppc, ipc>>
vars == <<life, echo, spin>>

E == INSTANCE EchoTest WITH
       pc <- apc, ThreadLocal <- FALSE, Runs <- 1,
       force_stop <- ~TRUE         \* there is none (TLC needs an operator here)
P == INSTANCE SpinPoll WITH pc <- ppc, peer <- ring, fresh <- toHost # <<>>

\* The flag starts as rzt2_proc_init sets it: nothing reads it before.
Init ==
  /\ mpc = "create" /\ k = 1 /\ handler = FALSE /\ faults = {}
  /\ dev = [d \in Dev |-> "null"]
  /\ E!Init /\ P!Init

TypeOK ==
  /\ mpc \in {"create", "ipi", "irq", "memory", "map", "vdev", "app",
              "cleanup", "remove", "undo", "failed", "exit", "crash"}
  /\ k \in 1 .. Len(Memory) + 1
  /\ dev \in [Dev -> {"null", "open", "closed"}]
  /\ handler \in BOOLEAN /\ faults \subseteq Fail
  /\ E!TypeOK /\ P!TypeOK

-----------------------------------------------------------------------------
\* main: platform_init.

Alive == mpc \notin {"exit", "crash"}
Goto(from, to) == mpc = from /\ mpc' = to
Works == UNCHANGED faults
Fails(f) == f \in Fail /\ faults' = faults \cup {f}
Is(d, s) == dev' = [dev EXCEPT ![d] = s]
Outside == UNCHANGED <<echo, spin>>

CreateProc ==
  /\ \/ Goto("create", "ipi") /\ Works
     \/ Goto("create", "failed") /\ Fails("alloc")
  /\ UNCHANGED <<k, dev, handler>> /\ Outside

\* A failing open returns NULL at once; every other error of rzt2_proc_init closes
\* the device, leaves ipi.dev set, and platform_create_proc calls the remove
\* operation.
OpenIpi ==
  /\ \/ Goto("ipi", "irq") /\ Is("ipi", "open") /\ Works
     \/ Goto("ipi", "failed") /\ Fails("open") /\ UNCHANGED dev
     \/ Goto("ipi", "undo") /\ Fails("noio") /\ Is("ipi", "closed")
  /\ UNCHANGED <<k, handler>> /\ Outside

\* Mutant: the result of metal_irq_register is ignored.
EnableAnyway ==
  /\ \/ Goto("irq", "memory") /\ handler' = TRUE /\ Works
     \/ Goto("irq", "memory") /\ Fails("irq") /\ UNCHANGED handler
  /\ UNCHANGED <<k, dev>> /\ Outside

EnableInterrupt ==
  /\ \/ Goto("irq", "memory") /\ handler' = TRUE /\ Works /\ UNCHANGED dev
     \/ /\ Goto("irq", "undo") /\ Fails("irq") /\ Is("ipi", "closed")
        /\ UNCHANGED handler
  /\ UNCHANGED k /\ Outside

\* init_memory_device: a device without I/O region is closed, stays in info->dev
\* and counts as opened.
OpenMemory ==
  /\ k <= Len(Memory)
  /\ \/ Goto("memory", "memory") /\ Is(Memory[k], "open") /\ Works
     \/ Goto("memory", "memory") /\ Is(Memory[k], "closed") /\ Fails("noio")
     \/ Goto("memory", "undo") /\ Is("ipi", "closed") /\ Fails("open")
  /\ k' = k + 1
  /\ UNCHANGED handler /\ Outside

ProcReady ==
  /\ k > Len(Memory)
  /\ Goto("memory", "map")
  /\ UNCHANGED <<k, dev, handler, faults>> /\ Outside

\* remoteproc_mmap finds the resource table in its memory device, or
\* rzt2_proc_mmap through that of the vrings.
CanMap == "open" \in {dev["rsc"], dev["ctl"]}

MapTable ==
  /\ \/ /\ CanMap
        /\ Goto("map", "vdev") /\ Works
     \/ Goto("map", "undo") /\ Fails("map")
  /\ UNCHANGED <<k, dev, handler>> /\ Outside

\* Mutant: the handler is unregistered, its device stays open.
RemoveOnly(to) ==
  /\ \/ dev["ipi"] = "null"   /\ mpc' = to            /\ UNCHANGED <<dev, handler>>
     \/ dev["ipi"] = "closed" /\ mpc' \in {to, "crash"} /\ UNCHANGED <<dev, handler>>
     \/ /\ dev["ipi"] = "open" /\ irqLock = "free"
        /\ mpc' = to /\ handler' = FALSE /\ UNCHANGED dev
  /\ UNCHANGED <<k, faults>> /\ Outside

\* rzt2_proc_remove and rzt2_disable_interrupt.  Unregistering takes irq_lock.  A
\* device closed before is used and closed again: undefined.
Remove(to) ==
  /\ \/ dev["ipi"] = "null"   /\ mpc' = to            /\ UNCHANGED <<dev, handler>>
     \/ dev["ipi"] = "closed" /\ mpc' \in {to, "crash"} /\ UNCHANGED <<dev, handler>>
     \/ /\ dev["ipi"] = "open" /\ irqLock = "free"
        /\ mpc' = to /\ handler' = FALSE /\ Is("ipi", "closed")
  /\ UNCHANGED <<k, faults>> /\ Outside

Undo == mpc = "undo" /\ Remove("failed")

\* main's platform is not initialised, and goes to platform_cleanup: it may do
\* nothing (NULL) or anything.
InitFailed ==
  /\ Goto("failed", "exit") \/ Goto("failed", "crash")
  /\ UNCHANGED <<k, dev, handler, faults>> /\ Outside

-----------------------------------------------------------------------------
\* main: the rpmsg device, the test, and the end.

\* rzt2_proc_notify writes its message without looking at shm.io.
CanNotify == dev["shm"] = "open"

\* The rpmsg device needs the vring areas and sends a first notification; after
\* remoteproc_create_virtio fails a NULL vdev is removed.
CreateVdev ==
  /\ mpc = "vdev"
  /\ \/ /\ {dev["ctl"], dev["vshm"]} = {"open"} /\ CanNotify
        /\ mpc' = "app" /\ Works
        /\ E!Start /\ P!EnterApp
     \/ /\ "closed" \in {dev["ctl"], dev["vshm"]} \/ ~CanNotify
        /\ mpc' = "crash" /\ Works /\ Outside
     \/ mpc' = "crash" /\ Fails("virtio") /\ Outside
     \/ mpc' = "cleanup" /\ Fails("vdev") /\ Outside
  /\ UNCHANGED <<k, dev, handler>>

\* app returns.
ReleaseVdev ==
  /\ mpc = "app" /\ apc = "idle"
  /\ mpc' = "cleanup"
  /\ UNCHANGED <<k, dev, handler, faults, echo>>
  /\ P!LeaveApp

\* platform_cleanup closes the areas of the vrings and the resource table.
CleanUp ==
  /\ mpc = "cleanup"
  /\ IF "closed" \in {dev["ctl"], dev["vshm"], dev["rsc"]}
     THEN mpc' \in {"remove", "crash"} ELSE mpc' = "remove"
  /\ dev' = [d \in Dev |-> IF d \in {"ctl", "vshm", "rsc"} THEN "closed" ELSE dev[d]]
  /\ UNCHANGED <<k, handler, faults>> /\ Outside

CleanUpRemove == mpc = "remove" /\ Remove("exit")

MainStep ==
  \/ CreateProc \/ OpenIpi \/ EnableInterrupt \/ OpenMemory \/ ProcReady \/ MapTable
  \/ Undo \/ InitFailed \/ CreateVdev \/ ReleaseVdev \/ CleanUp \/ CleanUpRemove

-----------------------------------------------------------------------------
\* app and platform_poll.

\* Before its first loop app makes payloads and endpoint.
AppStarts ==
  /\ ppc = "app"
  /\ UNCHANGED <<life, spin>>
  /\ E!PayloadInit \/ E!CreateEpt

\* The loops call platform_poll ...
AppPolls ==
  /\ UNCHANGED life
  /\ E!Polls
  /\ P!EnterPoll

\* ... rpmsg_send is followed by a call of it ...
AppSends ==
  /\ UNCHANGED life
  /\ E!Send
  /\ P!EnterPoll

\* ... and the rest of app runs outside it.
AppRuns ==
  /\ ppc = "app"
  /\ UNCHANGED <<life, spin>>
  /\ \/ E!Bound \/ E!SendFails \/ E!AllSent \/ E!Echoed \/ E!NextPayload
     \/ E!Report \/ E!Shutdown

\* The callback of one message.
PollReceives ==
  /\ ppc = "serve"
  /\ UNCHANGED <<life, spin>>
  /\ E!Receive

PollLocks == UNCHANGED <<life, echo>> /\ P!PollIrqLock

PollGoesOn ==
  /\ UNCHANGED <<life, echo>>
  /\ P!PollTest \/ P!PollYield

\* The vrings are empty: platform_poll returns to app's loop.
PollReturns ==
  /\ UNCHANGED life
  /\ E!PollReturns
  /\ P!PollReturn

AppStep ==
  \/ AppStarts \/ AppPolls \/ AppSends \/ AppRuns
  \/ PollReceives \/ PollGoesOn \/ PollReturns

-----------------------------------------------------------------------------
\* libmetal's interrupt thread and rzt2_proc_irq_handler.

HandlerEnters ==
  /\ Alive /\ handler /\ dev["ipi"] = "open"
  /\ UNCHANGED <<life, echo>>
  /\ P!IrqEnter

\* "Get a message from the mailbox"
HandlerRuns ==
  /\ Alive /\ (ipc = "entry" => dev["shm"] = "open")
  /\ UNCHANGED <<life, echo>>
  /\ P!IrqInvalid \/ P!IrqNotify \/ P!IrqAck

\* The same with shm.io NULL.
HandlerCrashes ==
  /\ Alive /\ ipc = "entry" /\ dev["shm"] # "open"
  /\ mpc' = "crash"
  /\ UNCHANGED <<k, dev, handler, faults, echo, spin>>

-----------------------------------------------------------------------------
\* The remote core and the UIO driver (external): every message is followed by a
\* ring.

RemotePuts ==
  /\ UNCHANGED life
  /\ E!Announce \/ E!Leave \/ E!RemoteEcho
  /\ IF toHost' = toHost THEN UNCHANGED spin ELSE P!Put

Rings ==
  /\ Alive /\ UNCHANGED <<life, echo>>
  /\ P!Ring \/ P!UioEvent

Strays ==
  /\ Alive /\ UNCHANGED <<life, echo>>
  /\ P!StrayRing

-----------------------------------------------------------------------------
Next ==
  \/ MainStep \/ AppStep \/ PollLocks
  \/ HandlerEnters \/ HandlerRuns \/ HandlerCrashes
  \/ RemotePuts \/ Rings \/ Strays

Spec == Init /\ [][Next]_vars

(***************************************************************************)
(* Both threads run and get irq_lock as in SpinPoll; the remote core       *)
(* announces itself, answers and rings.  Nothing is assumed of the calls   *)
(* that may fail or of invalid interrupts.                                 *)
(***************************************************************************)
FairSpec ==
  /\ Spec
  /\ WF_vars(MainStep) /\ SF_vars(Undo \/ CleanUpRemove)
  /\ WF_vars(AppStep) /\ SF_vars(PollLocks)
  /\ SF_vars(HandlerEnters) /\ WF_vars(HandlerRuns \/ HandlerCrashes)
  /\ WF_vars(~left /\ E!Announce /\ RemotePuts)
  /\ WF_vars(E!RemoteEcho /\ RemotePuts)
  /\ WF_vars(UNCHANGED <<life, echo>> /\ Alive /\ P!Ring)
  /\ WF_vars(UNCHANGED <<life, echo>> /\ Alive /\ P!UioEvent)

-----------------------------------------------------------------------------
(***************************************************************************)
(* The test runs on the platform that was made for it: from its start to   *)
(* its end main is in app, the handler is registered, and the devices that *)
(* it, its notifications and the handler use are open.                     *)
(***************************************************************************)
RunsWithDevices ==
  apc # "idle" =>
    mpc = "app" /\ handler /\ \A d \in Dev \ {"rsc"} : dev[d] = "open"

(***************************************************************************)
(* Where no call fails, or one of those that platform_create_rpmsg_vdev    *)
(* undoes, main releases what it holds: it leaves through the exit, with   *)
(* the handler unregistered before its device is closed, no device closed  *)
(* twice and all but `shm` closed.  The one way to crash that remains is   *)
(* an interrupt handled before `shm` is open.                              *)
(***************************************************************************)
ReleasedAtExit ==
  /\ TypeOK
  /\ faults \subseteq {"vdev"} =>
       /\ mpc = "crash" => ipc = "entry" /\ dev["shm"] = "null"
       /\ mpc = "exit" => ~handler /\ {d \in Dev : dev[d] # "closed"} = {"shm"}

(***************************************************************************)
(* Every execution of the program ends, as long as the remote endpoint     *)
(* stays: each echo reaches app through vring, interrupt, flag and poll,   *)
(* however the rings fall, and no call of platform_poll waits for a ring   *)
(* whose message an earlier call has consumed.                             *)
(***************************************************************************)
ProgramEnds == <>(~Alive \/ left)

(***************************************************************************)
(* "Get a message from the mailbox" (rzt2_rproc.c:105): whenever the       *)
(* handler reads the message, `shm`, which holds it, is open.              *)
(***************************************************************************)
MessageReadable == ipc = "entry" /\ Alive => dev["shm"] = "open"
=============================================================================
