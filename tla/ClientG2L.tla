------------------------------ MODULE ClientG2L ------------------------------
(***************************************************************************)
(* The whole rpmsg client of RZ/G2L: main initialises a platform for each  *)
(* of two channels of CM33, runs the echo test (EchoTest) from its menu,   *)
(* one thread after the other, and cleans up.  The thread sleeps in        *)
(* platform_poll on one condition variable and one flag; the interrupt     *)
(* handler is open from its registration to its removal, whether a thread  *)
(* runs or not.                                                            *)
(***************************************************************************)
EXTENDS Naturals, Sequences

CONSTANTS
  Num, Cap, Runs,       \* as in EchoTest
  Fail                  \* what may go wrong

Kind == {"alloc",       \* metal_allocate_memory
         "open",        \* metal_device_open
         "noio",        \* metal_device_io_region: the device has no such region
         "irq",         \* metal_irq_register
         "map",         \* remoteproc_mmap, remoteproc_set_rsc_table
         "virtio",      \* remoteproc_create_virtio
         "vdev",        \* a later call of platform_create_rpmsg_vdev
         "choice"}      \* the menu's user enters 3

ASSUME FailAssumption == Fail \subseteq Kind
ASSUME SizeAssumption == Num \in Nat \ {0} /\ Cap \in Nat \ {0} /\ Runs \in Nat

Ids == 0 .. 1
Memory == {"areas", "shm"}      \* "areas": resource table and vrings, of one kind
Dev == {"ipi"} \cup Memory

VARIABLES
  mpc,                  \* where main is
  k,                    \* ids[k] is initialised or cleaned up
  dev,                  \* dev[d]: the pointer to d's libmetal device
  handler,              \* rz_proc_irq_handler is registered
  registered,           \* ipi.registered
  vr_info,              \* vr_info[j]: instance j has its memory information
  platform,             \* platform[j]: ids[j].platform points to instance j
  thread,               \* the communication thread: "none", "start" or "app"
  sighandled,
  faults,               \* history: what has gone wrong
  hpc,                  \* where stop_handler is, on top of main
  apc, run, num, i, expect_rnum, rnum, err_cnt, force_stop, announced, remote,
  left, toRemote, toHost, validated,            \* EchoTest; apc is its pc
  ring, line, msgValid, event,                  \* as in IpiPoll, ring is its peer
  sync, irqLock, mutex,
  ppc,                  \* where platform_poll is, "out" when not called
  ipc                   \* where libmetal's interrupt thread is

main == <<mpc, k, dev, handler, registered, vr_info, platform, thread, faults>>
stop == <<sighandled, hpc>>
echo == <<apc, run, num, i, expect_rnum, rnum, err_cnt, force_stop, announced,
          remote, left, toRemote, toHost, validated>>
peer == <<ring, line, msgValid, event>>
lock == <<sync, irqLock, mutex>>
vars == <<main, stop, echo, peer, lock, ppc, ipc>>

E == INSTANCE EchoTest WITH pc <- apc, ThreadLocal <- FALSE

TypeOK ==
  /\ mpc \in {"create", "ipi", "irq", "vrinfo", "memory", "add", "map", "undo",
              "undo_irq", "menu", "join", "cleanup", "cleanup_irq", "exit", "crash"}
  /\ k \in Ids /\ registered \in 0 .. 2
  /\ dev \in [Dev -> {"null", "open", "closed"}]
  /\ handler \in BOOLEAN /\ sighandled \in BOOLEAN
  /\ vr_info \in [Ids -> BOOLEAN] /\ platform \in [Ids -> BOOLEAN]
  /\ thread \in {"none", "start", "app"}
  /\ faults \subseteq Fail
  /\ hpc \in {"none", "mutex_lock", "signal", "done"}
  /\ ring \in {"idle", "ring"}
  /\ line \in BOOLEAN /\ msgValid \in BOOLEAN /\ event \in BOOLEAN /\ sync \in BOOLEAN
  /\ irqLock \in {"free", "client", "irq"}
  /\ mutex \in {"free", "client", "irq", "stop"}
  /\ ppc \in {"out", "check", "irq_lock", "test", "serve", "mutex_lock", "locked",
              "waiting", "woken", "unlock"}
  /\ ipc \in {"poll", "entry", "read", "mutex_lock", "signal", "ack"}
  /\ E!TypeOK

\* The flag starts as rz_proc_init sets it: nothing reads it before.
Init ==
  /\ mpc = "create" /\ k = 0
  /\ dev = [d \in Dev |-> "null"]
  /\ handler = FALSE /\ registered = 0
  /\ vr_info = [j \in Ids |-> FALSE] /\ platform = [j \in Ids |-> FALSE]
  /\ thread = "none" /\ sighandled = FALSE /\ hpc = "none" /\ faults = {}
  /\ ring = "idle" /\ line = FALSE /\ msgValid = FALSE /\ event = FALSE
  /\ sync = TRUE /\ irqLock = "free" /\ mutex = "free"
  /\ ppc = "out" /\ ipc = "poll"
  /\ E!Init

Alive == mpc \notin {"exit", "crash"}
Goto(from, to) == hpc \in {"none", "done"} /\ mpc = from /\ mpc' = to
Works == UNCHANGED faults
Fails(f) == f \in Fail /\ faults' = faults \cup {f}
Is(d, s) == dev' = [dev EXCEPT ![d] = s]
Outside == UNCHANGED <<stop, echo, peer, lock, ppc, ipc>>

-----------------------------------------------------------------------------
\* platform_init of ids[k].

CreateProc ==
  /\ \/ Goto("create", IF registered = 0 THEN "ipi" ELSE "irq") /\ Works
     \/ Goto("create", "exit") /\ Fails("alloc")
  /\ UNCHANGED <<k, dev, handler, registered, vr_info, platform, thread>> /\ Outside

\* err1 of rz_proc_init closes the device and leaves ipi.dev set.
CloseIpi(from) == Goto(from, "undo") /\ Is("ipi", "closed")

OpenIpi ==
  /\ \/ Goto("ipi", "irq") /\ Is("ipi", "open") /\ Works
     \/ Goto("ipi", "undo") /\ Fails("open") /\ UNCHANGED dev
     \/ CloseIpi("ipi") /\ Fails("noio")
  /\ UNCHANGED <<k, handler, registered, vr_info, platform, thread>> /\ Outside

\* Only the first instance registers the handler; each counts.
EnableInterrupt ==
  /\ \/ /\ Goto("irq", "vrinfo") /\ Works /\ UNCHANGED dev
        /\ handler' = TRUE /\ registered' = registered + 1
     \/ /\ registered = 0
        /\ CloseIpi("irq") /\ Fails("irq")
        /\ UNCHANGED <<handler, registered>>
  /\ UNCHANGED <<k, vr_info, platform, thread>> /\ Outside

CreateVrinfo ==
  /\ \/ /\ Goto("vrinfo", IF k = 0 THEN "memory" ELSE "add") /\ Works /\ UNCHANGED dev
        /\ vr_info' = [vr_info EXCEPT ![k] = TRUE]
     \/ CloseIpi("vrinfo") /\ Fails("alloc") /\ UNCHANGED vr_info
  /\ UNCHANGED <<k, handler, registered, platform, thread>> /\ Outside

\* A device without I/O region is closed, stays in info->dev, counts as opened.
OpenMemory ==
  /\ \/ /\ Goto("memory", "add") /\ Works
        /\ dev' = [dev EXCEPT !["areas"] = "open", !["shm"] = "open"]
     \/ /\ Goto("memory", "add") /\ Fails("noio")
        /\ \E m \in Memory :
             dev' = [d \in Dev |-> CASE d = m -> "closed"
                                     [] d \in Memory \ {m} -> "open"
                                     [] OTHER -> dev[d]]
     \/ /\ Goto("memory", "undo") /\ Fails("open")
        /\ \E m \in Memory :
             dev' = [d \in Dev |-> CASE d = "ipi" -> "closed"
                                     [] d = m -> "null" [] OTHER -> "open"]
  /\ UNCHANGED <<k, handler, registered, vr_info, platform, thread>> /\ Outside

\* add_memory_device copies the description made when the device was opened.
AddMemory ==
  /\ IF \A m \in Memory : dev[m] = "open" THEN Goto("add", "map") ELSE Goto("add", "crash")
  /\ UNCHANGED <<k, dev, handler, registered, vr_info, platform, thread, faults>>
  /\ Outside

\* The first instance maps the resource table, the second reuses it.
MapTable ==
  /\ \/ /\ IF k = 1 THEN Goto("map", "menu") /\ UNCHANGED k
                    ELSE Goto("map", "create") /\ k' = k + 1
        /\ Works
        /\ platform' = [platform EXCEPT ![k] = TRUE]
     \/ k = 0 /\ Goto("map", "undo") /\ Fails("map") /\ UNCHANGED <<k, platform>>
  /\ UNCHANGED <<dev, handler, registered, vr_info, thread>> /\ Outside

-----------------------------------------------------------------------------
\* rz_proc_remove of ids[k], for a failed initialisation or a clean-up.

\* deinit_memory_device closes the devices of both instances; on the count of the
\* other instance nothing is released, its own memory information neither.
DeinitMemory(from, next, to) ==
  \/ /\ registered > 1
     /\ Goto(from, to)
     /\ registered' = registered - 1
     /\ UNCHANGED <<dev, vr_info>>
  \/ /\ registered <= 1
     /\ mpc = from /\ hpc \in {"none", "done"}
     /\ mpc' \in IF vr_info[k] /\ "closed" \in {dev["areas"], dev["shm"]}
                 THEN {next, "crash"} ELSE {next}
     /\ dev' = [d \in Dev |-> IF d \in Memory /\ vr_info[k] THEN "null" ELSE dev[d]]
     /\ vr_info' = [vr_info EXCEPT ![k] = FALSE]
     /\ UNCHANGED registered

\* Mutant: a device is closed and its handler not unregistered.
DisableNothing(from, to) ==
  /\ Goto(from, to)
  /\ registered' = 0 /\ Is("ipi", "closed")
  /\ UNCHANGED handler

\* rz_disable_interrupt; unregistering takes irq_lock.  A device closed before is
\* used and closed again: undefined.
DisableInterrupt(from, to) ==
  \/ /\ dev["ipi"] = "null" /\ Goto(from, to)
     /\ UNCHANGED <<dev, handler, registered>>
  \/ /\ dev["ipi"] = "closed" /\ (Goto(from, to) \/ Goto(from, "crash"))
     /\ registered' = 0 /\ UNCHANGED <<dev, handler>>
  \/ /\ dev["ipi"] = "open" /\ irqLock = "free" /\ Goto(from, to)
     /\ registered' = 0 /\ handler' = FALSE /\ Is("ipi", "closed")

\* main returns from a failed initialisation without a clean-up.
Undo ==
  /\ \/ DeinitMemory("undo", "undo_irq", "exit") /\ UNCHANGED handler
     \/ DisableInterrupt("undo_irq", "exit") /\ UNCHANGED vr_info
  /\ UNCHANGED <<k, platform, thread, faults>> /\ Outside

CleanUp ==
  /\ \/ /\ DeinitMemory("cleanup", "cleanup_irq", "cleanup") /\ UNCHANGED handler
        /\ k' = IF registered > 1 THEN k + 1 ELSE k
     \/ DisableInterrupt("cleanup_irq", "exit") /\ UNCHANGED <<k, vr_info>>
  /\ platform' = [platform EXCEPT ![k] = FALSE]
  /\ UNCHANGED <<thread, faults>> /\ Outside

-----------------------------------------------------------------------------
\* The menu and the thread's frame.

\* "e", or a stop.
LeaveMenu ==
  /\ Goto("menu", "cleanup") /\ k' = 0
  /\ UNCHANGED <<dev, handler, registered, vr_info, platform, thread, faults>> /\ Outside

\* Mutant: main does not join the thread.
LaunchDetached ==
  /\ ~force_stop /\ thread = "none"
  /\ \/ Goto("menu", "menu") /\ thread' = "start" /\ Works
     \/ Goto("menu", "crash") /\ UNCHANGED thread /\ Fails("choice")
  /\ UNCHANGED <<k, dev, handler, registered, vr_info, platform>> /\ Outside

\* launch_communicate lets the choice 3 pass and reads beyond ids.
Launch ==
  /\ ~force_stop
  /\ \/ Goto("menu", "join") /\ thread' = "start" /\ Works
     \/ Goto("menu", "crash") /\ UNCHANGED thread /\ Fails("choice")
  /\ UNCHANGED <<k, dev, handler, registered, vr_info, platform>> /\ Outside

Join ==
  /\ thread = "none" /\ Goto("join", "menu")
  /\ UNCHANGED <<k, dev, handler, registered, vr_info, platform, thread, faults>>
  /\ Outside

\* platform_create_rpmsg_vdev; a NULL vdev is removed.
CreateVdev ==
  /\ thread = "start"
  /\ \/ thread' = "app" /\ Works /\ E!Start /\ UNCHANGED mpc
     \/ thread' = "none" /\ Fails("vdev") /\ UNCHANGED <<mpc, echo>>
     \/ mpc' = "crash" /\ Fails("virtio") /\ UNCHANGED <<thread, echo>>
  /\ UNCHANGED <<k, dev, handler, registered, vr_info, platform, stop, peer, lock, ppc,
                 ipc>>

ReleaseVdev ==
  /\ thread = "app" /\ apc = "idle" /\ thread' = "none"
  /\ UNCHANGED <<mpc, k, dev, handler, registered, vr_info, platform, faults>> /\ Outside

MainStep ==
  \/ CreateProc \/ OpenIpi \/ EnableInterrupt \/ CreateVrinfo \/ OpenMemory
  \/ AddMemory \/ MapTable \/ Undo \/ CleanUp \/ LeaveMenu \/ Launch \/ Join
  \/ CreateVdev \/ ReleaseVdev

-----------------------------------------------------------------------------
\* app and platform_poll.

\* payload_init and rpmsg_create_ept, then register_handler.
AppStarts ==
  /\ Alive /\ UNCHANGED <<main, hpc, peer, lock, ppc, ipc>>
  /\ \/ E!PayloadInit /\ UNCHANGED sighandled
     \/ E!CreateEpt /\ sighandled' = (sighandled \/ apc' = "bind")

\* The loops call platform_poll, and rpmsg_send is followed by a call of it.
AppPolls ==
  /\ ppc' = "check" /\ E!Polls
  /\ UNCHANGED <<main, stop, peer, lock, ipc>>

AppSends ==
  /\ ppc' = "check" /\ E!Send
  /\ UNCHANGED <<main, stop, peer, lock, ipc>>

AppRuns ==
  /\ ppc = "out" /\ UNCHANGED <<main, stop, peer, lock, ppc, ipc>>
  /\ \/ E!Bound \/ E!SendFails \/ E!AllSent \/ E!Echoed \/ E!NextPayload
     \/ E!Report \/ E!Shutdown

PollGoto(from, to) == ppc = from /\ ppc' = to

\* A stop ends platform_poll, whatever the vrings hold.
PollCheck ==
  /\ \/ force_stop  /\ PollGoto("check", "out")      /\ E!PollReturns
     \/ ~force_stop /\ PollGoto("check", "irq_lock") /\ UNCHANGED echo
  /\ UNCHANGED <<main, stop, peer, lock, ipc>>

PollIrqLock ==
  /\ PollGoto("irq_lock", "test") /\ irqLock = "free" /\ irqLock' = "client"
  /\ UNCHANGED <<main, stop, echo, peer, sync, mutex, ipc>>

PollTest ==
  /\ PollGoto("test", IF sync THEN "mutex_lock" ELSE "serve")
  /\ sync' = TRUE /\ irqLock' = "free"
  /\ UNCHANGED <<main, stop, echo, peer, mutex, ipc>>

\* Mutant: the callback of one message is run for one notification.
PollServeOne ==
  /\ \/ PollGoto("serve", "out") /\ E!Receive
     \/ toHost = <<>> /\ PollGoto("serve", "out") /\ E!PollReturns
  /\ UNCHANGED <<main, stop, peer, lock, ipc>>

\* remoteproc_get_notification runs the callbacks until the vrings are empty.
PollServe ==
  /\ \/ ppc = "serve" /\ E!Receive /\ UNCHANGED ppc
     \/ toHost = <<>> /\ PollGoto("serve", "out") /\ E!PollReturns
  /\ UNCHANGED <<main, stop, peer, lock, ipc>>

\* Mutant: the mutex is kept while the client waits.
PollSleepLocked ==
  /\ \/ PollGoto("mutex_lock", "locked") /\ mutex = "free" /\ mutex' = "client"
     \/ PollGoto("locked", "waiting") /\ UNCHANGED mutex
     \/ PollGoto("waiting", "woken") /\ UNCHANGED mutex
     \/ PollGoto("woken", "unlock") /\ mutex' = "client"
     \/ PollGoto("unlock", "check") /\ mutex' = "free"
  /\ UNCHANGED <<main, stop, echo, peer, sync, irqLock, ipc>>

\* Mutant: woken up is taken for notified; the flag is not tested again.
PollSleepServe ==
  /\ \/ PollGoto("mutex_lock", "locked") /\ mutex = "free" /\ mutex' = "client"
     \/ PollGoto("locked", "waiting") /\ mutex' = "free"
     \/ PollGoto("waiting", "woken") /\ UNCHANGED mutex
     \/ PollGoto("woken", "unlock") /\ mutex = "free" /\ mutex' = "client"
     \/ PollGoto("unlock", "serve") /\ mutex' = "free"
  /\ UNCHANGED <<main, stop, echo, peer, sync, irqLock, ipc>>

\* pthread_mutex_lock, pthread_cond_wait, pthread_mutex_unlock
PollSleep ==
  /\ \/ PollGoto("mutex_lock", "locked") /\ mutex = "free" /\ mutex' = "client"
     \/ PollGoto("locked", "waiting") /\ mutex' = "free"
     \/ PollGoto("waiting", "woken") /\ UNCHANGED mutex
     \/ PollGoto("woken", "unlock") /\ mutex = "free" /\ mutex' = "client"
     \/ PollGoto("unlock", "check") /\ mutex' = "free"
  /\ UNCHANGED <<main, stop, echo, peer, sync, irqLock, ipc>>

PollStep ==
  Alive /\ (PollCheck \/ PollIrqLock \/ PollTest \/ PollServe \/ PollSleep)

AppStep == Alive /\ (AppStarts \/ AppPolls \/ AppSends \/ AppRuns)

\* pthread_cond_signal
Signalled == ppc' = IF ppc = "waiting" THEN "woken" ELSE ppc

-----------------------------------------------------------------------------
\* libmetal's interrupt thread and rz_proc_irq_handler.

IrqGoto(from, to) == ipc = from /\ ipc' = to

IrqEnter ==
  /\ IrqGoto("poll", "entry") /\ handler /\ dev["ipi"] = "open" /\ event
  /\ irqLock = "free" /\ irqLock' = "irq"
  /\ UNCHANGED <<main, stop, echo, peer, sync, mutex, ppc>>

\* The interrupt is cleared through ipi.io, the message read through shm.io.
IrqClear ==
  /\ IrqGoto("entry", "read") /\ dev["ipi"] = "open"
  /\ line' = FALSE
  /\ UNCHANGED <<main, stop, echo, ring, msgValid, event, lock, ppc>>

IrqRead ==
  /\ dev["shm"] = "open"
  /\ \/ /\ msgValid /\ IrqGoto("read", "mutex_lock")
        /\ sync' = FALSE /\ UNCHANGED irqLock
     \/ /\ ~msgValid /\ IrqGoto("read", "poll")
        /\ irqLock' = "free" /\ UNCHANGED sync
  /\ UNCHANGED <<main, stop, echo, peer, mutex, ppc>>

IrqCrash ==
  /\ \/ ipc = "entry" /\ dev["ipi"] # "open"
     \/ ipc = "read" /\ dev["shm"] # "open"
  /\ mpc' = "crash"
  /\ UNCHANGED <<k, dev, handler, registered, vr_info, platform, thread, faults>>
  /\ Outside

IrqSignal ==
  /\ \/ /\ IrqGoto("mutex_lock", "signal") /\ mutex = "free"
        /\ mutex' = "irq" /\ UNCHANGED ppc
     \/ /\ IrqGoto("signal", "ack")
        /\ mutex' = "free" /\ Signalled
  /\ UNCHANGED <<main, stop, echo, peer, sync, irqLock>>

IrqAck ==
  /\ IrqGoto("ack", "poll") /\ event' = FALSE /\ irqLock' = "free"
  /\ UNCHANGED <<main, stop, echo, ring, line, msgValid, sync, mutex, ppc>>

IrqStep ==
  Alive /\ (IrqEnter \/ IrqClear \/ IrqRead \/ IrqCrash \/ IrqSignal \/ IrqAck)

-----------------------------------------------------------------------------
\* stop_handler on top of main, for one signal.

StopHandler ==
  /\ Alive
  /\ \/ /\ sighandled /\ hpc = "none" /\ hpc' = "mutex_lock"
        /\ E!Stop
        /\ UNCHANGED <<mutex, ppc>>
     \/ /\ hpc = "mutex_lock" /\ mutex = "free" /\ mutex' = "stop" /\ hpc' = "signal"
        /\ UNCHANGED <<echo, ppc>>
     \/ /\ hpc = "signal" /\ mutex' = "free" /\ hpc' = "done" /\ Signalled
        /\ UNCHANGED echo
  /\ UNCHANGED <<main, sighandled, peer, sync, irqLock, ipc>>

-----------------------------------------------------------------------------
\* The remote core and the UIO driver (external).

RemotePuts ==
  /\ Alive /\ ring = "idle"
  /\ E!Announce \/ E!Leave \/ E!RemoteEcho
  /\ ring' = IF toHost' = toHost THEN "idle" ELSE "ring"
  /\ UNCHANGED <<main, stop, line, msgValid, event, lock, ppc, ipc>>

\* A ring for what it has put, or, never over an unread message, an invalid one.
Rings ==
  /\ Alive
  /\ \/ ring = "ring" /\ msgValid' = TRUE
     \/ ring = "idle" /\ ~line /\ ~event /\ msgValid' = FALSE
  /\ ring' = "idle" /\ line' = TRUE
  /\ UNCHANGED <<main, stop, echo, event, lock, ppc, ipc>>

UioEvent ==
  /\ Alive /\ line /\ ~event /\ event' = TRUE
  /\ UNCHANGED <<main, stop, echo, ring, line, msgValid, lock, ppc, ipc>>

-----------------------------------------------------------------------------
Next ==
  MainStep \/ AppStep \/ PollStep \/ IrqStep \/ StopHandler
    \/ RemotePuts \/ Rings \/ UioEvent

Spec == Init /\ [][Next]_vars

-----------------------------------------------------------------------------
Owed == line \/ event \/ ~sync
Stands == Owed \/ ppc = "serve"

(***************************************************************************)
(* No ring is lost between mailbox, UIO event and flag, although the       *)
(* handler takes interrupts of any time, in and between the runs of the    *)
(* test: what the remote core has put in a vring and rung for is found by  *)
(* a thread that polls.                                                    *)
(***************************************************************************)
NoLostRing ==
  toHost # <<>> /\ ring = "idle" => Stands

(***************************************************************************)
(* The mutex is owned by exactly the one of client, handler and            *)
(* stop_handler that is in its critical section, and the client, unlike    *)
(* the handler, never asks for it with irq_lock in its hands: the order of *)
(* the two locks is the same for all, so that nobody waits in a circle.    *)
(***************************************************************************)
MutexOwner ==
  /\ mutex = "client" <=> ppc \in {"locked", "unlock"}
  /\ mutex = "irq" <=> ipc = "signal"
  /\ mutex = "stop" <=> hpc = "signal"
  /\ ppc \in {"mutex_lock", "woken"} => irqLock # "client"

ClientIs ==
  IF ppc = "serve" THEN "looking" ELSE IF thread = "app" THEN "there" ELSE "away"

Bell == INSTANCE Doorbell WITH
          Target <- {0},            \* the channel's one condition and flag
          work   <- [t \in {0} |-> toHost # <<>>],
          owed   <- [t \in {0} |-> Owed \/ ring = "ring"],
          client <- [t \in {0} |-> ClientIs]

(***************************************************************************)
(* The whole client is a doorbell as far as safety goes: a ring that comes *)
(* in or between the runs of the test waits in the flag for the next       *)
(* thread that polls, and only that thread's answer uses it up, with one   *)
(* look at the vrings; no thread looks that is merely woken, or that has   *)
(* ended.  So it is whatever main, its signal handler and the failures of  *)
(* calls do in between, a handler that is removed included.                *)
(***************************************************************************)
BellSafeSpec == Bell!SafeSpec

(***************************************************************************)
(* While a thread runs the test both instances stand, the handler is       *)
(* registered and the devices are open; so neither app nor the handler     *)
(* meets a device that is not.                                             *)
(***************************************************************************)
RunsWithDevices ==
  /\ TypeOK
  /\ thread # "none" /\ Alive =>
       /\ handler /\ registered = 2
       /\ \A d \in Dev : dev[d] = "open"
       /\ \A j \in Ids : platform[j]

(***************************************************************************)
(* As long as only calls fail that are undone, main leaves with the        *)
(* handler unregistered and each device closed once; the memory            *)
(* information of the first instance, on whose clean-up the second still   *)
(* counts, is not freed.  The one way to crash that remains is the handler *)
(* reading its message before `shm` is open, or, in the clean-up, after    *)
(* deinit_memory_device has closed it and before rz_disable_interrupt.     *)
(***************************************************************************)
ReleasedAtExit ==
  faults \subseteq {"map", "vdev"} =>
    /\ mpc = "crash" => ipc = "read" /\ dev["shm"] = "null"
    /\ mpc = "exit" =>
         /\ ~handler /\ dev["ipi"] = "closed"
         /\ \A m \in Memory : dev[m] = "null"
         /\ ~vr_info[1] /\ \A j \in Ids : ~platform[j]
=============================================================================
