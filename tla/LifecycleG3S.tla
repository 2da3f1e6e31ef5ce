---------------------------- MODULE LifecycleG3S ----------------------------
(***************************************************************************)
(* The RZ/G3S rpmsg sample from its menus' point of view: main opens the   *)
(* clock device for the firmware menu, initialises one platform for each   *)
(* of four channels, runs communication threads on them and cleans up.     *)
(* The four remoteproc instances share the IPI devices, their interrupts   *)
(* and the memory devices: the first initialisation opens them and the     *)
(* first removal closes them.  Here are the device pointers, what is       *)
(* registered, and every call that may fail; what the threads say to each  *)
(* other is in IpiPoll and EchoTest.                                       *)
(***************************************************************************)
EXTENDS Naturals, FiniteSets

CONSTANT Fail           \* the kinds of calls that may fail

Kind == {"alloc",       \* metal_allocate_memory
         "open",        \* metal_device_open
         "noio",        \* metal_device_io_region: the device has no such region
         "irq",         \* metal_irq_register
         "map",         \* remoteproc_mmap, remoteproc_set_rsc_table
         "virtio",      \* remoteproc_create_virtio
         "vdev"}        \* a later call of platform_create_rpmsg_vdev

ASSUME FailAssumption == Fail \subseteq Kind

\* ids[0 .. 3]: the channels 0 and 1 of CM33, then those of CM33_FPU.
Ids == 0 .. 3
Ipi == {"mbx", "receiver1", "receiver2", "cpg"}
Receiver == {"receiver1", "receiver2"}
Memory == {"rsc", "ctl0", "shm0", "ctl1", "shm1", "shm"}
Dev == Ipi \cup Memory

VARIABLES
  pc,              \* where main is
  k,               \* the loop counter: ids[k] is initialised or cleaned up
  args,            \* the program was started with arguments
  cm33_running,
  dev,             \* dev[d]: the pointer to d's libmetal device
  handlers,        \* the receivers whose interrupt has rz_proc_irq_handler
  initialized,     \* and ipi[UIO_MBX].registered, which never exceeds 1
  vr_info,         \* vr_info[j]: instance j has its memory information
  platform,        \* platform[j]: ids[j].platform points to instance j
  g_rsc_table,     \* it points to the resource table
  thread,          \* thread[j]: where the communication thread of ids[j] is
  faults           \* history: the kinds of calls that have failed

mainVars == <<k, args, cm33_running>>
procVars == <<handlers, initialized, vr_info, platform, g_rsc_table>>
vars == <<pc, k, args, cm33_running, dev, handlers, initialized, vr_info, platform,
          g_rsc_table, thread, faults>>

PC == {"menu1", "choice1", "create", "ipi", "irq", "vrinfo", "memory", "add", "map",
       "undo", "menu2", "join", "cleanup", "exit", "crash"}

TypeOK ==
  /\ pc \in PC /\ k \in Ids
  /\ args \in BOOLEAN /\ cm33_running \in BOOLEAN
  /\ dev \in [Dev -> {"null", "open", "closed"}]
  /\ handlers \subseteq Receiver /\ initialized \in BOOLEAN
  /\ vr_info \in [Ids -> BOOLEAN]
  /\ platform \in [Ids -> BOOLEAN]
  /\ g_rsc_table \in BOOLEAN
  /\ thread \in [Ids -> {"none", "start", "app"}]
  /\ faults \subseteq Fail

Init ==
  /\ args \in BOOLEAN
  /\ pc = IF args THEN "create" ELSE "menu1"
  /\ k = 0 /\ cm33_running = FALSE
  /\ dev = [d \in Dev |-> "null"]
  /\ handlers = {} /\ initialized = FALSE /\ g_rsc_table = FALSE
  /\ vr_info = [j \in Ids |-> FALSE]
  /\ platform = [j \in Ids |-> FALSE]
  /\ thread = [j \in Ids |-> "none"]
  /\ faults = {}

Goto(from, to) == pc = from /\ pc' = to
Works == UNCHANGED faults
Fails(f) == f \in Fail /\ faults' = faults \cup {f}
Set(S, s) == dev' = [d \in Dev |-> IF d \in S THEN s ELSE dev[d]]

-----------------------------------------------------------------------------
\* main: the firmware menu.

\* Each round opens the clock device anew; the error return closes nothing.
OpenCpg ==
  /\ \/ Goto("menu1", "choice1") /\ Set({"cpg"}, "open") /\ Works
     \/ Goto("menu1", "exit") /\ Fails("open") /\ UNCHANGED dev
  /\ UNCHANGED <<mainVars, procVars, thread>>

\* Choice 1 starts the remote cores, once; the device stays open.
StartCores ==
  /\ Goto("choice1", "menu1")
  /\ cm33_running' = TRUE
  /\ UNCHANGED <<k, args, dev, procVars, thread, faults>>

\* Choice 2 leads on unless the program has started the cores; ipi[UIO_CPG].dev
\* keeps the closed device.
Communicate ==
  /\ \/ ~cm33_running /\ Goto("choice1", "create") /\ Set({"cpg"}, "closed")
     \/ cm33_running  /\ Goto("choice1", "menu1") /\ UNCHANGED dev
  /\ UNCHANGED <<mainVars, procVars, thread, faults>>

\* Any other choice stops the cores and returns.
LeaveMenu1 ==
  /\ Goto("choice1", "exit")
  /\ UNCHANGED <<mainVars, dev, procVars, thread, faults>>

-----------------------------------------------------------------------------
\* platform_init of ids[k].

\* The later instances skip the devices and interrupts.
CreateProc ==
  /\ \/ Goto("create", IF initialized THEN "vrinfo" ELSE "ipi") /\ Works
     \/ Goto("create", "exit") /\ Fails("alloc")
  /\ UNCHANGED <<mainVars, dev, procVars, thread>>

\* Only when all devices are open are their pointers stored; a mailbox without I/O
\* region is closed again (err1).
OpenIpi ==
  /\ \/ Goto("ipi", "irq") /\ Set(Ipi, "open") /\ Works
     \/ Goto("ipi", "undo") /\ Fails("open") /\ UNCHANGED dev
     \/ /\ Goto("ipi", "undo") /\ Fails("noio")
        /\ dev' = [d \in Dev |-> CASE d = "mbx" -> "closed"
                                   [] d \in Ipi -> "open"
                                   [] OTHER     -> dev[d]]
  /\ UNCHANGED <<mainVars, procVars, thread>>

\* err1 of rz_proc_init: the mailbox is closed, ipi[UIO_MBX].dev keeps it.
CloseMbx(from) == Goto(from, "undo") /\ Set({"mbx"}, "closed")

\* Mutant: `initialized` is set although the second registration failed.
EnableAnyway ==
  /\ \E S \in SUBSET Receiver :
       /\ handlers' = S
       /\ IF S = Receiver THEN Works ELSE Fails("irq")
  /\ Goto("irq", "vrinfo") /\ initialized' = TRUE /\ UNCHANGED dev
  /\ UNCHANGED <<mainVars, vr_info, platform, g_rsc_table, thread>>

\* rz_enable_interrupt for both receivers; only the second result counts.
EnableInterrupts ==
  /\ \E S \in SUBSET Receiver :
       /\ handlers' = S
       /\ IF S = Receiver THEN Works ELSE Fails("irq")
       /\ \/ /\ "receiver2" \in S
             /\ Goto("irq", "vrinfo") /\ initialized' = TRUE /\ UNCHANGED dev
          \/ /\ "receiver2" \notin S
             /\ CloseMbx("irq") /\ UNCHANGED initialized
  /\ UNCHANGED <<mainVars, vr_info, platform, g_rsc_table, thread>>

\* The first instance opens the memory devices, the others find them open.
CreateVrinfo ==
  /\ \/ /\ Goto("vrinfo", IF k = 0 THEN "memory" ELSE "add") /\ Works
        /\ vr_info' = [vr_info EXCEPT ![k] = TRUE] /\ UNCHANGED dev
     \/ CloseMbx("vrinfo") /\ Fails("alloc") /\ UNCHANGED vr_info
  /\ UNCHANGED <<mainVars, handlers, initialized, platform, g_rsc_table, thread>>

\* init_memory_device_individual for each; at most one goes wrong.  One without I/O
\* region is closed, stays in info->dev and counts as opened.
OpenMemory ==
  /\ \/ Goto("memory", "add") /\ Set(Memory, "open") /\ Works
     \/ /\ Goto("memory", "add") /\ Fails("noio")
        /\ \E m \in Memory : dev' = [d \in Dev |-> CASE d = m -> "closed"
                                                     [] d \in Memory \ {m} -> "open"
                                                     [] OTHER -> dev[d]]
     \/ /\ Goto("memory", "undo") /\ Fails("open")
        /\ \E m \in Memory : dev' = [d \in Dev |-> CASE d = "mbx" -> "closed"
                                                     [] d \in Memory \ {m} -> "open"
                                                     [] OTHER -> dev[d]]
  /\ UNCHANGED <<mainVars, procVars, thread>>

\* The memory devices of instance j.
Own(j) == {"rsc", "shm"} \cup IF j % 2 = 0 THEN {"ctl0", "shm0"} ELSE {"ctl1", "shm1"}

\* add_memory_device copies the description made when the device was opened.
AddMemory ==
  /\ IF \A d \in Own(k) : dev[d] = "open" THEN Goto("add", "map") ELSE Goto("add", "crash")
  /\ UNCHANGED <<mainVars, dev, procVars, thread, faults>>

\* The first instance maps the resource table, the others reuse it; the last one
\* makes the second menu appear.
MapTable ==
  /\ \/ /\ IF k = 3 THEN Goto("map", "menu2") /\ UNCHANGED k
                    ELSE Goto("map", "create") /\ k' = k + 1
        /\ g_rsc_table' = TRUE
        /\ platform' = [platform EXCEPT ![k] = TRUE]
        /\ Works
     \/ /\ ~g_rsc_table
        /\ Goto("map", "undo") /\ Fails("map")
        /\ UNCHANGED <<k, g_rsc_table, platform>>
  /\ UNCHANGED <<args, cm33_running, dev, handlers, initialized, vr_info, thread>>

-----------------------------------------------------------------------------
\* rz_proc_remove of instance j.

\* deinit_memory_device closes the devices of all instances.
DeinitMemory(j) == IF vr_info[j] THEN {d \in Memory : dev[d] # "null"} ELSE {}

\* Mutant: the handlers stay registered.
DisableNone == UNCHANGED handlers

DisableInterrupts == handlers' = IF initialized THEN {} ELSE handlers

CloseIpi == {d \in Ipi : dev[d] # "null"}

\* Closing a device that is closed already is undefined.
Remove(j, to) ==
  LET closing == DeinitMemory(j) \cup CloseIpi IN
  /\ pc' \in IF \E d \in closing : dev[d] = "closed" THEN {to, "crash"} ELSE {to}
  /\ Set(closing, "null")
  /\ DisableInterrupts
  /\ vr_info' = [vr_info EXCEPT ![j] = FALSE]
  /\ initialized' = FALSE

\* platform_create_proc's err2; main returns without a clean-up.
Undo ==
  /\ pc = "undo"
  /\ Remove(k, "exit")
  /\ UNCHANGED <<mainVars, platform, g_rsc_table, thread, faults>>

-----------------------------------------------------------------------------
\* The second menu and the communication threads.

\* wait_input: the patterns that arguments, or the menu, can choose.
WaitInput == IF args THEN 1 .. 4 ELSE 0 .. 6

\* The threads launch_communicate creates, none for a pattern out of range.
Launched(pattern) ==
  CASE pattern \in 1 .. 4 -> {pattern - 1}
    [] pattern = 5        -> {0, 3}
    [] OTHER              -> {}

Menu2(pattern) ==
  /\ pattern # 0
  /\ Goto("menu2", "join")
  /\ thread' = [j \in Ids |-> IF j \in Launched(pattern) THEN "start" ELSE "none"]
  /\ UNCHANGED <<mainVars, dev, procVars, faults>>

\* "e", or a stop.
LeaveMenu2 ==
  /\ ~args
  /\ Goto("menu2", "cleanup")
  /\ k' = 0
  /\ UNCHANGED <<args, cm33_running, dev, procVars, thread, faults>>

\* platform_create_rpmsg_vdev, under rsc_mutex.  After remoteproc_create_virtio
\* fails a NULL vdev is removed.
CreateVdev(j) ==
  /\ thread[j] = "start" /\ pc = "join"
  /\ \/ thread' = [thread EXCEPT ![j] = "app"] /\ Works /\ UNCHANGED pc
     \/ thread' = [thread EXCEPT ![j] = "none"] /\ Fails("vdev") /\ UNCHANGED pc
     \/ pc' = "crash" /\ Fails("virtio") /\ UNCHANGED thread
  /\ UNCHANGED <<mainVars, dev, procVars>>

\* app returns, platform_release_rpmsg_vdev.
ReleaseVdev(j) ==
  /\ thread[j] = "app" /\ pc = "join"
  /\ thread' = [thread EXCEPT ![j] = "none"]
  /\ UNCHANGED <<pc, mainVars, dev, procVars, faults>>

\* With arguments there is one round.
Join ==
  /\ \A j \in Ids : thread[j] = "none"
  /\ IF args THEN Goto("join", "cleanup") /\ k' = 0
             ELSE Goto("join", "menu2") /\ UNCHANGED k
  /\ UNCHANGED <<args, cm33_running, dev, procVars, thread, faults>>

\* platform_cleanup of ids[k].
CleanUp ==
  /\ pc = "cleanup"
  /\ IF k = 3 THEN Remove(k, "exit") /\ UNCHANGED k
              ELSE Remove(k, "cleanup") /\ k' = k + 1
  /\ platform' = [platform EXCEPT ![k] = FALSE]
  /\ g_rsc_table' = FALSE
  /\ UNCHANGED <<args, cm33_running, thread, faults>>

-----------------------------------------------------------------------------
Next ==
  \/ OpenCpg \/ StartCores \/ Communicate \/ LeaveMenu1
  \/ CreateProc \/ OpenIpi \/ EnableInterrupts \/ CreateVrinfo \/ OpenMemory
  \/ AddMemory \/ MapTable \/ Undo
  \/ \E pattern \in WaitInput : Menu2(pattern)
  \/ LeaveMenu2 \/ Join \/ CleanUp
  \/ \E j \in Ids : CreateVdev(j) \/ ReleaseVdev(j)

Spec == Init /\ [][Next]_vars

-----------------------------------------------------------------------------
(***************************************************************************)
(* A communication thread runs only between the initialisation of all four *)
(* instances and the first clean-up: every device is open, every platform  *)
(* is there, and the handlers are registered, but for a first receiver     *)
(* whose error rz_proc_init has overwritten.                               *)
(***************************************************************************)
Registered ==
  /\ initialized /\ "receiver2" \in handlers
  /\ "receiver1" \in handlers \/ "irq" \in faults

ThreadsHaveDevices ==
  /\ TypeOK
  /\ (\E j \in Ids : thread[j] # "none") /\ pc # "crash" =>
       /\ Registered
       /\ \A d \in Dev : dev[d] = "open"
       /\ \A j \in Ids : platform[j] /\ vr_info[j]

(***************************************************************************)
(* The instances share their devices without a count of their users: still *)
(* no device is closed twice or used when closed, and main's exit leaves   *)
(* nothing open but the clock device of the firmware menu, as long as only *)
(* calls fail that are undone: the mapping of the resource table and those *)
(* of a communication thread.  (Every other failure reaches the mailbox or *)
(* a device without I/O region, which is closed and not forgotten.)        *)
(***************************************************************************)
ReleasedAtExit ==
  faults \subseteq {"map", "vdev"} =>
    /\ pc # "crash"
    /\ pc = "exit" =>
         /\ handlers = {} /\ ~initialized
         /\ \A d \in Dev \ {"cpg"} : dev[d] = "null"
         /\ \A j \in Ids : ~vr_info[j] /\ ~platform[j]
=============================================================================
