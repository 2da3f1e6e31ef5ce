-------------------------- MODULE LifecycleG3SProofs --------------------------
(***************************************************************************)
(* The inductive invariant of LifecycleG3S: what is open, registered and   *)
(* allocated is a function of where main is.  It holds for every choice of *)
(* the calls that fail; the exit is clean when only calls fail that are    *)
(* undone.                                                                 *)
(***************************************************************************)
EXTENDS LifecycleG3S, TLAPS

AllAre(S, s) == \A d \in S : dev[d] = s
NoInstance == \A j \in Ids : ~vr_info[j] /\ ~platform[j]
Unregistered == handlers = {} /\ ~initialized
Undoable == faults \subseteq {"map", "vdev"}

\* Before rz_proc_init of the first instance has registered the handlers.
Untouched ==
  /\ k = 0 /\ Unregistered /\ ~g_rsc_table
  /\ NoInstance /\ AllAre(Memory, "null")

Fresh ==
  pc \in {"menu1", "choice1", "ipi"} \/ (pc = "create" /\ k = 0) =>
    Untouched /\ AllAre(Ipi \ {"cpg"}, "null")

Opened == pc = "irq" => Untouched /\ AllAre(Ipi, "open")

\* While the instances are made: the devices of those that have passed
\* add_memory_device are known to be open, the others may lack a region.
Building ==
  pc \in {"vrinfo", "memory", "add", "map"} \/ (pc = "create" /\ k # 0) =>
    /\ Registered /\ AllAre(Ipi, "open")
    /\ g_rsc_table <=> k # 0
    /\ \A j \in Ids :
         /\ platform[j] <=> j < k
         /\ vr_info[j] <=> j < k \/ (j = k /\ pc \in {"memory", "add", "map"})
         /\ j < k \/ (j = k /\ pc = "map") => AllAre(Own(j), "open")
    /\ pc = "memory" => k = 0
    /\ IF pc = "memory" \/ (pc = "vrinfo" /\ k = 0)
       THEN AllAre(Memory, "null")
       ELSE "noio" \notin faults => AllAre(Memory, "open")

\* From the second menu to the first clean-up.
Standing ==
  pc \in {"menu2", "join"} \/ (pc = "cleanup" /\ k = 0) =>
    /\ Registered /\ AllAre(Dev, "open")
    /\ \A j \in Ids : platform[j] /\ vr_info[j]

\* The first removal has released what the others would.
Released ==
  pc = "cleanup" /\ k # 0 =>
    /\ Unregistered /\ AllAre(Dev, "null")
    /\ \A j \in Ids : j < k => ~platform[j] /\ ~vr_info[j]

Undoing ==
  pc = "undo" /\ Undoable =>
    /\ k = 0 /\ handlers \subseteq Receiver /\ initialized /\ AllAre(Dev, "open")
    /\ \A j \in Ids : ~platform[j] /\ (vr_info[j] <=> j = 0)

Left ==
  Undoable =>
    /\ pc # "crash"
    /\ pc = "exit" => Unregistered /\ NoInstance /\ AllAre(Dev \ {"cpg"}, "null")

Threads == (\E j \in Ids : thread[j] # "none") => pc \in {"join", "crash"}

IInv ==
  /\ TypeOK
  /\ Fresh /\ Opened /\ Building /\ Standing /\ Released /\ Undoing /\ Left /\ Threads

-----------------------------------------------------------------------------
LEMMA Devices == /\ Dev = Ipi \cup Memory /\ Ipi \cap Memory = {}
                 /\ "mbx" \in Ipi /\ "cpg" \in Ipi
                 /\ Memory = Own(0) \cup Own(1)
                 /\ \A j \in Ids : Own(j) \subseteq Memory
<1>1. Own(0) = {"rsc", "shm", "ctl0", "shm0"} /\ Own(1) = {"rsc", "shm", "ctl1", "shm1"}
  BY 0 % 2 = 0, 1 % 2 = 1 DEF Own
<1>2. \A j \in Ids : Own(j) \subseteq Memory
  BY DEF Own, Memory
<1>3. QED
  BY <1>1, <1>2 DEF Dev, Ipi, Memory

LEMMA TypeStep == TypeOK /\ [Next]_vars => TypeOK'
<1> SUFFICES ASSUME TypeOK, [Next]_vars PROVE TypeOK'
  OBVIOUS
<1> USE DEF TypeOK, PC, Ids, mainVars, procVars, Works, Fails, Set, Goto
<1>1. CASE OpenCpg \/ StartCores \/ Communicate \/ LeaveMenu1
  BY <1>1 DEF OpenCpg, StartCores, Communicate, LeaveMenu1
<1>2. CASE CreateProc \/ OpenIpi
  BY <1>2 DEF CreateProc, OpenIpi
<1>3. CASE EnableInterrupts \/ CreateVrinfo
  BY <1>3 DEF EnableInterrupts, CreateVrinfo, CloseMbx
<1>4. CASE OpenMemory \/ AddMemory \/ MapTable
  <2>1. CASE OpenMemory
    BY <2>1 DEF OpenMemory
  <2>2. CASE AddMemory
    BY <2>2 DEF AddMemory
  <2>3. CASE MapTable
    <3>1. pc' \in PC /\ k' \in Ids /\ faults' \subseteq Fail
      BY <2>3 DEF MapTable
    <3>2. platform' \in [Ids -> BOOLEAN]
      BY <2>3 DEF MapTable
    <3>3. g_rsc_table' \in BOOLEAN
      BY <2>3 DEF MapTable
    <3>4. UNCHANGED <<args, cm33_running, dev, handlers, initialized, vr_info, thread>>
      BY <2>3 DEF MapTable
    <3>5. QED
      BY <3>1, <3>2, <3>3, <3>4
  <2>4. QED
    BY <1>4, <2>1, <2>2, <2>3
<1>5. CASE Undo \/ CleanUp
  <2>1. ASSUME NEW j \in Ids, NEW to \in {"exit", "cleanup"}, Remove(j, to)
        PROVE  /\ pc' \in {"exit", "cleanup", "crash"}
               /\ dev' \in [Dev -> {"null", "open", "closed"}]
               /\ handlers' \subseteq Receiver /\ initialized' = FALSE
               /\ vr_info' \in [Ids -> BOOLEAN]
    BY <2>1 DEF Remove, DisableInterrupts
  <2>2. CASE Undo
    BY <2>1, <2>2 DEF Undo
  <2>3. CASE CleanUp
    <3>1. k' \in Ids /\ (Remove(k, "exit") \/ Remove(k, "cleanup"))
      BY <2>3 DEF CleanUp
    <3>2. /\ platform' \in [Ids -> BOOLEAN] /\ g_rsc_table' = FALSE
          /\ UNCHANGED <<args, cm33_running, thread, faults>>
      BY <2>3 DEF CleanUp
    <3>3. QED
      BY <2>1, <3>1, <3>2
  <2>4. QED
    BY <1>5, <2>2, <2>3
<1>6. ASSUME NEW pattern \in WaitInput, Menu2(pattern)
      PROVE  TypeOK'
  BY <1>6 DEF Menu2
<1>7. CASE LeaveMenu2 \/ Join
  BY <1>7 DEF LeaveMenu2, Join
<1>8. ASSUME NEW j \in Ids, CreateVdev(j) \/ ReleaseVdev(j)
      PROVE  TypeOK'
  BY <1>8 DEF CreateVdev, ReleaseVdev
<1>9. CASE UNCHANGED vars
  BY <1>9 DEF vars
<1>10. QED
  BY <1>1, <1>2, <1>3, <1>4, <1>5, <1>6, <1>7, <1>8, <1>9 DEF Next

LEMMA LifecycleInit == Init => IInv
<1> SUFFICES ASSUME Init PROVE IInv
  OBVIOUS
<1>1. TypeOK
  <2>1. pc \in PC /\ k \in Ids
    BY DEF Init, PC, Ids
  <2>2. /\ vr_info \in [Ids -> BOOLEAN] /\ platform \in [Ids -> BOOLEAN]
        /\ thread \in [Ids -> {"none", "start", "app"}]
        /\ dev \in [Dev -> {"null", "open", "closed"}]
    BY DEF Init
  <2>3. QED
    BY <2>1, <2>2 DEF Init, TypeOK
<1>2. Fresh /\ Opened /\ Building
  BY DEF Init, Fresh, Opened, Building, Untouched, Unregistered, NoInstance, AllAre, Dev
<1>3. Standing /\ Released /\ Undoing /\ Left /\ Threads
  BY DEF Init, Standing, Released, Undoing, Left, Threads
<1>4. QED
  BY <1>1, <1>2, <1>3 DEF IInv

-----------------------------------------------------------------------------
\* The parts of IInv but its types.
Rest == Fresh /\ Opened /\ Building /\ Standing /\ Released /\ Undoing /\ Left /\ Threads

LEMMA MenuStep ==
  ASSUME IInv, OpenCpg \/ StartCores \/ Communicate \/ LeaveMenu1
  PROVE  Rest'
<1> USE Devices
    DEF IInv, TypeOK, Rest, Fresh, Opened, Building, Standing, Released, Undoing, Left,
        Threads, Untouched, Unregistered, Undoable, NoInstance, AllAre, Ids, mainVars,
        procVars, Works, Fails, Set, Goto
<1>1. CASE OpenCpg
  BY <1>1 DEF OpenCpg
<1>2. CASE StartCores
  BY <1>2 DEF StartCores
<1>3. CASE Communicate
  BY <1>3 DEF Communicate
<1>4. CASE LeaveMenu1
  BY <1>4 DEF LeaveMenu1
<1>5. QED
  BY <1>1, <1>2, <1>3, <1>4

LEMMA InitStep ==
  ASSUME IInv, CreateProc \/ OpenIpi \/ EnableInterrupts \/ CreateVrinfo
  PROVE  Rest'
<1> USE Devices
    DEF IInv, TypeOK, Rest, Fresh, Opened, Building, Standing, Released, Undoing, Left,
        Threads, Untouched, Unregistered, Undoable, NoInstance, AllAre, Ids, mainVars,
        procVars, Works, Fails, Set, Goto
<1>1. CASE CreateProc
  BY <1>1 DEF CreateProc, Registered
<1>2. CASE OpenIpi
  BY <1>2 DEF OpenIpi
<1>3. CASE EnableInterrupts
  BY <1>3 DEF EnableInterrupts, Registered, Receiver, CloseMbx
<1>4. CASE CreateVrinfo
  BY <1>4 DEF CreateVrinfo, Registered, CloseMbx
<1>5. QED
  BY <1>1, <1>2, <1>3, <1>4

LEMMA MemoryStep ==
  ASSUME IInv, OpenMemory \/ AddMemory \/ MapTable
  PROVE  Rest'
<1> USE Devices
    DEF IInv, TypeOK, Rest, Fresh, Opened, Building, Standing, Released, Undoing, Left,
        Threads, Untouched, Unregistered, Undoable, NoInstance, AllAre, Ids, mainVars,
        procVars, Works, Fails, Set, Goto
<1>1. CASE OpenMemory
  BY <1>1 DEF OpenMemory, Registered
<1>2. CASE AddMemory
  BY <1>2 DEF AddMemory, Registered
<1>3. CASE MapTable
  BY <1>3 DEF MapTable, Registered
<1>4. QED
  BY <1>1, <1>2, <1>3

LEMMA RemoveStep ==
  ASSUME IInv, Undo \/ CleanUp
  PROVE  Rest'
<1> USE Devices
    DEF IInv, TypeOK, Rest, Fresh, Opened, Building, Standing, Released, Undoing, Left,
        Threads, Untouched, Unregistered, Undoable, NoInstance, AllAre, Ids, mainVars,
        procVars, Works, Fails, Set, Goto, Remove, DisableInterrupts, DeinitMemory,
        CloseIpi
<1>1. CASE Undo
  BY <1>1 DEF Undo
<1>2. CASE CleanUp
  BY <1>2 DEF CleanUp, Registered
<1>3. QED
  BY <1>1, <1>2

LEMMA ThreadStep ==
  ASSUME IInv,
         \/ \E pattern \in WaitInput : Menu2(pattern)
         \/ LeaveMenu2 \/ Join
         \/ \E j \in Ids : CreateVdev(j) \/ ReleaseVdev(j)
         \/ UNCHANGED vars
  PROVE  Rest'
<1> USE DEF IInv, TypeOK, Rest, Fresh, Opened, Building, Standing, Released, Undoing, Left,
        Threads, Untouched, Unregistered, Undoable, NoInstance, AllAre, Ids, mainVars,
        procVars, Works, Fails, Set, Goto, Registered
<1>1. ASSUME NEW pattern \in WaitInput, Menu2(pattern)
      PROVE  Rest'
  BY <1>1 DEF Menu2
<1>2. CASE LeaveMenu2
  BY <1>2 DEF LeaveMenu2
<1>3. CASE Join
  BY <1>3 DEF Join
<1>4. ASSUME NEW j \in Ids, CreateVdev(j)
      PROVE  Rest'
  BY <1>4 DEF CreateVdev
<1>5. ASSUME NEW j \in Ids, ReleaseVdev(j)
      PROVE  Rest'
  BY <1>5 DEF ReleaseVdev
<1>6. CASE UNCHANGED vars
  BY <1>6 DEF vars
<1>7. QED
  BY <1>1, <1>2, <1>3, <1>4, <1>5, <1>6

LEMMA LifecycleStep == IInv /\ [Next]_vars => IInv'
  BY TypeStep, MenuStep, InitStep, MemoryStep, RemoveStep, ThreadStep
  DEF IInv, Rest, Next

LEMMA LifecycleInvariant == Spec => []IInv
  BY LifecycleInit, LifecycleStep, PTL DEF Spec

(***************************************************************************)
(* Whatever calls fail, a communication thread meets only initialised      *)
(* platforms, open devices and registered handlers.                        *)
(***************************************************************************)
THEOREM ThreadsCorrect == Spec => []ThreadsHaveDevices
<1>1. IInv => ThreadsHaveDevices
  BY DEF IInv, ThreadsHaveDevices, Threads, Standing, AllAre
<1>2. QED
  BY <1>1, LifecycleInvariant, PTL

(***************************************************************************)
(* Whatever else is chosen in the menus, the exit after calls that are     *)
(* undone leaves no handler, no device but the clock's and no instance.    *)
(***************************************************************************)
THEOREM ReleaseCorrect == Spec => []ReleasedAtExit
<1>1. IInv => ReleasedAtExit
  BY DEF IInv, ReleasedAtExit, Left, Undoable, Unregistered, NoInstance, AllAre
<1>2. QED
  BY <1>1, LifecycleInvariant, PTL
=============================================================================
