------------------------------ MODULE SpinPoll ------------------------------
(***************************************************************************)
(* The client of the RZ/N2H and RZ/T2H rpmsg sample: one thread that spins *)
(* in platform_poll, yielding the CPU, and libmetal's interrupt thread in  *)
(* rzn2_proc_irq_handler.  No condition variable, no stop_handler: SIGINT  *)
(* ends the process.  It implements the doorbell with its liveness, which  *)
(* IpiPoll's sleeping client does not.                                     *)
(***************************************************************************)
CONSTANT Client         \* the thread, and the doorbell it serves

VARIABLES
  fresh,                \* the vrings hold buffers nobody processed
  peer,                 \* "idle", or "ring" between a buffer and its ring
  line,                 \* the software interrupt is pending at the controller
  msgValid,             \* the message in shm is below RPVDEV_MAX_NUM
  event,                \* a UIO event is not acknowledged, the IRQ is masked
  sync,                 \* ipi.sync is set (a notification clears it)
  irqLock,              \* "free", "client" or "irq": libmetal's irq_lock
  pc,                   \* where main is
  ipc                   \* where the interrupt thread is

vars == <<fresh, peer, line, msgValid, event, sync, irqLock, pc, ipc>>

TypeOK ==
  /\ fresh \in BOOLEAN /\ line \in BOOLEAN /\ msgValid \in BOOLEAN
  /\ event \in BOOLEAN /\ sync \in BOOLEAN
  /\ peer \in {"idle", "ring"}
  /\ irqLock \in {"free", "client", "irq"}
  /\ pc \in {"start", "app", "poll", "test", "serve", "yield", "end"}
  /\ ipc \in {"poll", "entry", "ack"}

\* rzn2_proc_init has set the flag and enabled the interrupt.
Init ==
  /\ fresh = FALSE /\ peer = "idle" /\ line = FALSE /\ msgValid = FALSE
  /\ event = FALSE /\ sync = TRUE /\ irqLock = "free"
  /\ pc = "start" /\ ipc = "poll"

-----------------------------------------------------------------------------
\* The remote core and the UIO driver (external).

Put ==
  /\ peer = "idle"
  /\ peer' = "ring"
  /\ fresh' = TRUE
  /\ UNCHANGED <<line, msgValid, event, sync, irqLock, pc, ipc>>

Ring ==
  /\ peer = "ring"
  /\ peer' = "idle"
  /\ line' = TRUE
  /\ msgValid' = TRUE
  /\ UNCHANGED <<fresh, event, sync, irqLock, pc, ipc>>

\* An interrupt with a message out of range, never over an unread message.
StrayRing ==
  /\ peer = "idle" /\ ~line /\ ~event
  /\ line' = TRUE
  /\ msgValid' = FALSE
  /\ UNCHANGED <<fresh, peer, event, sync, irqLock, pc, ipc>>

\* The interrupt is an edge: the controller forgets it as the driver takes it.
UioEvent ==
  /\ line /\ ~event
  /\ line' = FALSE
  /\ event' = TRUE
  /\ UNCHANGED <<fresh, peer, msgValid, sync, irqLock, pc, ipc>>

-----------------------------------------------------------------------------
\* main and app.

Goto(from, to) == pc = from /\ pc' = to

\* platform_create_rpmsg_vdev and rpmsg_create_ept, either of which may fail.
EnterApp ==
  /\ Goto("start", "app")
  /\ UNCHANGED <<fresh, peer, line, msgValid, event, sync, irqLock, ipc>>

SetUpFails ==
  /\ Goto("start", "end")
  /\ UNCHANGED <<fresh, peer, line, msgValid, event, sync, irqLock, ipc>>

\* app polls ...
EnterPoll ==
  /\ Goto("app", "poll")
  /\ UNCHANGED <<fresh, peer, line, msgValid, event, sync, irqLock, ipc>>

\* ... until it has sent its payloads, or a send has failed.
LeaveApp ==
  /\ Goto("app", "end")
  /\ UNCHANGED <<fresh, peer, line, msgValid, event, sync, irqLock, ipc>>

AppStep == EnterApp \/ SetUpFails \/ EnterPoll \/ LeaveApp

\* Mutant: the flag is tested without metal_irq_save_disable.
PollNoIrqLock ==
  /\ Goto("poll", "test")
  /\ UNCHANGED <<fresh, peer, line, msgValid, event, sync, irqLock, ipc>>

\* metal_irq_save_disable
PollIrqLock ==
  /\ Goto("poll", "test")
  /\ irqLock = "free"
  /\ irqLock' = "client"
  /\ UNCHANGED <<fresh, peer, line, msgValid, event, sync, ipc>>

\* atomic_flag_test_and_set, then metal_irq_restore_enable on either branch.
PollTest ==
  /\ \/ ~sync /\ Goto("test", "serve")
     \/ sync  /\ Goto("test", "yield")
  /\ sync' = TRUE
  /\ irqLock' = "free"
  /\ UNCHANGED <<fresh, peer, line, msgValid, event, ipc>>

\* remoteproc_get_notification runs the callbacks ...
PollServe ==
  /\ pc = "serve" /\ fresh
  /\ fresh' = FALSE
  /\ UNCHANGED <<peer, line, msgValid, event, sync, irqLock, pc, ipc>>

\* ... until the vrings are empty.
PollReturn ==
  /\ ~fresh
  /\ Goto("serve", "app")
  /\ UNCHANGED <<fresh, peer, line, msgValid, event, sync, irqLock, ipc>>

\* _rproc_wait is sched_yield.
PollYield ==
  /\ Goto("yield", "poll")
  /\ UNCHANGED <<fresh, peer, line, msgValid, event, sync, irqLock, ipc>>

PollStep == PollIrqLock \/ PollTest \/ PollServe \/ PollReturn \/ PollYield

-----------------------------------------------------------------------------
\* libmetal's interrupt thread and rzn2_proc_irq_handler.

IrqEnter ==
  /\ ipc = "poll" /\ event
  /\ irqLock = "free"
  /\ irqLock' = "irq"
  /\ ipc' = "entry"
  /\ UNCHANGED <<fresh, peer, line, msgValid, event, sync, pc>>

\* METAL_IRQ_NOT_HANDLED: the event is not acknowledged and poll() reports it
\* again at once.
IrqInvalid ==
  /\ ipc = "entry" /\ ~msgValid
  /\ ipc' = "poll"
  /\ irqLock' = "free"
  /\ UNCHANGED <<fresh, peer, line, msgValid, event, sync, pc>>

\* Mutant: a valid message is acknowledged without a notification.
IrqNotifyNone ==
  /\ ipc = "entry" /\ msgValid
  /\ ipc' = "ack"
  /\ UNCHANGED <<fresh, peer, line, msgValid, event, sync, irqLock, pc>>

\* atomic_flag_clear(&ipi.sync)
IrqNotify ==
  /\ ipc = "entry" /\ msgValid
  /\ sync' = FALSE
  /\ ipc' = "ack"
  /\ UNCHANGED <<fresh, peer, line, msgValid, event, irqLock, pc>>

\* METAL_IRQ_HANDLED: libmetal acknowledges the event.
IrqAck ==
  /\ ipc = "ack"
  /\ event' = FALSE
  /\ irqLock' = "free"
  /\ ipc' = "poll"
  /\ UNCHANGED <<fresh, peer, line, msgValid, sync, pc>>

-----------------------------------------------------------------------------
Next ==
  \/ Put \/ Ring \/ StrayRing \/ UioEvent
  \/ AppStep \/ PollStep
  \/ IrqEnter \/ IrqInvalid \/ IrqNotify \/ IrqAck

Spec == Init /\ [][Next]_vars

(***************************************************************************)
(* Both threads run; each gets an irq_lock that the other frees again and  *)
(* again (the poll loop yields between two attempts).  The remote core     *)
(* rings for the buffer it has put.  How long app goes on is open.         *)
(***************************************************************************)
Fairness ==
  /\ WF_vars(Ring) /\ WF_vars(UioEvent)
  /\ WF_vars(AppStep)
  /\ SF_vars(PollIrqLock) /\ WF_vars(PollTest \/ PollServe \/ PollReturn \/ PollYield)
  /\ SF_vars(IrqEnter) /\ WF_vars(IrqInvalid \/ IrqNotify \/ IrqAck)

FairSpec == Spec /\ Fairness

-----------------------------------------------------------------------------
Owed == line \/ event \/ ~sync
Stands == Owed \/ pc = "serve"

(***************************************************************************)
(* irq_lock separates the handler from the test of the flag; the handler   *)
(* holds its event, and its notification stays in the flag, until the      *)
(* event is acknowledged.                                                  *)
(***************************************************************************)
HandOver ==
  /\ TypeOK
  /\ irqLock = "client" <=> pc = "test"
  /\ irqLock = "irq" <=> ipc # "poll"
  /\ ipc # "poll" => event
  /\ ipc = "ack" => ~sync

ClientIs ==
  CASE pc = "serve"            -> "looking"
    [] pc \in {"start", "end"} -> "away"
    [] OTHER                   -> "there"

Bell == INSTANCE Doorbell WITH
          Target <- {Client},
          work   <- [t \in {Client} |-> fresh],
          owed   <- [t \in {Client} |-> Owed \/ peer = "ring"],
          client <- [t \in {Client} |-> ClientIs]

(***************************************************************************)
(* The spinning client implements the doorbell, liveness included: a ring  *)
(* is handed on from the controller to the flag and never dropped, and the *)
(* client answers it and serves every buffer it was rung for while app     *)
(* runs, however often invalid messages make the handler refuse an event   *)
(* in between.                                                             *)
(***************************************************************************)
BellSpec == Bell!Spec
=============================================================================
