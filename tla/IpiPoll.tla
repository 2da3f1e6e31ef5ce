------------------------------- MODULE IpiPoll -------------------------------
(***************************************************************************)
(* How a client of the RZ/G3S rpmsg sample sleeps and is woken: the        *)
(* communication threads in platform_poll, libmetal's interrupt thread in  *)
(* rz_proc_irq_handler and stop_handler in whatever thread a signal finds. *)
(* They share libmetal's irq_lock, the program's `mutex`, one condition    *)
(* variable and one atomic flag (`sync`) per remote core.                  *)
(*                                                                         *)
(* The thread that talks to core t is named t: launch_communicate never    *)
(* runs two of them on one core.                                           *)
(***************************************************************************)
EXTENDS Naturals

CONSTANTS
  Target,          \* the mailbox channels, 0 .. MBX_CH_NUM-1
  Main,            \* the main thread
  Irq,             \* libmetal's interrupt thread
  NoThread,        \* the owner of a free lock
  MaxSignals       \* bound: signals (SIGINT, say) delivered in one behaviour

Thread == Target \cup {Main, Irq}

ASSUME ThreadAssumption ==
  /\ Main # Irq
  /\ Main \notin Target
  /\ Irq \notin Target
  /\ NoThread \notin Thread
  /\ MaxSignals \in Nat

VARIABLES
  fresh,           \* fresh[t]: the vrings of t hold buffers nobody processed
  peer,            \* peer[t]: "idle", or "ring" between its buffer and its ring
  line,            \* line[t]: the mailbox's response interrupt is asserted
  msgValid,        \* msgValid[t]: the message in shm is below RPVDEV_MAX_NUM
  event,           \* event[t]: a UIO event is not acknowledged, the IRQ is masked
  sync,            \* sync[t]: ipi[].sync is set (a notification clears it)
  valid_thread,
  force_stop,
  sighandled,      \* register_handler has run
  signals,         \* signals delivered so far
  irqLock,         \* owner of libmetal's irq_lock
  mutex,           \* owner of `mutex`
  mpc,             \* where the main thread is
  pc,              \* pc[t]: where the communication thread of t is
  ipc,             \* where the interrupt thread is
  vect,            \* the target whose interrupt it handles
  hpc              \* hpc[th]: where stop_handler is, on top of th's own code

peerVars   == <<fresh, peer, line, msgValid, event>>
flagVars   == <<sync, valid_thread, force_stop, sighandled, signals>>
lockVars   == <<irqLock, mutex>>
threadVars == <<mpc, pc, ipc, vect, hpc>>
vars == <<fresh, peer, line, msgValid, event, sync, valid_thread, force_stop,
          sighandled, signals, irqLock, mutex, mpc, pc, ipc, vect, hpc>>

PollPC == {"check", "irq_lock", "test", "serve", "mutex_lock", "locked",
           "waiting", "woken", "unlock"}
ThreadPC == PollPC \cup {"idle", "start", "setup", "app", "ending"}
IrqPC == {"poll", "entry", "read", "mutex_lock", "signal", "ack"}
HandlerPC == {"none", "mutex_lock", "signal"}

TypeOK ==
  /\ fresh        \in [Target -> BOOLEAN]
  /\ peer         \in [Target -> {"idle", "ring"}]
  /\ line         \in [Target -> BOOLEAN]
  /\ msgValid     \in [Target -> BOOLEAN]
  /\ event        \in [Target -> BOOLEAN]
  /\ sync         \in [Target -> BOOLEAN]
  /\ valid_thread \in [Target -> BOOLEAN]
  /\ force_stop   \in BOOLEAN
  /\ sighandled   \in BOOLEAN
  /\ signals      \in Nat
  /\ irqLock      \in Thread \cup {NoThread}
  /\ mutex        \in Thread \cup {NoThread}
  /\ mpc          \in {"loop", "menu", "join", "end"}
  /\ pc           \in [Target -> ThreadPC]
  /\ ipc          \in IrqPC
  /\ vect         \in Target
  /\ hpc          \in [Thread -> HandlerPC]

(***************************************************************************)
(* Before launch_communicate: rz_proc_init has set both flags, main shows  *)
(* the menu and the default action of the signals still applies.           *)
(***************************************************************************)
Init ==
  /\ fresh        = [t \in Target |-> FALSE]
  /\ peer         = [t \in Target |-> "idle"]
  /\ line         = [t \in Target |-> FALSE]
  /\ msgValid     = [t \in Target |-> FALSE]
  /\ event        = [t \in Target |-> FALSE]
  /\ sync         = [t \in Target |-> TRUE]
  /\ valid_thread = [t \in Target |-> FALSE]
  /\ force_stop   = FALSE
  /\ sighandled   = FALSE
  /\ signals      = 0
  /\ irqLock      = NoThread
  /\ mutex        = NoThread
  /\ mpc          = "loop"
  /\ pc           = [t \in Target |-> "idle"]
  /\ ipc          = "poll"
  /\ vect         \in Target
  /\ hpc          = [th \in Thread |-> "none"]

-----------------------------------------------------------------------------
\* The remote core and the UIO driver (external).

\* The remote core puts a buffer in a vring of t.
Put(t) ==
  /\ peer[t] = "idle"
  /\ peer' = [peer EXCEPT ![t] = "ring"]
  /\ fresh' = [fresh EXCEPT ![t] = TRUE]
  /\ UNCHANGED <<line, msgValid, event, flagVars, lockVars, threadVars>>

\* It writes its notify_id as the message and sets the interrupt.
Ring(t) ==
  /\ peer[t] = "ring"
  /\ peer' = [peer EXCEPT ![t] = "idle"]
  /\ line' = [line EXCEPT ![t] = TRUE]
  /\ msgValid' = [msgValid EXCEPT ![t] = TRUE]
  /\ UNCHANGED <<fresh, event, flagVars, lockVars, threadVars>>

\* An interrupt with a message out of range, never over an unread message.
StrayRing(t) ==
  /\ peer[t] = "idle" /\ ~line[t] /\ ~event[t]
  /\ line' = [line EXCEPT ![t] = TRUE]
  /\ msgValid' = [msgValid EXCEPT ![t] = FALSE]
  /\ UNCHANGED <<fresh, peer, event, flagVars, lockVars, threadVars>>

\* The UIO driver masks the interrupt and makes its descriptor readable.
UioEvent(t) ==
  /\ line[t] /\ ~event[t]
  /\ event' = [event EXCEPT ![t] = TRUE]
  /\ UNCHANGED <<fresh, peer, line, msgValid, flagVars, lockVars, threadVars>>

-----------------------------------------------------------------------------
\* main and the communication threads.

\* The thread is not inside stop_handler.
Runs(th) == hpc[th] = "none"

Goto(t, from, to) ==
  /\ Runs(t)
  /\ pc[t] = from
  /\ pc' = [pc EXCEPT ![t] = to]

MainGoto(from, to) ==
  /\ Runs(Main)
  /\ mpc = from
  /\ mpc' = to

\* while (!force_stop) show the menu; a stop may arrive while main reads it.
MainLoop ==
  /\ \/ force_stop  /\ MainGoto("loop", "end")
     \/ ~force_stop /\ MainGoto("loop", "menu")
  /\ UNCHANGED <<peerVars, flagVars, lockVars, pc, ipc, vect, hpc>>

\* The choice "e".
MenuExit ==
  /\ MainGoto("menu", "end")
  /\ UNCHANGED <<peerVars, flagVars, lockVars, pc, ipc, vect, hpc>>

\* launch_communicate creates the threads of the menu choice S, none when the
\* number is out of range ...
Launch(S) ==
  /\ MainGoto("menu", "join")
  /\ pc' = [t \in Target |-> IF t \in S THEN "start" ELSE pc[t]]
  /\ UNCHANGED <<peerVars, flagVars, lockVars, ipc, vect, hpc>>

\* ... and joins them.
Join ==
  /\ MainGoto("join", "loop")
  /\ \A t \in Target : pc[t] = "idle"
  /\ UNCHANGED <<peerVars, flagVars, lockVars, pc, ipc, vect, hpc>>

MainStep ==
  \/ MainLoop \/ MenuExit \/ Join
  \/ \E S \in SUBSET Target : Launch(S)

\* communicate opens the interrupt of its core to the handler ...
EnterThread(t) ==
  /\ Goto(t, "start", "setup")
  /\ valid_thread' = [valid_thread EXCEPT ![t] = TRUE]
  /\ UNCHANGED <<peerVars, sync, force_stop, sighandled, signals, lockVars,
                 mpc, ipc, vect, hpc>>

\* ... and creates the rpmsg device, which may fail; app registers the handler.
SetUp(t) ==
  /\ \/ Goto(t, "setup", "ending") /\ UNCHANGED sighandled
     \/ Goto(t, "setup", "app") /\ sighandled' = TRUE
  /\ UNCHANGED <<peerVars, sync, valid_thread, force_stop, signals, lockVars,
                 mpc, ipc, vect, hpc>>

\* app polls again, unless it is stopped, or is done with the echo test.  (The
\* poll its do loop may begin after a stop returns at once.)
AppStep(t) ==
  /\ \/ ~force_stop /\ Goto(t, "app", "check")
     \/ Goto(t, "app", "ending")
  /\ UNCHANGED <<peerVars, flagVars, lockVars, mpc, ipc, vect, hpc>>

\* communicate closes the interrupt of its core and the thread ends.
LeaveThread(t) ==
  /\ Goto(t, "ending", "idle")
  /\ valid_thread' = [valid_thread EXCEPT ![t] = FALSE]
  /\ UNCHANGED <<peerVars, sync, force_stop, sighandled, signals, lockVars,
                 mpc, ipc, vect, hpc>>

\* platform_poll: while (!force_stop)
PollCheck(t) ==
  /\ \/ force_stop  /\ Goto(t, "check", "app")
     \/ ~force_stop /\ Goto(t, "check", "irq_lock")
  /\ UNCHANGED <<peerVars, flagVars, lockVars, mpc, ipc, vect, hpc>>

\* Mutant: the flag is tested without metal_irq_save_disable.
PollNoIrqLock(t) ==
  /\ Goto(t, "irq_lock", "test")
  /\ UNCHANGED <<peerVars, flagVars, lockVars, mpc, ipc, vect, hpc>>

\* metal_irq_save_disable takes irq_lock.
PollIrqLock(t) ==
  /\ Goto(t, "irq_lock", "test")
  /\ irqLock = NoThread
  /\ irqLock' = t
  /\ UNCHANGED <<peerVars, flagVars, mutex, mpc, ipc, vect, hpc>>

\* atomic_flag_test_and_set, then metal_irq_restore_enable on either branch.
PollTest(t) ==
  /\ \/ ~sync[t] /\ Goto(t, "test", "serve")
     \/ sync[t]  /\ Goto(t, "test", "mutex_lock")
  /\ sync' = [sync EXCEPT ![t] = TRUE]
  /\ irqLock' = NoThread
  /\ UNCHANGED <<peerVars, valid_thread, force_stop, sighandled, signals,
                 mutex, mpc, ipc, vect, hpc>>

\* remoteproc_get_notification runs the callbacks until the vrings are empty.
PollServe(t) ==
  /\ Goto(t, "serve", "app")
  /\ fresh' = [fresh EXCEPT ![t] = FALSE]
  /\ UNCHANGED <<peer, line, msgValid, event, flagVars, lockVars, mpc, ipc, vect,
                 hpc>>

\* pthread_mutex_lock(&mutex), outside irq_lock.
PollMutexLock(t) ==
  /\ Goto(t, "mutex_lock", "locked")
  /\ mutex = NoThread
  /\ mutex' = t
  /\ UNCHANGED <<peerVars, flagVars, irqLock, mpc, ipc, vect, hpc>>

\* Mutant: the thread sleeps with the mutex held.
PollSleepLocked(t) ==
  /\ Goto(t, "locked", "waiting")
  /\ UNCHANGED <<peerVars, flagVars, lockVars, mpc, ipc, vect, hpc>>

\* pthread_cond_wait releases the mutex as it begins to wait ...
PollWait(t) ==
  /\ Goto(t, "locked", "waiting")
  /\ mutex' = NoThread
  /\ UNCHANGED <<peerVars, flagVars, irqLock, mpc, ipc, vect, hpc>>

\* ... may wake for no reason ...
SpuriousWake(t) ==
  /\ Goto(t, "waiting", "woken")
  /\ UNCHANGED <<peerVars, flagVars, lockVars, mpc, ipc, vect, hpc>>

\* ... and takes the mutex again before it returns.
PollWoken(t) ==
  /\ Goto(t, "woken", "unlock")
  /\ mutex = NoThread
  /\ mutex' = t
  /\ UNCHANGED <<peerVars, flagVars, irqLock, mpc, ipc, vect, hpc>>

\* Mutant: woken up is taken for notified; the flag is not tested again.
PollUnlockServe(t) ==
  /\ Goto(t, "unlock", "serve")
  /\ mutex' = NoThread
  /\ UNCHANGED <<peerVars, flagVars, irqLock, mpc, ipc, vect, hpc>>

\* The loop tests the flag again, whoever has woken it.
PollUnlock(t) ==
  /\ Goto(t, "unlock", "check")
  /\ mutex' = NoThread
  /\ UNCHANGED <<peerVars, flagVars, irqLock, mpc, ipc, vect, hpc>>

PollStep(t) ==
  \/ PollCheck(t) \/ PollIrqLock(t) \/ PollTest(t) \/ PollServe(t)
  \/ PollMutexLock(t) \/ PollWait(t) \/ PollWoken(t) \/ PollUnlock(t)

ClientStep(t) ==
  EnterThread(t) \/ SetUp(t) \/ AppStep(t) \/ LeaveThread(t) \/ PollStep(t)

-----------------------------------------------------------------------------
\* libmetal's interrupt thread and rz_proc_irq_handler.

IrqGoto(from, to) ==
  /\ Runs(Irq)
  /\ ipc = from
  /\ ipc' = to

\* poll() reports the event; the handlers run under irq_lock.
IrqEnter(t) ==
  /\ IrqGoto("poll", "entry")
  /\ event[t]
  /\ irqLock = NoThread
  /\ irqLock' = Irq
  /\ vect' = t
  /\ UNCHANGED <<peerVars, flagVars, mutex, mpc, pc, hpc>>

\* METAL_IRQ_NOT_HANDLED: libmetal does not acknowledge the event.
NotHandled ==
  /\ irqLock' = NoThread
  /\ UNCHANGED <<peerVars, flagVars, mutex, mpc, pc, vect, hpc>>

\* Mutant: the interrupt of a core without a thread is cleared and acknowledged.
IrqDiscard ==
  /\ IrqGoto("entry", "poll")
  /\ ~valid_thread[vect]
  /\ line' = [line EXCEPT ![vect] = FALSE]
  /\ event' = [event EXCEPT ![vect] = FALSE]
  /\ irqLock' = NoThread
  /\ UNCHANGED <<fresh, peer, msgValid, flagVars, mutex, mpc, pc, vect, hpc>>

\* No thread talks to this core.
IrqIgnore ==
  /\ IrqGoto("entry", "poll")
  /\ ~valid_thread[vect]
  /\ NotHandled

\* MBX_REMOTE_INT_CLR is written before the message is read.
IrqClear ==
  /\ IrqGoto("entry", "read")
  /\ valid_thread[vect]
  /\ line' = [line EXCEPT ![vect] = FALSE]
  /\ UNCHANGED <<fresh, peer, msgValid, event, flagVars, lockVars, mpc, pc, vect,
                 hpc>>

\* Invalid message arrived.
IrqInvalid ==
  /\ IrqGoto("read", "poll")
  /\ ~msgValid[vect]
  /\ NotHandled

\* Mutant: the handler signals and leaves the flag as it is.
IrqNotifyNoFlag ==
  /\ IrqGoto("read", "mutex_lock")
  /\ msgValid[vect]
  /\ UNCHANGED <<peerVars, flagVars, lockVars, mpc, pc, vect, hpc>>

\* atomic_flag_clear(&pipi->sync)
IrqNotify ==
  /\ IrqGoto("read", "mutex_lock")
  /\ msgValid[vect]
  /\ sync' = [sync EXCEPT ![vect] = FALSE]
  /\ UNCHANGED <<peerVars, valid_thread, force_stop, sighandled, signals,
                 lockVars, mpc, pc, vect, hpc>>

IrqMutexLock ==
  /\ IrqGoto("mutex_lock", "signal")
  /\ mutex = NoThread
  /\ mutex' = Irq
  /\ UNCHANGED <<peerVars, flagVars, irqLock, mpc, pc, vect, hpc>>

\* Signalled(S): the waiters among S leave pthread_cond_wait.
Signalled(S) ==
  pc' = [t \in Target |-> IF t \in S /\ pc[t] = "waiting" THEN "woken" ELSE pc[t]]

\* pthread_cond_signal(&cond[th_index]), pthread_mutex_unlock
IrqSignal ==
  /\ IrqGoto("signal", "ack")
  /\ Signalled({vect})
  /\ mutex' = NoThread
  /\ UNCHANGED <<peerVars, flagVars, irqLock, mpc, vect, hpc>>

\* METAL_IRQ_HANDLED: libmetal acknowledges the event, which unmasks the IRQ.
IrqAck ==
  /\ IrqGoto("ack", "poll")
  /\ event' = [event EXCEPT ![vect] = FALSE]
  /\ irqLock' = NoThread
  /\ UNCHANGED <<fresh, peer, line, msgValid, flagVars, mutex, mpc, pc, vect, hpc>>

IrqStep ==
  \/ \E t \in Target : IrqEnter(t)
  \/ IrqIgnore \/ IrqClear \/ IrqInvalid \/ IrqNotify
  \/ IrqMutexLock \/ IrqSignal \/ IrqAck

-----------------------------------------------------------------------------
\* stop_handler, on top of the code of the thread the signal interrupts.

Alive(th) == th \in Target => pc[th] # "idle"

\* force_stop = 1; the signal is masked in th until the handler returns.  Linux
\* gives a signal of the process to main unless main masks it.
StopDeliver(th) ==
  /\ sighandled
  /\ Runs(Main) => th = Main
  /\ signals < MaxSignals
  /\ Alive(th)
  /\ Runs(th)
  /\ force_stop' = TRUE
  /\ signals' = signals + 1
  /\ hpc' = [hpc EXCEPT ![th] = "mutex_lock"]
  /\ UNCHANGED <<peerVars, sync, valid_thread, sighandled, lockVars, mpc, pc, ipc,
                 vect>>

\* The mutex is not recursive: its owner, interrupted, waits here for ever.
StopMutexLock(th) ==
  /\ hpc[th] = "mutex_lock"
  /\ mutex = NoThread
  /\ mutex' = th
  /\ hpc' = [hpc EXCEPT ![th] = "signal"]
  /\ UNCHANGED <<peerVars, flagVars, irqLock, mpc, pc, ipc, vect>>

\* Mutant: the loop over the condition variables stops one short.
StopSignalShort(th) ==
  /\ hpc[th] = "signal"
  /\ \E last \in Target : Signalled(Target \ {last})
  /\ mutex' = NoThread
  /\ hpc' = [hpc EXCEPT ![th] = "none"]
  /\ UNCHANGED <<peerVars, flagVars, irqLock, mpc, ipc, vect>>

\* One waiter per condition variable: each pthread_cond_signal wakes it.
StopSignal(th) ==
  /\ hpc[th] = "signal"
  /\ Signalled(Target)
  /\ mutex' = NoThread
  /\ hpc' = [hpc EXCEPT ![th] = "none"]
  /\ UNCHANGED <<peerVars, flagVars, irqLock, mpc, ipc, vect>>

-----------------------------------------------------------------------------
Next ==
  \/ MainStep
  \/ \E t \in Target :
       \/ Put(t) \/ Ring(t) \/ StrayRing(t) \/ UioEvent(t)
       \/ ClientStep(t) \/ SpuriousWake(t)
  \/ IrqStep
  \/ \E th \in Thread : StopDeliver(th) \/ StopMutexLock(th) \/ StopSignal(th)

Spec == Init /\ [][Next]_vars

(***************************************************************************)
(* Threads that can run do run, and a lock that is freed again and again   *)
(* is taken in the end by each thread that waits for it.  The user, the    *)
(* remote core, the signals and the length of the echo test owe nothing.   *)
(***************************************************************************)
Fairness ==
  /\ WF_vars(MainLoop) /\ WF_vars(Join)
  /\ \A t \in Target :
       /\ WF_vars(UioEvent(t))
       /\ WF_vars(ClientStep(t))
       /\ SF_vars(PollIrqLock(t))
       /\ SF_vars(PollMutexLock(t)) /\ SF_vars(PollWoken(t))
       /\ SF_vars(IrqEnter(t))
  /\ WF_vars(IrqStep) /\ SF_vars(IrqMutexLock)
  /\ \A th \in Thread : SF_vars(StopMutexLock(th)) /\ WF_vars(StopSignal(th))

FairSpec == Spec /\ Fairness

-----------------------------------------------------------------------------
\* A ring for t is not answered: it is on its way, or in the flag.
Owed(t) == line[t] \/ event[t] \/ ~sync[t]

\* A ring for t stands: it is not answered, or its answer is under way.
Stands(t) == Owed(t) \/ pc[t] = "serve"

(***************************************************************************)
(* No communication thread outlives the pthread_join that waits for it.    *)
(***************************************************************************)
Joined == mpc # "join" => \A t \in Target : pc[t] = "idle"

(***************************************************************************)
(* irq_lock separates the handler from the test of the flag: its owner is  *)
(* exactly the thread in that window.  The handler keeps the UIO event of  *)
(* its target until it acknowledges it, and from the moment it has cleared *)
(* the flag until then no thread tests and sets it.                        *)
(***************************************************************************)
IrqLockOwner ==
  /\ \A t \in Target : irqLock = t <=> pc[t] = "test"
  /\ irqLock = Irq <=> ipc # "poll"

EventHeld == ipc # "poll" => event[vect]

FlagHeld == ipc \in {"mutex_lock", "signal", "ack"} => ~sync[vect]

HandOver == TypeOK /\ Joined /\ IrqLockOwner /\ EventHeld /\ FlagHeld

(***************************************************************************)
(* The owner of `mutex` is exactly the thread inside a critical section,   *)
(* of its own code or of the stop_handler on top of it and never of both:  *)
(* no path of platform_poll, the handler or stop_handler unlocks a mutex   *)
(* another thread holds, or ends with it held.                             *)
(***************************************************************************)
InOwnSection(th) ==
  \/ th \in Target /\ pc[th] \in {"locked", "unlock"}
  \/ th = Irq /\ ipc = "signal"

MutexOwner ==
  \A th \in Thread :
    /\ mutex = th <=> InOwnSection(th) \/ hpc[th] = "signal"
    /\ ~(InOwnSection(th) /\ hpc[th] = "signal")

\* The client t is away outside communicate, and looks while platform_poll serves.
ClientOf(t) ==
  CASE pc[t] = "serve"            -> "looking"
    [] pc[t] \in {"idle", "start"} -> "away"
    [] OTHER                      -> "there"

Bell == INSTANCE Doorbell WITH
          work   <- fresh,
          owed   <- [t \in Target |-> Owed(t) \/ peer[t] = "ring"],
          client <- [t \in Target |-> ClientOf(t)]

(***************************************************************************)
(* The interrupt path implements the doorbell: between the mailbox, the    *)
(* UIO event, the handler and the flag a ring is handed on and never       *)
(* dropped, not even one that brings no buffer, whatever thread exits,     *)
(* message is invalid or signal arrives on the way.  platform_poll looks   *)
(* at the vrings once for a ring it finds in the flag, and never because   *)
(* it was merely woken: pthread_cond_wait may return for no reason, and    *)
(* stop_handler signals too.                                               *)
(***************************************************************************)
BellSafeSpec == Bell!SafeSpec

(***************************************************************************)
(* Once the remote core has rung, buffers left in the vrings have a ring   *)
(* standing for them: the flag is not tested and set by platform_poll, nor *)
(* the event acknowledged by the handler, at the expense of a later ring.  *)
(***************************************************************************)
NoLostNotification ==
  \A t \in Target : fresh[t] /\ peer[t] = "idle" => Stands(t)

(***************************************************************************)
(* A thread asleep in platform_poll when the handler signals its condition *)
(* goes on to serve the notification, unless the program is stopped.       *)
(***************************************************************************)
WakeIsServed ==
  \A t \in Target :
    (pc[t] = "waiting" /\ ipc = "signal" /\ vect = t)
      ~> (pc[t] = "serve" \/ force_stop)

\* A thread waits in its stop_handler for the mutex that it owns underneath.
SelfDeadlock == \E th \in Thread : InOwnSection(th) /\ hpc[th] = "mutex_lock"

(***************************************************************************)
(* stop_handler returns to the thread it interrupted, whoever else wants   *)
(* the mutex, unless some thread has interrupted its own critical section: *)
(* the second signal of two, which main masks and another thread gets, may *)
(* do so, and this is the only way to hang in the handler.                 *)
(***************************************************************************)
StopHandlerReturns ==
  \A th \in Thread : hpc[th] # "none" ~> (hpc[th] = "none" \/ SelfDeadlock)

(***************************************************************************)
(* A thread asleep in platform_poll when stop_handler signals ends, also   *)
(* if another signal comes before it is awake, unless that deadlocks.      *)
(***************************************************************************)
StopReachesSleepers ==
  \A t \in Target :
    (pc[t] = "waiting" /\ \E th \in Thread : hpc[th] = "signal")
      ~> (pc[t] = "idle" \/ SelfDeadlock)

(***************************************************************************)
(* "to stop execution until received an interrupt" (rz_rproc.c:41): a      *)
(* thread asleep in pthread_cond_wait has no notification pending in its   *)
(* flag, but for one whose handler has yet to signal.                      *)
(***************************************************************************)
AsleepOnlyUntilInterrupt ==
  \A t \in Target :
    pc[t] = "waiting" /\ ~sync[t]
      => vect = t /\ ipc \in {"mutex_lock", "signal"}
=============================================================================
