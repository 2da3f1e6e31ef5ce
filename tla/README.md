# TLA+ models of meta-rz-multi-os

The repository holds four Yocto layers (RZ/G2L, RZ/G3S, RZ/N2H, RZ/T2H) that run
Linux on the CA55 cores beside an RTOS on CM33 or CR52 cores. What it adds of its
own is: the `rpmsg-sample` client (C, one variant per board), remoteproc drivers for
the kernel, boot commands for U-Boot, a boot hand-shake for TF-A, and small
corrections of OpenAMP and libmetal, all but the sample as patches.

Paths below are short: `g3s/`, `g2l/`, `n2h/`, `t2h/` stand for
`src/meta-rz*/recipes-example/rpmsg-sample/files/`.

## 1. Inventory

| Component | State | Operations | Meets | Hard because |
|---|---|---|---|---|
| Wake-up path, g3s (`platform_info.c` `platform_poll`, `rz_rproc.c` `rz_proc_irq_handler`, `main.c` `communicate`, `stop_handler`) | `ipi[].sync`, `valid_thread`, `force_stop`, `mutex`, `cond[]`, libmetal's `irq_lock`; the UIO event and the mailbox interrupt | poll, handle an interrupt, stop, start and end a thread | two client threads, main, libmetal's interrupt thread, a signal handler, two remote cores | two locks, a flag and a condition variable that are not used together; signal context |
| Wake-up path, g2l | the same with one target, one `cond` and no `valid_thread` | the same | one client thread | the same; the handler is open between runs and during start and clean-up |
| Wake-up path, n2h and t2h | `ipi.sync`, `irq_lock` | poll (spinning), handle an interrupt | client, interrupt thread, one remote core | fairness of a lock under spinning; interrupts that are refused |
| Outgoing notification (`*_proc_notify`) | the message in shared memory, the interrupt status | write the message, wait, set the interrupt | remote core; sessions of different notify_ids share one mailbox | order of message and wait; time-out; stop |
| Echo test (`app`, `rpmsg_service_cb0`) | `rnum`, `err_cnt`, `expect_rnum`, two vrings | send, receive, report | remote core, `platform_poll` | counters that outlive a run; error exits; an endpoint that is taken back |
| Platform lifecycle (`platform_create_proc`, `rz_proc_init`, `rz_proc_remove`, `platform_cleanup`, ...) | device handles, `registered`, `initialized`, `g_rsc_table`, heap blocks | create, remove, clean up | libmetal, OpenAMP | partial failures; shared devices and a count |
| Firmware menu (g3s `main`, first loop) | `cm33_running`, `load_cm33_fw`, the CPG device | start and stop both cores through sysfs | kernel driver | state kept apart from the driver's |
| Kernel remoteproc drivers | carveouts, resets, clocks, power references, checksum of the firmware | prepare, start, stop, attach, da_to_va, probe, remove | remoteproc core | order of stop, restart, address arithmetic |
| U-Boot `cm33` and `cr52` commands | registers, SYSRAM | parse, copy, start | - | bounds |
| TF-A firmware load | SEMAR0 | load, hand over, wait | the other core's boot code | a two-party hand-shake |
| OpenAMP and libmetal patches | bitmap of addresses, transmit buffers | allocate, send with a time-out | the sample | limits |

What makes each correct. *Wake-up path*: a remote core that rings for its buffers
is answered; a thread sleeps only while nothing is pending; a stop ends every
thread and no thread hangs in the handler. *Notification*: what a session has sent
is covered by a ring, its message stays until it is taken. *Echo test*: one payload
under way, a true report, an end, also after a failed send. *Lifecycle*: each device is closed exactly once,
after its last use, on every path. *Drivers*: resets and power references balance,
a core is stopped before its memory changes, an address never leaves its carveout.
*Boot*: neither side waits for ever, nor goes on before the other is ready.

## 2. Modules

| Module | Role |
|---|---|
| `Doorbell` | abstract: work, a ring that stands for it, a client that comes, answers a ring with one look at the vrings, and goes; implemented by every way in |
| `IpiPoll` | g3s wake-up path; implements `Doorbell` (safety) |
| `MCIpiPoll` | `IpiPoll` with the symmetry of its targets, for TLC |
| `IpiPollProofs` | TLAPS: type correctness, lock hand-over, mutex, the refinement, no notification lost |
| `SpinPoll` | n2h/t2h wake-up path; implements `Doorbell` (with liveness) |
| `MailboxNotify` | the three variants of the outgoing notification |
| `MailboxNotifyProofs` | TLAPS: the inductive invariant of `MailboxNotify` |
| `EchoTest` | the echo test, counters per thread or static |
| `EchoTestProofs` | TLAPS: types, one payload under way, no poll for what cannot come, the report is true |
| `SpinPollProofs` | TLAPS: the hand-over, the safety part of the refinement, no notification lost |
| `LifecycleG3S` | g3s: menus, initialisation, threads and clean-up of four instances that share their devices, with calls that fail |
| `LifecycleG3SProofs` | TLAPS: threads have their devices, the exit releases them |
| `ClientT2H` | the whole t2h client: its lifecycle, with `EchoTest` and `SpinPoll` as instances |
| `ClientT2HProofs` | TLAPS: the client implements `EchoTest`, `SpinPoll` and `Doorbell` and keeps what they keep; devices during the test and at the exit |
| `ClientG2L` | the whole g2l client: lifecycle, menu, handler, sleeping poll and stop, with `EchoTest` as an instance; implements `Doorbell` (safety) |
| `ClientG2LProofs` | TLAPS: the client implements `EchoTest` and `Doorbell`; no ring lost, mutex, devices during a run and at the exit |

### Correspondence with the code

**Doorbell.** A ring is owed from the moment the remote core has rung, or is about to ring for
what it has put (`ring`, `peer`), until a test of the flag finds it cleared: it is then on the
line, in the UIO event or in the flag (`Owed`). The client is `"away"` while no thread runs
`app` for the core, `"looking"` while `platform_poll` is in `remoteproc_get_notification`, and
`"there"` otherwise. `Answer` is the test of the flag that finds it cleared, `Serve` the
callbacks that leave the vrings empty, or the return from them. What an implementation must
not do is as much as it must: no ring is dropped, not even one without a buffer; no look is
taken that no ring asked for (a thread that is woken by a stop, or for no reason, tests the
flag again); an answer is worth one look; nobody looks who has ended, or ends in a look.

**IpiPoll.** A thread that talks to core `t` is named `t`; `launch_communicate`
runs at most one per core. `pc[t]` follows `communicate`, `app` and `platform_poll`:
each lock operation, flag operation and condition-variable operation is an action
(`PollCheck`: `while(!force_stop)`; `PollIrqLock`: `metal_irq_save_disable`;
`PollTest`: test-and-set and `metal_irq_restore_enable`; `PollServe`:
`remoteproc_get_notification`; `PollMutexLock`, `PollWait`, `PollWoken`,
`PollUnlock`: lines 413-415, `pthread_cond_wait` releasing and taking `mutex`).
`ipc` follows `rz_proc_irq_handler` under `irq_lock`, with what libmetal does
around it: a handled event is acknowledged (`IrqAck`), one that is not handled
stays (`NotHandled`). `hpc[th]` is `stop_handler` on top of whatever `th` was doing.
Linux gives a process signal to the main thread unless that masks it, as it does
while it runs the handler for the same signal; then any thread may get it. External:
the remote core (`Put`, `Ring`, `StrayRing`), the UIO driver (`UioEvent`), libmetal's
interrupt thread. A remote core may send an invalid message (`StrayRing`), but not
on top of one that has not been read.

**SpinPoll.** The same for `rzn2_rproc.c`: the interrupt is an edge, so the
controller forgets it when the driver takes it, and the handler clears nothing.
The t2h sources differ in names and addresses only.

**MailboxNotify.** `pc` follows `rz_proc_notify`: `WriteMsg`, the loop over the
status (`PollBounded` on g3s, where the abort is tested after each read and before
its result; `PollUnbounded` on g2l, the read that ends the loop; none on n2h), and
`SetInterrupt`. A session is one communication thread on one channel; the vrings
of a session start empty (`rpmsg_init_vdev`). The remote core clears the
interrupt, reads the message, serves the vring it names. The ring of a session that has
ended may be used up by the next one's message; the vring it was for is made anew before it
is used again.

**EchoTest.** `Start` is a new thread, or a new call of `app` in the process;
`ThreadLocal` says whether `rnum` and `err_cnt` start afresh with it. `PayloadInit`
and `CreateEpt` have the error returns of `payload_init` and `rpmsg_create_ept`;
`Polls` and `PollReturns` are the call of `platform_poll` in the two loops of `app` and its
return: the first loop tests before it polls (`bind`, `bind_poll`), the do loop of a payload
polls once before it tests (`Send` goes to `poll`, `Echoed` is the end of the test at
`polled`). Whether the poll sleeps, and for how long, is left to the modules of the wake-up
path. `Receive` runs one callback inside `platform_poll`: `rpmsg_service_cb0` for an echo,
`rpmsg_service_bind` and `rpmsg_service_unbind` for the messages of the name service.
The remote core (external) announces its endpoint, may take it back once in a run
(`Leave`), and sends echoes that are intact, damaged or empty. `Send` needs a bound
endpoint and a free buffer; `SendFails` is every error of `rpmsg_send`. `validated`
and `left` are history variables: no action of the program reads them.

**ClientT2H.** `mpc` follows `main`, `platform_init`, `platform_create_proc` and
`rzt2_proc_init`: each call that may fail has a working and a failing disjunct
(`Fails(kind)`; the kinds are those of the constant `Fail`, and `faults` remembers
which have happened). `dev[d]` is a device pointer: NULL, open, or closed while the
program still keeps it. What the code does with a closed device, a NULL `vdev` or
the `platform` that was never set is undefined in C; there the next state is a choice
between going on and `"crash"`. The poll is `SpinPoll` (`ppc`, `ipc`, the interrupt and
the flag) and the test is `EchoTest` (`apc`): `PollServe` of the one runs `Receive` of the
other, `PollReturns` is the return of both, a message put in `toHost` is the `fresh` buffer of
`SpinPoll`, and rings follow.
n2h is the same program with other names and addresses.

**LifecycleG3S.** `pc` follows `main` through both menus, `k` its loops over `ids`.
The four instances share `ipi[]`, the interrupts (`initialized`) and the memory
devices; the first removal closes all of them (`Remove`), the later ones find NULL.
`thread[j]` is a communication thread between `launch_communicate` and its join:
before `platform_create_rpmsg_vdev`, or in `app`. At most one memory device fails to
open in a run, for which one the set is enumerated.

**ClientG2L.** The same for g2l's two instances with the count `ipi.registered`;
`hpc` is `stop_handler` on top of main, `ppc` the sleeping `platform_poll`, `ipc` the
handler, whose steps are the register accesses of `rz_proc_irq_handler` (`IrqClear`,
`IrqRead`: a crash if the device it goes through is not open). Unregistering waits for
`irq_lock`, as libmetal does.

## 3. Runs

| Run | Asks | Bounds | Result |
|---|---|---|---|
| `ipi_poll` | can a ring be lost, a look be taken without one, or a lock be in wrong hands? | 2 cores, 1 signal, symmetric cores | holds |
| `ipi_poll_live` | is who sleeps when the condition is signalled served or ended? does `stop_handler` return, unless it interrupts the owner of its mutex? | 1 core, 2 signals | holds |
| `ipi_poll_sleep` | does a thread sleep only until its interrupt? | 1 core, 2 signals | **violated** |
| `spin_poll` | does the spinning client implement the doorbell, liveness included? | 1 client | holds |
| `notify` | is what a session has sent covered by a ring, and seen? | 3 boards, 2 channels, MAX_READ_WAIT = 3 | holds |
| `notify_overwrite` | does the wait protect the message? | g3s and g2l, 2 channels | **violated** |
| `echo` | one payload under way, a true report, no poll for what cannot come | 3 payloads, 2 buffers, 2 runs, `__thread` counters | holds |
| `echo_static` | the report with static counters (g2l) | the same | **violated** |
| `client_t2h` | does the whole client end, run its test on open devices, and release what it holds? | 2 payloads, 1 buffer, every call may fail | holds |
| `client_t2h_irq` | can the handler read its message whenever it runs? | 1 payload, no call fails | **violated** |
| `lifecycle` | are devices there for every thread, and closed once? (g3s) | 4 instances (as in the code), every call may fail | holds |
| `client_g2l` | is the whole client a doorbell, over two runs? no ring lost, mutex in right hands, devices there, all released? | 1 payload, 1 buffer, 2 runs, every call may fail | holds |

Why the bounds are enough. The threads of different cores meet only in the two
locks, the interrupt thread and the stop, so two of them show every interference;
rings, events and flags are idempotent and need no counter. One thread shows what
the liveness properties say, which speak of one. A bounded wait behaves alike for
every bound above a few reads (the proof covers all). Three payloads
distinguish the first, a middle and the last; two buffers make the vring fill up
after an error, when payloads are no longer awaited; two runs are needed for
counters to outlive one. The compositions take fewer payloads, because what the
numbers do is settled by `echo` and its proof; two payloads in `client_t2h` let a
wake-up for the first meet the wait for the second, two runs in `client_g2l` let an
interrupt fall between them. `lifecycle` has no bound but the code's own four
instances. Faults: every kind of call may fail at every place where the code makes
it, in any combination (of the memory devices of g3s and g2l, which are all opened in
one step, at most one); a property that speaks of some kinds only says so in its
first line (`faults \subseteq ...`).

`CHECK_DEADLOCK FALSE` stands in the configurations of programs that end: `EchoTest` after
its last run, the clients and the lifecycle at their exit.

### What the violated runs show

* `ipi_poll_sleep`: a lost wake-up. `platform_poll` tests the flag under
  `irq_lock`, frees it, and then waits on the condition variable without another
  test. The handler fits in between: it clears the flag and signals, nobody waits,
  and the thread goes to sleep with the notification pending. The echo test has one
  payload under way, so the remote core has nothing more to say. The same window
  loses the signal of `stop_handler`. The abstract liveness of `Doorbell` therefore
  does not hold of g3s, and `BellSafeSpec` is its safety part only.
* `notify_overwrite`: the message is written before the wait for the previous
  interrupt. A following session on the other channel of a mailbox replaces a
  message that was never read.
* `echo_static`: with static counters a second run reports the errors of the first.
* `client_t2h_irq`: the interrupt is enabled before the memory of its message is
  opened; an interrupt of a remote core that has been running all along is then
  handled with `shm.io` NULL. n2h and g2l have the same order; g2l also closes the
  memory before it disables the interrupt. `ReleasedAtExit` of both clients names
  exactly these windows as the ways left to crash.

Some failures are not undone, and the properties leave them out on purpose: an error
after the mailbox was opened closes it and keeps the pointer, so that the removal
closes it again; a device without I/O region is closed and counts as opened; a failed
`remoteproc_create_virtio` removes a NULL `vdev`; `main` of t2h and n2h cleans up a
`platform` it never got. The actions show what follows; no comment of the code
promises otherwise.

`ipi_poll_live` has two signals. The second, masked in main while it runs the handler for the
first, may interrupt a thread that owns `mutex`, and its handler then waits for it for ever
(`SelfDeadlock`). The comments in the code promise nothing about this; `StopHandlerReturns`
and `StopReachesSleepers` say that it is the only way to hang. `ipi_poll`, with two cores,
has one signal, which main takes. A stop that comes between a thread's test of `force_stop`
and its wait is lost like the interrupt of `ipi_poll_sleep`: `StopReachesSleepers` speaks of
those who sleep already.

What the properties of the lifecycles leave out, beside those faults, is where the code
itself goes wrong; each is a row under "hazards" in `PROJECT.json`, with the place in the
model that has it and no property to its name: the double close after an error, the deaf
core, the missing region, the clean-up of a platform that is not initialised, the CPG device
left open, menu choice 3, the NULL `vdev`, and on g2l the handler in the clean-up. So are the
two waits without an end: that of `rz_proc_notify` on g2l for a remote core that takes no
interrupt, which `SentIsSeen` assumes away, and that of the do loop for an endpoint that has
gone, which `AwaitedUnderWay` and `ProgramEnds` except.

### Fairness

`IpiPoll`: weak fairness of each thread's steps; strong fairness of taking a lock
(`irq_lock`, `mutex`), since POSIX mutexes and libmetal's lock are given up again
and again and a waiter gets them in the end; none for the user, the remote core,
signals, spurious wake-ups. `SpinPoll`: the same, and the remote core rings after
it has put a buffer (it does so in one call). `MailboxNotify`: the client inside
`notify` and the remote core run. `EchoTest` has none: its properties are safety, and whether
`platform_poll` returns is not its to assume, since the sleeping one of g3s and g2l may not
(`ipi_poll_sleep`); that the test ends is checked where the poll is part of the model and
spins, in `client_t2h`. `ClientT2H`: main, `app` and the handler
run, strong fairness of the three who take `irq_lock` (poll, handler, and main when it
unregisters the handler), the remote core announces itself, answers and rings. Nothing
is assumed of failing calls, invalid interrupts or an endpoint that leaves: `ProgramEnds`
excepts the last, since the do loop of `app` then has no end.

## 4. Proofs

No theorem fixes the number of cores, channels, signals, payloads, buffers or runs, the
set of calls that fail, or MAX_READ_WAIT. The assumptions on constants are their types,
that a test has a payload and a vring a buffer (`EchoAssumption`, `SizeAssumption`), and that
the names of threads differ (`ThreadAssumption`).

**RZ/G3S wake-up path** (`IpiPollProofs`).

* `TypeCorrect`: the type invariant.
* `HandOverCorrect`: `HandOver` is inductive. It adds to the types that threads are
  joined before the menu comes back (`Joined`, needed so that `Launch` never restarts
  a running thread), that `irq_lock` is owned exactly in the window of the test or by
  the handler (`IrqLockOwner`), that the handler keeps the event it handles
  (`EventHeld`) and that the flag it has cleared stays clear until it is done
  (`FlagHeld`).
* `MutexCorrect`: `MutexOwner` is inductive with the types.
* `ImplementsDoorbell`: under `HandOver` each step is a step of `Doorbell` or a
  stutter: `Put` and `StrayRing` ring, the `PollTest` that finds the flag cleared answers,
  `PollServe` serves, `EnterThread` and `LeaveThread` come and go. `EventHeld` and
  `FlagHeld` are what keeps a ring standing when the handler clears the interrupt and
  acknowledges the event; the wake-ups of a thread, by whomever, stutter, because they lead
  back to the test.
* `NoNotificationLost`: `NoLostNotification`, from the refinement: `Doorbell` never has
  work without a ring.

**Spinning wake-up path** (`SpinPollProofs`). `HandOverCorrect`: `HandOver` is inductive as it
stands; `ImplementsDoorbell` and `NoNotificationLost` as above.

**Outgoing notification** (`MailboxNotifyProofs`). `NotifyCorrect`: `NotifyInv`. `RingOutstanding`
alone is not inductive: that an aborted wait leaves a ring needs that a call which has found
the interrupt pending is covered by it, because its message was written first.

**Echo test** (`EchoTestProofs`).

* `TypeCorrect`: the types, with static counters too. That the counters stay within the
  number of payloads needs `TInv`: the loop counter and `expect_rnum` go together (`Counted`),
  and nothing is counted before a run (`Untouched`).
* `OneUnderWayCorrect` and `ReportCorrect`, under `OwnCounters`: the counters are `__thread`,
  or there is one run. (Without it `ReportIsTrue` is false: `echo_static`.) Neither is
  inductive. `IInv` adds to `TInv` that a payload is in one place: with the remote core, on
  its way back, or validated (`OnePlace`), that without an error everything sent is back
  outside the do loop (`InStep`), and, for the other direction of the report, that after an
  error some payload sent is in none of these places and will never be (`ErrorIsLoss`).
* `AwaitedCorrect`, under `OwnCounters`: `AwaitedUnderWay`. `IInv` adds for it that as long as
  the remote endpoint has not gone no message says so, and what is under way has its endpoint
  bound (`Unbroken`), and that an endpoint that is there is bound or announced in the vring,
  behind every message that it has gone (`Called`).

  In all three `OwnCounters` is used in one step, `Start`, together with `Untouched`.

**RZ/G3S lifecycle** (`LifecycleG3SProofs`). `ThreadsCorrect` and `ReleaseCorrect`: the invariant
says for each place of `main` what is open, registered and allocated (`Fresh`, `Opened`,
`Building`, `Standing`, `Released`), with the failures that are undone kept apart
(`Undoing`, `Left`); that every removal but the first finds only NULL pointers is why
nothing is closed twice.

**The whole t2h client** (`ClientT2HProofs`) is proved from its parts.

* `ImplementsEcho`, `ImplementsSpin`: under the mapping of the instances `E` and `P` each step
  is a step of the part or leaves its variables alone. So the theorems of the parts hold of
  the whole: `PartsCorrect` (types, one payload under way, no poll for what cannot come, a true
  report: one run, so the counters are its own; the hand-over), `ImplementsDoorbell`,
  `NoMessageForgotten`.
* `RunsCorrect`, `ReleaseCorrect`: `LifeInv` says what is open and registered as a function
  of where `main` is (`Fresh`, `Registered`, `Opening`, `Opened`, `InApp`, `Closed`,
  `Undoing`, `Left`); `NoRegion` keeps apart the device that was closed for want of an I/O
  region. `Left` says what may be left when main is gone; by `Registered` the mailbox device
  outlives the handler.

**The whole g2l client** (`ClientG2LProofs`) has a poll of its own.

* `ImplementsEcho`: as above, with static counters, so that only the types follow.
* `WakeInv` is inductive: the hand-over of `irq_lock`, event and flag, that the client
  polls exactly in the loops of `app` (`InPoll`), and `NoLostRing` itself (`RingCorrect`).
* `MutexCorrect`: `MutexOwner`, inductive with `WakeInv`.
* `ImplementsDoorbell`: under the invariant each step is a step of `Doorbell` or a stutter.
  A run comes with new vrings and leaves the flag as it is. That an answer is a running
  thread's needs `OnThread` (`app` runs on the communication thread), which needs that the
  menu starts none while one runs (`Threads`); that a thread does not end in a look, `InPoll`.
* `RunsCorrect`, `ReleaseCorrect`: `LifeInv`, by place of `main` and instance. Two parts are
  about threads: `Threads` (a communication thread runs only while main waits in the join)
  and `Taken` (a handler under way has its device open, because unregistering waits for
  `irq_lock`). That the count `registered` makes the first clean-up release nothing is
  `Counting`.

Only model-checked: what rests on fairness, which the prover does not reach
(`WakeIsServed`, `StopHandlerReturns`, `StopReachesSleepers`, the liveness part of
`BellSpec`, `SentIsSeen`, `ProgramEnds`). Every invariant and every safety
refinement that a passing run checks is also a theorem. That the four properties of the
violated runs fail is shown by their counterexamples.

## 5. Not modelled

* Kernel remoteproc drivers: patches whose callers (the kernel's remoteproc core, which
  orders prepare, start and stop and holds the locks) are not in the repository.
* U-Boot commands: parse, copy, write registers; nothing concurrent and no state between
  two calls.
* TF-A: BL2 clears SEMAR0 and releases the second core, BL31 sets it; the firmware that
  reads it is not in the repository.
* OpenAMP and libmetal patches: a few lines each in libraries that appear here as
  external actions.
* The firmware part of the g3s menu: what is written to sysfs and what the cores then do;
  `LifecycleG3S` has its control flow and the clock device.
* uC3 branches: not compiled by these recipes. Device trees, clock tables and
  configurations have no behaviour; recipes and images are build metadata and binaries.

Inside the modelled parts: payload contents and sizes, addresses (an mmap finds its
device or not), a second signal number nested in a handler, buffers that arrive
while `remoteproc_get_notification` of g3s runs (they are served by it or by the next
ring), and on g3s a handler that is past its test of `valid_thread` while main cleans up
(`ClientG2L` has that race).

## 6. What could follow

1. A composition for g3s like `ClientG2L`, with the handler running during the clean-up.
2. The kernel drivers (`RprocG3S`: power references and resets over prepare, start, stop;
   `RprocN2H`: load once, checksum, restart), given a model of their caller.
3. Address translation and the checks of the `cr52` command as operators with 32-bit
   arithmetic, against a reference definition.
