---------------------------- MODULE MailboxNotify ----------------------------
(***************************************************************************)
(* The way from a client to the remote core: rpmsg_send puts a buffer in a *)
(* vring and calls the board's notify operation, which writes its          *)
(* notify_id in shared memory as the message, waits until the previous     *)
(* interrupt has been taken, and sets the interrupt.  The wait is bounded  *)
(* by MAX_READ_WAIT on RZ/G3S and unbounded on RZ/G2L; RZ/N2H and RZ/T2H   *)
(* do not wait.  One mailbox carries the sessions of all notify_ids of its *)
(* core, one session after the other.                                      *)
(***************************************************************************)
EXTENDS Naturals

CONSTANTS
  Board,           \* a subset of {"g3s", "g2l", "n2h"}; t2h does what n2h does
  Channel,         \* the notify_ids, 0 .. CFG_RPMSG_SVCNO-1
  MaxReadWait      \* MAX_READ_WAIT

ASSUME NotifyAssumption ==
  /\ Board \subseteq {"g3s", "g2l", "n2h"}
  /\ MaxReadWait \in Nat

VARIABLES
  board,           \* the board the client runs on
  session,         \* the channel its communication thread talks on
  out,             \* out[c]: the remote core has not seen buffers of vring c
  msg,             \* the message in shared memory
  int_sts,         \* the status of the interrupt to the remote core
  force_stop,
  pc,              \* where the client is in notify
  wait,            \* reads of the status in this call, on RZ/G3S
  rpc,             \* where the remote core is in its handler
  got              \* the notify_id it read

clientVars == <<board, session, force_stop>>
remoteVars == <<rpc, got>>
vars == <<board, session, out, msg, int_sts, force_stop, pc, wait, rpc, got>>

TypeOK ==
  /\ board      \in Board
  /\ session    \in Channel
  /\ out        \in [Channel -> BOOLEAN]
  /\ msg        \in Channel
  /\ int_sts    \in BOOLEAN
  /\ force_stop \in BOOLEAN
  /\ pc         \in {"idle", "write", "poll", "set"}
  /\ wait       \in 0 .. MaxReadWait + 1
  /\ rpc        \in {"idle", "taken", "serve"}
  /\ got        \in Channel

Init ==
  /\ board \in Board
  /\ session \in Channel
  /\ out = [c \in Channel |-> FALSE]
  /\ msg \in Channel
  /\ int_sts = FALSE
  /\ force_stop = FALSE
  /\ pc = "idle" /\ wait = 0
  /\ rpc = "idle" /\ got \in Channel

-----------------------------------------------------------------------------
\* The client.

Goto(from, to) == pc = from /\ pc' = to

\* One session ends and another starts, on any channel, with empty vrings.
NewSession(c) ==
  /\ pc = "idle"
  /\ session' = c
  /\ out' = [out EXCEPT ![c] = FALSE]
  /\ UNCHANGED <<board, msg, int_sts, force_stop, pc, wait, remoteVars>>

\* stop_handler; where there is none the signal ends the process.
Stop ==
  /\ board # "n2h" /\ ~force_stop
  /\ force_stop' = TRUE
  /\ UNCHANGED <<board, session, out, msg, int_sts, pc, wait, remoteVars>>

\* A buffer of the session enters the vring; the shutdown message is one too.
Send ==
  /\ Goto("idle", "write")
  /\ out' = [out EXCEPT ![session] = TRUE]
  /\ UNCHANGED <<clientVars, msg, int_sts, wait, remoteVars>>

\* Mutant: the message is left as the previous call wrote it.
WriteNothing ==
  /\ Goto("write", IF board = "n2h" THEN "set" ELSE "poll")
  /\ wait' = 0
  /\ UNCHANGED <<clientVars, out, msg, int_sts, remoteVars>>

\* Put a message saying "This is the notify_id of mine!"
WriteMsg ==
  /\ Goto("write", IF board = "n2h" THEN "set" ELSE "poll")
  /\ msg' = session
  /\ wait' = 0
  /\ UNCHANGED <<clientVars, out, int_sts, remoteVars>>

\* One read of the status on RZ/G3S: "communication abort" comes first.
PollBounded ==
  /\ board = "g3s"
  /\ \/ wait > MaxReadWait /\ Goto("poll", "idle") /\ UNCHANGED wait
     \/ /\ wait <= MaxReadWait
        /\ int_sts /\ ~force_stop
        /\ Goto("poll", "poll")
        /\ wait' = wait + 1
     \/ /\ wait <= MaxReadWait
        /\ ~int_sts \/ force_stop
        /\ Goto("poll", "set")
        /\ UNCHANGED wait
  /\ UNCHANGED <<clientVars, out, msg, int_sts, remoteVars>>

\* Mutant: a stop ends the call before the interrupt is set.
PollStopReturns ==
  /\ board = "g2l"
  /\ \/ ~int_sts   /\ Goto("poll", "set")
     \/ force_stop /\ Goto("poll", "idle")
  /\ UNCHANGED <<clientVars, out, msg, int_sts, wait, remoteVars>>

\* The read that ends the loop on RZ/G2L.
PollUnbounded ==
  /\ board = "g2l"
  /\ ~int_sts \/ force_stop
  /\ Goto("poll", "set")
  /\ UNCHANGED <<clientVars, out, msg, int_sts, wait, remoteVars>>

\* Send notification
SetInterrupt ==
  /\ Goto("set", "idle")
  /\ int_sts' = TRUE
  /\ UNCHANGED <<clientVars, out, msg, wait, remoteVars>>

ClientStep == WriteMsg \/ PollBounded \/ PollUnbounded \/ SetInterrupt

-----------------------------------------------------------------------------
\* The remote core (external): it clears the interrupt before it reads the
\* message, as the handler on this side does.

RemoteTake ==
  /\ rpc = "idle" /\ int_sts
  /\ rpc' = "taken"
  /\ int_sts' = FALSE
  /\ UNCHANGED <<clientVars, out, msg, pc, wait, got>>

RemoteRead ==
  /\ rpc = "taken"
  /\ rpc' = "serve"
  /\ got' = msg
  /\ UNCHANGED <<clientVars, out, msg, int_sts, pc, wait>>

RemoteServe ==
  /\ rpc = "serve"
  /\ rpc' = "idle"
  /\ out' = [out EXCEPT ![got] = FALSE]
  /\ UNCHANGED <<clientVars, msg, int_sts, pc, wait, got>>

RemoteStep == RemoteTake \/ RemoteRead \/ RemoteServe

-----------------------------------------------------------------------------
Next ==
  \/ \E c \in Channel : NewSession(c)
  \/ Stop \/ Send \/ ClientStep \/ RemoteStep

Spec == Init /\ [][Next]_vars

(***************************************************************************)
(* A client inside notify and the remote core run.  When to send, to start *)
(* a session and to stop is open.                                          *)
(***************************************************************************)
FairSpec == Spec /\ WF_vars(ClientStep) /\ WF_vars(RemoteStep)

-----------------------------------------------------------------------------
\* The remote core will look at vring c before it returns to "idle".
Rung(c) ==
  \/ rpc \in {"idle", "serve"} /\ int_sts /\ msg = c
  \/ rpc = "taken" /\ msg = c
  \/ rpc = "serve" /\ got = c

(***************************************************************************)
(* When notify has returned, with the interrupt set, after "communication  *)
(* abort" or early because of a stop, the remote core will still see the   *)
(* buffers the running session has sent: no call leaves one without a ring *)
(* that stands for it, and a late or aborted ring covers the later sends.  *)
(***************************************************************************)
RingOutstanding == pc = "idle" /\ out[session] => Rung(session)

(***************************************************************************)
(* What the abort of the bounded wait rests on: a call that has found the  *)
(* interrupt pending after it wrote its message is covered by it.          *)
(***************************************************************************)
NotifyInv ==
  /\ TypeOK
  /\ RingOutstanding
  /\ pc \in {"poll", "set"} => msg = session
  /\ pc = "poll" /\ wait > 0 /\ out[session] => Rung(session)

(***************************************************************************)
(* The remote core sees what a session sends, unless the session ends      *)
(* first; on RZ/G2L this includes that the unbounded wait ends.            *)
(***************************************************************************)
SentIsSeen ==
  \A c \in Channel :
    (session = c /\ out[c]) ~> (~out[c] \/ session # c)

(***************************************************************************)
(* "Check interrupt status: Has the previous message been received?"       *)
(* (rz_rproc.c): a message for which the interrupt is set is not replaced  *)
(* by another before the remote core has taken the interrupt.              *)
(***************************************************************************)
PreviousReceived == [][int_sts /\ int_sts' => msg' = msg]_vars
=============================================================================
