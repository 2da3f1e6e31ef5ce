------------------------- MODULE MailboxNotifyProofs -------------------------
(***************************************************************************)
(* That notify never leaves what the running session has sent without a    *)
(* ring, for every board, set of channels and MAX_READ_WAIT.               *)
(***************************************************************************)
EXTENDS MailboxNotify, TLAPS

(***************************************************************************)
(* NotifyInv holds before the first session.                               *)
(***************************************************************************)
LEMMA NotifyInit == Init => NotifyInv
<1> SUFFICES ASSUME Init PROVE NotifyInv
  OBVIOUS
<1>1. TypeOK
  <2>1. wait \in 0 .. MaxReadWait + 1
    BY NotifyAssumption DEF Init
  <2> QED
    BY <2>1 DEF Init, TypeOK
<1>2. RingOutstanding
  BY DEF Init, RingOutstanding
<1> QED
  BY <1>1, <1>2 DEF Init, NotifyInv

(***************************************************************************)
(* Every step of the client, the user and the remote core keeps NotifyInv. *)
(***************************************************************************)
LEMMA NotifyStep == NotifyInv /\ [Next]_vars => NotifyInv'
<1> SUFFICES ASSUME NotifyInv, [Next]_vars PROVE NotifyInv'
  OBVIOUS
<1> USE NotifyAssumption DEF NotifyInv, TypeOK, clientVars, remoteVars, Goto
<1>1. ASSUME NEW c \in Channel, NewSession(c) PROVE NotifyInv'
  BY <1>1 DEF NewSession, RingOutstanding, Rung
<1>2. CASE Stop
  BY <1>2 DEF Stop, RingOutstanding, Rung
<1>3. CASE Send
  BY <1>3 DEF Send, RingOutstanding, Rung
<1>4. CASE WriteMsg
  BY <1>4 DEF WriteMsg, RingOutstanding, Rung
<1>5. CASE PollBounded
  <2>1. CASE wait > MaxReadWait
    BY <1>5, <2>1 DEF PollBounded, RingOutstanding, Rung
  <2>2. CASE ~(wait > MaxReadWait)
    BY <1>5, <2>2 DEF PollBounded, RingOutstanding, Rung
  <2> QED
    BY <2>1, <2>2
<1>6. CASE PollUnbounded
  BY <1>6 DEF PollUnbounded, RingOutstanding, Rung
<1>7. CASE SetInterrupt
  BY <1>7 DEF SetInterrupt, RingOutstanding, Rung
<1>8. CASE RemoteTake
  BY <1>8 DEF RemoteTake, RingOutstanding, Rung
<1>9. CASE RemoteRead
  BY <1>9 DEF RemoteRead, RingOutstanding, Rung
<1>10. CASE RemoteServe
  BY <1>10 DEF RemoteServe, RingOutstanding, Rung
<1>11. CASE UNCHANGED vars
  BY <1>11 DEF vars, RingOutstanding, Rung
<1> QED
  BY <1>1, <1>2, <1>3, <1>4, <1>5, <1>6, <1>7, <1>8, <1>9, <1>10, <1>11
  DEF Next, ClientStep, RemoteStep

(***************************************************************************)
(* Whenever notify has returned, what the running session has sent is      *)
(* covered by a ring.                                                      *)
(***************************************************************************)
THEOREM NotifyCorrect == Spec => []NotifyInv
<1>1. Init => NotifyInv
  BY NotifyInit
<1>2. NotifyInv /\ [Next]_vars => NotifyInv'
  BY NotifyStep
<1> QED
  BY <1>1, <1>2, PTL DEF Spec

=============================================================================
