------------------------------ MODULE EchoTest ------------------------------
(***************************************************************************)
(* The echo test of the rpmsg samples: app sends payloads of growing size, *)
(* polls until each has come back, and reports the error count that        *)
(* rpmsg_service_cb0 keeps.  The remote core announces its endpoint and    *)
(* may take it back in the middle of a run.  The counters rnum and err_cnt *)
(* are __thread variables on RZ/G3S, whose every run is a thread of its    *)
(* own; on the other boards they are static: one run on RZ/N2H and RZ/T2H, *)
(* where the process ends with the test, one after the other on RZ/G2L.    *)
(***************************************************************************)
EXTENDS Naturals, Sequences

CONSTANTS
  Num,             \* payload_info.num
  Cap,             \* buffers of the transmit vring
  ThreadLocal,     \* the counters are __thread
  Runs             \* bound: runs of the test in one process

ASSUME EchoAssumption ==
  /\ Num \in Nat \ {0} /\ Cap \in Nat \ {0} /\ Runs \in Nat
  /\ ThreadLocal \in BOOLEAN

VARIABLES
  pc,              \* where app is
  run,             \* runs begun
  num,             \* pi.num of this run, 0 if it found no buffer size
  i,               \* the loop counter, the payload to send
  expect_rnum, rnum, err_cnt,
  force_stop,
  announced,       \* rp_ept is bound to the remote endpoint
  remote,          \* the remote endpoint: "away" or "here"
  left,            \* history: it has gone away in this run
  toRemote,        \* payload numbers the remote core has not echoed yet
  toHost,          \* messages app has not polled yet
  validated        \* history: payloads of this run found intact

counters == <<expect_rnum, rnum, err_cnt>>
local    == <<run, num, force_stop>>
peer     == <<remote, left>>
vrings   == <<announced, toRemote, toHost>>
vars == <<pc, run, num, i, expect_rnum, rnum, err_cnt, force_stop, announced,
          remote, left, toRemote, toHost, validated>>

Payload == 0 .. Num - 1

\* What comes back: the name service's messages, or an echo, maybe with its data
\* damaged, maybe with its size too.
NameService == [kind : {"ns", "gone"}]
Echo == [kind : {"intact", "damaged", "empty"}, num : Payload]

TypeOK ==
  /\ pc \in {"idle", "init", "ept", "bind", "bind_poll", "send", "poll", "polled",
             "echoed", "report", "shutdown"}
  /\ run \in 0 .. Runs
  /\ num \in {0, Num}
  /\ i \in 0 .. Num
  /\ expect_rnum \in 0 .. Num
  /\ rnum \in 0 .. Num
  /\ err_cnt \in Nat
  /\ force_stop \in BOOLEAN
  /\ announced \in BOOLEAN
  /\ remote \in {"away", "here"}
  /\ left \in BOOLEAN
  /\ toRemote \in Seq(Payload) /\ Len(toRemote) <= Cap
  /\ toHost \in Seq(Echo \cup NameService)
  /\ validated \subseteq Payload

Init ==
  /\ pc = "idle" /\ run = 0 /\ num = 0 /\ i = 0
  /\ expect_rnum = 0 /\ rnum = 0 /\ err_cnt = 0
  /\ force_stop = FALSE /\ announced = FALSE
  /\ remote = "away" /\ left = FALSE
  /\ toRemote = <<>> /\ toHost = <<>>
  /\ validated = {}

-----------------------------------------------------------------------------
\* app

Goto(from, to) == pc = from /\ pc' = to

\* A thread (or, where there is one run, the process) has the rpmsg device made,
\* whose vrings are empty.
Start ==
  /\ run < Runs
  /\ Goto("idle", "init")
  /\ run' = run + 1
  /\ num' = 0 /\ i' = 0 /\ expect_rnum' = 0
  /\ rnum' = IF ThreadLocal THEN 0 ELSE rnum
  /\ err_cnt' = IF ThreadLocal THEN 0 ELSE err_cnt
  /\ announced' = FALSE /\ toRemote' = <<>> /\ toHost' = <<>>
  /\ remote' = "away" /\ left' = FALSE
  /\ validated' = {}
  /\ UNCHANGED force_stop

\* payload_init: a buffer size of 0 is not an error and leaves pi.num 0; a
\* negative one and a failing allocation end app.
PayloadInit ==
  /\ \/ Goto("init", "ept") /\ num' \in {0, Num}
     \/ Goto("init", "idle") /\ UNCHANGED num
  /\ UNCHANGED <<run, i, counters, force_stop, peer, vrings, validated>>

\* rpmsg_create_ept; its failure ends app.
CreateEpt ==
  /\ Goto("ept", "bind") \/ Goto("ept", "idle")
  /\ UNCHANGED <<local, i, counters, peer, vrings, validated>>

\* Mutant: rnum is the number of the payload received.
Cb0NoPlus(m) ==
  /\ err_cnt' = IF m.kind = "intact" THEN err_cnt ELSE err_cnt + 1
  /\ rnum' = IF m.kind = "empty" THEN rnum ELSE m.num
  /\ validated' = IF m.kind = "intact" THEN validated \cup {m.num} ELSE validated

\* Mutant: damaged data is reported and not counted.
Cb0NoCount(m) ==
  /\ err_cnt' = IF m.kind = "empty" THEN err_cnt + 1 ELSE err_cnt
  /\ rnum' = IF m.kind = "empty" THEN rnum ELSE m.num + 1
  /\ validated' = IF m.kind = "intact" THEN validated \cup {m.num} ELSE validated

\* rpmsg_service_cb0 on the echo m.  An empty one is counted and forgotten.
Cb0(m) ==
  /\ err_cnt' = IF m.kind = "intact" THEN err_cnt ELSE err_cnt + 1
  /\ rnum' = IF m.kind = "empty" THEN rnum ELSE m.num + 1
  /\ validated' = IF m.kind = "intact" THEN validated \cup {m.num} ELSE validated

\* The name service finds rp_ept, or calls rpmsg_service_bind to create it anew.
Bind ==
  /\ announced' = TRUE
  /\ UNCHANGED <<rnum, err_cnt, validated>>

\* rpmsg_service_unbind destroys rp_ept.
Unbind ==
  /\ announced' = FALSE
  /\ UNCHANGED <<rnum, err_cnt, validated>>

\* platform_poll runs the callback of the next message; an echo that finds no
\* endpoint is dropped.
Receive ==
  /\ pc \in {"bind_poll", "poll"}
  /\ toHost # <<>>
  /\ LET m == Head(toHost) IN
     \/ m.kind = "ns" /\ Bind
     \/ m.kind = "gone" /\ Unbind
     \/ m \in Echo /\ announced /\ Cb0(m) /\ UNCHANGED announced
     \/ m \in Echo /\ ~announced /\ UNCHANGED <<announced, rnum, err_cnt, validated>>
  /\ toHost' = Tail(toHost)
  /\ UNCHANGED <<pc, local, i, expect_rnum, peer, toRemote>>

\* The loops call platform_poll: the first tests before it polls, the do loop of
\* a payload, which Send begins with a poll, afterwards ...
Polls ==
  /\ ~force_stop
  /\ \/ ~announced                           /\ Goto("bind", "bind_poll")
     \/ rnum < expect_rnum /\ err_cnt = 0     /\ Goto("polled", "poll")
  /\ UNCHANGED <<local, i, counters, peer, vrings, validated>>

\* ... which returns when it has emptied the vrings, or on a stop.
PollReturns ==
  /\ toHost = <<>> \/ force_stop
  /\ Goto("bind_poll", "bind") \/ Goto("poll", "polled")
  /\ UNCHANGED <<local, i, counters, peer, vrings, validated>>

\* The end of while (!force_stop && !is_rpmsg_ept_ready(&rp_ept))
Bound ==
  /\ \/ force_stop               /\ Goto("bind", "shutdown")
     \/ ~force_stop /\ announced /\ Goto("bind", "send")
  /\ UNCHANGED <<local, i, counters, peer, vrings, validated>>

\* rpmsg_send takes a buffer, for which it waits; app polls at once.
Send ==
  /\ i < num /\ announced /\ Len(toRemote) < Cap
  /\ Goto("send", "poll")
  /\ toRemote' = Append(toRemote, i)
  /\ expect_rnum' = expect_rnum + 1
  /\ UNCHANGED <<local, i, rnum, err_cnt, announced, peer, toHost, validated>>

\* No buffer in time, or the endpoint has gone: the loop is left.
SendFails ==
  /\ i < num
  /\ Goto("send", "report")
  /\ UNCHANGED <<local, i, counters, peer, vrings, validated>>

\* Mutant: one poll for each payload.
EchoedOnce ==
  /\ Goto("polled", "echoed")
  /\ UNCHANGED <<local, i, counters, peer, vrings, validated>>

\* The end of do ... while (!force_stop && (rnum < expect_rnum) && !err_cnt)
Echoed ==
  /\ force_stop \/ rnum >= expect_rnum \/ err_cnt # 0
  /\ Goto("polled", "echoed")
  /\ UNCHANGED <<local, i, counters, peer, vrings, validated>>

\* After usleep: a stop skips the report.
NextPayload ==
  /\ \/ force_stop  /\ Goto("echoed", "shutdown") /\ UNCHANGED i
     \/ ~force_stop /\ Goto("echoed", "send") /\ i' = i + 1
  /\ UNCHANGED <<local, counters, peer, vrings, validated>>

AllSent ==
  /\ i = num
  /\ Goto("send", "report")
  /\ UNCHANGED <<local, i, counters, peer, vrings, validated>>

\* Test Results: Error count = err_cnt
Report ==
  /\ Goto("report", "shutdown")
  /\ UNCHANGED <<local, i, counters, peer, vrings, validated>>

\* The shutdown message; the remote endpoint and the device go.
Shutdown ==
  /\ Goto("shutdown", "idle")
  /\ UNCHANGED <<local, i, counters, peer, vrings, validated>>

Stop ==
  /\ ~force_stop
  /\ force_stop' = TRUE
  /\ UNCHANGED <<pc, run, num, i, counters, peer, vrings, validated>>

AppStep ==
  \/ PayloadInit \/ CreateEpt \/ Polls \/ Receive \/ PollReturns \/ Bound \/ Send
  \/ SendFails \/ AllSent \/ Echoed \/ NextPayload \/ Report \/ Shutdown

-----------------------------------------------------------------------------
\* The remote core (external).

Announce ==
  /\ pc # "idle" /\ remote = "away"
  /\ remote' = "here"
  /\ toHost' = Append(toHost, [kind |-> "ns"])
  /\ UNCHANGED <<pc, local, i, counters, announced, left, toRemote, validated>>

\* Once in a run the remote endpoint goes, with what it has not echoed.
Leave ==
  /\ pc # "idle" /\ remote = "here" /\ ~left
  /\ remote' = "away" /\ left' = TRUE
  /\ toHost' = Append(toHost, [kind |-> "gone"])
  /\ toRemote' = <<>>
  /\ UNCHANGED <<pc, local, i, counters, announced, validated>>

\* A payload sent before the endpoint's end is known meets no endpoint.
RemoteEcho ==
  /\ pc # "idle" /\ toRemote # <<>>
  /\ \/ /\ remote = "here"
        /\ \E m \in Echo : m.num = Head(toRemote) /\ toHost' = Append(toHost, m)
     \/ remote = "away" /\ UNCHANGED toHost
  /\ toRemote' = Tail(toRemote)
  /\ UNCHANGED <<pc, local, i, counters, announced, peer, validated>>

-----------------------------------------------------------------------------
Next ==
  \/ Start \/ AppStep \/ Stop
  \/ Announce \/ Leave \/ RemoteEcho

Spec == Init /\ [][Next]_vars

-----------------------------------------------------------------------------
(***************************************************************************)
(* "retrieve the echo and validate its integrity" (main.c): a report of no *)
(* errors means that each payload sent in this run has come back intact,   *)
(* and one of errors that some has not, whatever an earlier run of the     *)
(* process has counted, and also after a send that failed.                 *)
(***************************************************************************)
ReportIsTrue ==
  pc = "report" => (err_cnt = 0 <=> validated = 0 .. expect_rnum - 1)

(***************************************************************************)
(* Until an error is counted at most one payload is under way: a payload   *)
(* is sent after the one before has come back, in this run, also if the    *)
(* endpoint has been taken back and announced again in between.            *)
(***************************************************************************)
Echoes == {k \in DOMAIN toHost : toHost[k] \in Echo}

OneUnderWay ==
  /\ TypeOK
  /\ err_cnt = 0 =>
       /\ Len(toRemote) <= 1
       /\ toRemote # <<>> => Echoes = {}
       /\ \A j, k \in Echoes : j = k

(***************************************************************************)
(* app never polls for what cannot come.  While the loop of a payload asks *)
(* for one more echo, the echo, or the payload, is on its way, unless the  *)
(* remote endpoint has gone away in this run and has taken it along; and   *)
(* while the loop before the first payload waits for the endpoint that the *)
(* remote core has, its announcement is in the vring, also if the endpoint *)
(* has come and gone before.  A poll that sleeps for ever over one of      *)
(* these is IpiPoll's matter, not app's.                                   *)
(***************************************************************************)
AwaitedUnderWay ==
  /\ pc \in {"poll", "polled"} /\ rnum < expect_rnum /\ err_cnt = 0 /\ ~left =>
       toRemote # <<>> \/ Echoes # {}
  /\ pc \in {"bind", "bind_poll"} /\ ~announced /\ remote = "here" =>
       \E k \in DOMAIN toHost : toHost[k].kind = "ns"
=============================================================================
