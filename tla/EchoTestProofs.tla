---------------------------- MODULE EchoTestProofs ----------------------------
(***************************************************************************)
(* The echo test for any number of payloads, buffers and runs, where each  *)
(* run has counters of its own: they are __thread variables (RZ/G3S), or   *)
(* the process runs the test once (RZ/N2H, RZ/T2H).                        *)
(***************************************************************************)
EXTENDS EchoTest, TLAPS

OwnCounters == ThreadLocal \/ Runs <= 1

\* Before the first run nothing has been counted.
Untouched ==
  run = 0 => pc = "idle" /\ rnum = 0 /\ err_cnt = 0

\* The loop counter and the number of payloads sent.
Counted ==
  /\ pc \in {"init", "ept", "bind", "bind_poll"} => i = 0
  /\ pc \in {"init", "ept", "bind", "bind_poll", "send", "report"} => expect_rnum = i
  /\ pc \in {"poll", "polled", "echoed"} => i < num /\ expect_rnum = i + 1

\* A payload is in one place: with the remote core, on its way back, or validated.
OnePlace ==
  /\ validated \subseteq 0 .. expect_rnum - 1
  /\ \A a \in 1 .. Len(toRemote) :
       /\ toRemote[a] < expect_rnum /\ toRemote[a] \notin validated
       /\ \A b \in 1 .. Len(toRemote) : toRemote[a] = toRemote[b] => a = b
       /\ \A c \in Echoes : toRemote[a] # toHost[c].num
  /\ \A c \in Echoes :
       /\ toHost[c].num < expect_rnum /\ toHost[c].num \notin validated
       /\ \A d \in Echoes : toHost[c].num = toHost[d].num => c = d

NoneUnderWay == toRemote = <<>> /\ Echoes = {}

AllBack == rnum = expect_rnum /\ validated = 0 .. expect_rnum - 1 /\ NoneUnderWay

\* Without an error only the last payload sent may be under way, and is until it
\* is back, unless the endpoint that went took it along.
InStep ==
  err_cnt = 0 =>
    /\ pc \in {"init", "ept", "bind", "bind_poll", "send", "report"} => AllBack
    /\ pc \in {"poll", "polled", "echoed"} =>
         \/ AllBack
         \/ /\ rnum = expect_rnum - 1 /\ validated = 0 .. expect_rnum - 2
            /\ left \/ ~NoneUnderWay
    /\ pc = "echoed" /\ ~force_stop => rnum >= expect_rnum
    /\ OneUnderWay

\* An error counted is a payload that nothing will validate any more.
ErrorIsLoss ==
  err_cnt # 0 =>
    \E p \in 0 .. expect_rnum - 1 :
      /\ p \notin validated
      /\ \A a \in 1 .. Len(toRemote) : toRemote[a] # p
      /\ \A c \in Echoes : toHost[c].num # p

\* As long as the remote endpoint has not gone, no message says so, and what app
\* has sent finds an endpoint at both ends.
Unbroken ==
  ~left =>
    /\ \A k \in DOMAIN toHost :
         /\ toHost[k].kind # "gone"
         /\ toHost[k].kind = "ns" => remote = "here"
    /\ announced => remote = "here"
    /\ pc \in {"send", "poll", "polled", "echoed"} => announced
    /\ ~NoneUnderWay => announced

\* An endpoint that is there is announced to app, or will be: behind each message
\* that an earlier one has gone comes one of the new one.
Called ==
  remote = "here" =>
    /\ announced \/ \E k \in DOMAIN toHost : toHost[k].kind = "ns"
    /\ \A j \in DOMAIN toHost : toHost[j].kind = "gone" =>
         \E k \in DOMAIN toHost : j < k /\ toHost[k].kind = "ns"

IInv ==
  /\ TypeOK /\ Untouched /\ Counted /\ OnePlace /\ InStep /\ ErrorIsLoss
  /\ Unbroken /\ Called

-----------------------------------------------------------------------------
LEMMA AppendFacts ==
  ASSUME NEW S, NEW s \in Seq(S), NEW e \in S
  PROVE  /\ Append(s, e) \in Seq(S)
         /\ Len(Append(s, e)) = Len(s) + 1
         /\ \A k \in 1 .. Len(s) : Append(s, e)[k] = s[k]
         /\ Append(s, e)[Len(s) + 1] = e
  OBVIOUS

LEMMA TailFacts ==
  ASSUME NEW S, NEW s \in Seq(S), s # <<>>
  PROVE  /\ Tail(s) \in Seq(S)
         /\ Len(s) \in Nat \ {0}
         /\ Len(Tail(s)) = Len(s) - 1
         /\ Head(s) = s[1] /\ Head(s) \in S
         /\ \A k \in 1 .. Len(s) - 1 : Tail(s)[k] = s[k + 1]
  OBVIOUS

\* What is on its way to app is an echo or comes from the name service.
LEMMA Kinds ==
  /\ \A m \in Echo : m.num \in Payload /\ m.kind \in {"intact", "damaged", "empty"}
  /\ \A m \in NameService : m.kind \in {"ns", "gone"} /\ m \notin Echo
  /\ [kind |-> "ns"] \in NameService /\ [kind |-> "gone"] \in NameService
<1>1. \A m \in Echo : m.num \in Payload /\ m.kind \in {"intact", "damaged", "empty"}
  BY DEF Echo
<1>2. \A m \in NameService : m.kind \in {"ns", "gone"}
  BY DEF NameService
<1>3. \A m \in NameService : m \notin Echo
  BY <1>1, <1>2
<1>4. QED
  BY <1>1, <1>2, <1>3 DEF NameService

\* A message of the name service adds no echo.
LEMMA EchoesSame ==
  ASSUME TypeOK, NEW m \in NameService, toHost' = Append(toHost, m)
  PROVE  /\ Echoes' = Echoes
         /\ \A c \in Echoes : toHost'[c] = toHost[c]
         /\ toHost' \in Seq(Echo \cup NameService)
<1>1. toHost \in Seq(Echo \cup NameService)
  BY DEF TypeOK
<1>2. DOMAIN toHost = 1 .. Len(toHost) /\ DOMAIN toHost' = 1 .. Len(toHost')
  BY <1>1, AppendFacts
<1>3. /\ Len(toHost') = Len(toHost) + 1 /\ toHost' \in Seq(Echo \cup NameService)
      /\ \A k \in 1 .. Len(toHost) : toHost'[k] = toHost[k]
      /\ toHost'[Len(toHost) + 1] = m
  BY <1>1, AppendFacts
<1>4. m \notin Echo /\ Len(toHost) \in Nat
  BY <1>1, Kinds
<1>5. QED
  BY <1>2, <1>3, <1>4 DEF Echoes

LEMMA EchoesMore ==
  ASSUME TypeOK, NEW m \in Echo, toHost' = Append(toHost, m)
  PROVE  /\ Echoes' = Echoes \cup {Len(toHost) + 1} /\ Len(toHost) + 1 \notin Echoes
         /\ \A c \in Echoes : toHost'[c] = toHost[c]
         /\ toHost'[Len(toHost) + 1] = m
         /\ toHost' \in Seq(Echo \cup NameService)
<1>1. toHost \in Seq(Echo \cup NameService)
  BY DEF TypeOK
<1>2. DOMAIN toHost = 1 .. Len(toHost) /\ DOMAIN toHost' = 1 .. Len(toHost')
  BY <1>1, AppendFacts
<1>3. /\ Len(toHost') = Len(toHost) + 1 /\ toHost' \in Seq(Echo \cup NameService)
      /\ \A k \in 1 .. Len(toHost) : toHost'[k] = toHost[k]
      /\ toHost'[Len(toHost) + 1] = m
  BY <1>1, AppendFacts
<1>4. Len(toHost) \in Nat
  BY <1>1
<1>5. QED
  BY <1>2, <1>3, <1>4 DEF Echoes

\* Receive takes the first message; the others move up.
LEMMA EchoesTail ==
  ASSUME TypeOK, toHost # <<>>, toHost' = Tail(toHost)
  PROVE  /\ \A c \in Echoes' : c \in Nat /\ c + 1 \in Echoes /\ toHost'[c] = toHost[c + 1]
         /\ \A c \in Echoes : c # 1 => c - 1 \in Echoes'
         /\ Head(toHost) \in Echo <=> 1 \in Echoes
         /\ Head(toHost) = toHost[1] /\ Head(toHost) \in Echo \cup NameService
         /\ 0 \notin Echoes'
         /\ toHost' \in Seq(Echo \cup NameService)
<1>1. toHost \in Seq(Echo \cup NameService)
  BY DEF TypeOK
<1>2. /\ Tail(toHost) \in Seq(Echo \cup NameService)
      /\ Len(toHost) \in Nat \ {0} /\ Len(toHost') = Len(toHost) - 1
      /\ Head(toHost) = toHost[1] /\ Head(toHost) \in Echo \cup NameService
      /\ \A k \in 1 .. Len(toHost) - 1 : toHost'[k] = toHost[k + 1]
  BY <1>1, TailFacts
<1>3. DOMAIN toHost = 1 .. Len(toHost) /\ DOMAIN toHost' = 1 .. Len(toHost')
  BY <1>1, <1>2
<1>4. QED
  BY <1>2, <1>3 DEF Echoes

-----------------------------------------------------------------------------
\* Types and control: what every run keeps, with counters of its own or without.
TInv == TypeOK /\ Untouched /\ Counted

LEMMA TypeInit == Init => TInv
<1> SUFFICES ASSUME Init PROVE TInv
  OBVIOUS
<1> USE EchoAssumption DEF Init
<1>1. toRemote \in Seq(Payload) /\ Len(toRemote) = 0 /\ toHost \in Seq(Echo \cup NameService)
  OBVIOUS
<1>2. TypeOK
  <2>1. i \in 0 .. Num /\ expect_rnum \in 0 .. Num /\ rnum \in 0 .. Num /\ run \in 0 .. Runs
    OBVIOUS
  <2>2. /\ num \in {0, Num} /\ err_cnt \in Nat /\ Len(toRemote) <= Cap
        /\ validated \subseteq Payload
    BY <1>1
  <2>3. force_stop \in BOOLEAN /\ announced \in BOOLEAN /\ left \in BOOLEAN
    OBVIOUS
  <2>4. QED
    BY <1>1, <2>1, <2>2, <2>3 DEF TypeOK
<1>3. Untouched /\ Counted
  BY DEF Untouched, Counted
<1>4. QED
  BY <1>2, <1>3 DEF TInv

LEMMA TypeStep == TInv /\ [Next]_vars => TInv'
<1> SUFFICES ASSUME TInv, [Next]_vars PROVE TInv'
  OBVIOUS
<1> USE EchoAssumption DEF TInv, Untouched, Counted, Goto, local, counters, peer, vrings
<1>1. CASE Start
  <2> USE <1>1 DEF Start
  <2>1. toRemote' \in Seq(Payload) /\ Len(toRemote') = 0 /\ toHost' \in Seq(Echo \cup NameService)
    OBVIOUS
  <2>2. /\ i' \in 0 .. Num /\ expect_rnum' \in 0 .. Num /\ rnum' \in 0 .. Num
        /\ run' \in 0 .. Runs /\ run' # 0
    BY DEF TypeOK
  <2>3. /\ num' \in {0, Num} /\ err_cnt' \in Nat /\ Len(toRemote') <= Cap
        /\ validated' \subseteq Payload
    BY <2>1 DEF TypeOK
  <2>4. force_stop' \in BOOLEAN /\ announced' \in BOOLEAN /\ left' \in BOOLEAN
    BY DEF TypeOK
  <2>5. TypeOK'
    BY <2>1, <2>2, <2>3, <2>4 DEF TypeOK
  <2>6. QED
    BY <2>2, <2>5
<1>2. CASE PayloadInit
  BY <1>2 DEF PayloadInit, TypeOK
<1>3. CASE CreateEpt
  BY <1>3 DEF CreateEpt, TypeOK
<1>4. CASE Receive
  <2> USE <1>4
  <2>1. /\ toHost # <<>> /\ toHost' = Tail(toHost) /\ pc \in {"bind_poll", "poll"}
        /\ UNCHANGED <<pc, run, num, force_stop, i, expect_rnum, remote, left, toRemote>>
    BY DEF Receive
  <2>2. toHost' \in Seq(Echo \cup NameService)
    BY <2>1, EchoesTail
  <2>3. /\ announced' \in BOOLEAN /\ err_cnt' \in Nat /\ rnum' \in 0 .. Num
        /\ validated' \subseteq Payload
    <3>1. CASE UNCHANGED <<rnum, err_cnt, validated>>
      BY <3>1 DEF Receive, Bind, Unbind, TypeOK
    <3>2. CASE /\ Head(toHost) \in Echo /\ Cb0(Head(toHost)) /\ UNCHANGED announced
      <4>1. Head(toHost).num \in Payload
        BY <3>2, Kinds
      <4>2. rnum' \in 0 .. Num
        BY <3>2, <4>1 DEF Cb0, Payload, TypeOK
      <4>3. err_cnt' \in Nat /\ validated' \subseteq Payload
        BY <3>2, <4>1 DEF Cb0, TypeOK
      <4>4. QED
        BY <3>2, <4>2, <4>3 DEF TypeOK
    <3>3. QED
      BY <3>1, <3>2 DEF Receive, Bind, Unbind
  <2>4. TypeOK'
    BY <2>1, <2>2, <2>3 DEF TypeOK
  <2>5. QED
    BY <2>1, <2>4
<1>5. CASE Polls \/ PollReturns \/ Bound
  BY <1>5 DEF Polls, PollReturns, Bound, TypeOK
<1>6. CASE Send
  <2>1. toRemote \in Seq(Payload) /\ Len(toRemote) \in Nat /\ i \in Payload
    BY <1>6 DEF Send, TypeOK, Payload
  <2>2. toRemote' \in Seq(Payload) /\ Len(toRemote') = Len(toRemote) + 1
    BY <1>6, <2>1, AppendFacts DEF Send
  <2>3. expect_rnum' \in 0 .. Num /\ Len(toRemote') <= Cap
    BY <1>6, <2>1, <2>2 DEF Send, TypeOK, Payload
  <2>4. TypeOK'
    BY <1>6, <2>2, <2>3 DEF Send, TypeOK
  <2>5. QED
    BY <1>6, <2>4 DEF Send, TypeOK
<1>7. CASE SendFails
  BY <1>7 DEF SendFails, TypeOK
<1>8. CASE AllSent
  BY <1>8 DEF AllSent, TypeOK
<1>9. CASE Echoed
  BY <1>9 DEF Echoed, TypeOK
<1>10. CASE NextPayload
  BY <1>10 DEF NextPayload, TypeOK
<1>11. CASE Report \/ Shutdown
  BY <1>11 DEF Report, Shutdown, TypeOK
<1>12. CASE Stop
  BY <1>12 DEF Stop, TypeOK
<1>13. CASE Announce \/ Leave
  <2>1. PICK m \in NameService : toHost' = Append(toHost, m)
    BY <1>13, Kinds DEF Announce, Leave
  <2>2. toHost' \in Seq(Echo \cup NameService)
    BY <2>1, EchoesSame
  <2>3. CASE Announce
    BY <2>2, <2>3 DEF Announce, TypeOK
  <2>4. CASE Leave
    <3>1. toRemote' \in Seq(Payload) /\ Len(toRemote') = 0
      BY <2>4 DEF Leave
    <3>2. QED
      BY <2>2, <2>4, <3>1 DEF Leave, TypeOK
  <2>5. QED
    BY <1>13, <2>3, <2>4
<1>14. CASE RemoteEcho
  <2>1. toRemote # <<>> /\ toRemote' = Tail(toRemote) /\ toRemote \in Seq(Payload)
    BY <1>14 DEF RemoteEcho, TypeOK
  <2>2. /\ toRemote' \in Seq(Payload) /\ Len(toRemote) \in Nat
        /\ Len(toRemote') = Len(toRemote) - 1
    BY <2>1, TailFacts
  <2>3. toHost' \in Seq(Echo \cup NameService)
    <3>1. CASE toHost' = toHost
      BY <3>1 DEF TypeOK
    <3>2. CASE \E m \in Echo : toHost' = Append(toHost, m)
      BY <3>2, EchoesMore
    <3>3. QED
      BY <1>14, <3>1, <3>2 DEF RemoteEcho
  <2>4. TypeOK'
    BY <1>14, <2>2, <2>3 DEF RemoteEcho, TypeOK
  <2>5. QED
    BY <1>14, <2>4 DEF RemoteEcho
<1>15. CASE UNCHANGED vars
  BY <1>15 DEF vars, TypeOK
<1>16. QED
  BY <1>1, <1>2, <1>3, <1>4, <1>5, <1>6, <1>7, <1>8, <1>9, <1>10, <1>11, <1>12, <1>13,
     <1>14, <1>15 DEF Next, AppStep

(***************************************************************************)
(* The variables of the echo test keep their types, whether its counters   *)
(* are static or not.                                                      *)
(***************************************************************************)
THEOREM TypeCorrect == Spec => []TypeOK
<1>1. TInv => TypeOK
  BY DEF TInv
<1>2. QED
  BY TypeInit, TypeStep, <1>1, PTL DEF Spec

-----------------------------------------------------------------------------
LEMMA InitInv == Init => IInv
<1> SUFFICES ASSUME Init PROVE IInv
  OBVIOUS
<1> USE EchoAssumption DEF Init
<1>1. TypeOK /\ Untouched /\ Counted
  BY TypeInit DEF TInv
<1>2. Echoes = {}
  BY DEF Echoes
<1>3. ErrorIsLoss
  BY DEF ErrorIsLoss
<1>4. OnePlace
  BY <1>2 DEF OnePlace
<1>5. InStep
  BY <1>1, <1>2 DEF InStep, OneUnderWay
<1>6. Unbroken /\ Called
  BY <1>2 DEF Unbroken, Called, NoneUnderWay
<1>7. QED
  BY <1>1, <1>3, <1>4, <1>5, <1>6 DEF IInv

LEMMA TypeKept == IInv /\ [Next]_vars => TypeOK' /\ Untouched' /\ Counted'
  BY TypeStep DEF IInv, TInv

\* The name service: Unbroken and Called.
LEMMA ServiceStep == IInv /\ [Next]_vars => Unbroken' /\ Called'
<1> SUFFICES ASSUME IInv, [Next]_vars PROVE Unbroken' /\ Called'
  OBVIOUS
<1> USE EchoAssumption DEF Goto, local, counters, peer
<1>0. TypeOK /\ TypeOK' /\ Unbroken /\ Called
  BY TypeKept DEF IInv
<1>1. CASE Start
  <2>1. toHost' = <<>> /\ toRemote' = <<>> /\ ~announced' /\ remote' = "away" /\ pc' = "init"
    BY <1>1 DEF Start
  <2>2. Echoes' = {} /\ DOMAIN toHost' = {}
    BY <2>1 DEF Echoes
  <2>3. QED
    BY <2>1, <2>2 DEF Unbroken, Called, NoneUnderWay
<1>2. CASE \/ PayloadInit \/ CreateEpt \/ Polls \/ PollReturns \/ Bound \/ SendFails
           \/ AllSent \/ Echoed \/ NextPayload \/ Report \/ Shutdown \/ Stop
           \/ UNCHANGED vars
  <2>1. UNCHANGED <<toHost, toRemote, announced, remote, left>>
    BY <1>2 DEF PayloadInit, CreateEpt, Polls, PollReturns, Bound, SendFails, AllSent,
         Echoed, NextPayload, Report, Shutdown, Stop, vars, vrings
  <2>2. NoneUnderWay' <=> NoneUnderWay
    BY <2>1 DEF NoneUnderWay, Echoes
  <2>3. ~left /\ pc' \in {"send", "poll", "polled", "echoed"} => announced
    BY <1>0, <1>2 DEF PayloadInit, CreateEpt, Polls, PollReturns, Bound, SendFails, AllSent,
         Echoed, NextPayload, Report, Shutdown, Stop, vars, Unbroken
  <2>4. Called'
    BY <1>0, <2>1 DEF Called
  <2>5. QED
    BY <1>0, <2>1, <2>2, <2>3, <2>4 DEF Unbroken
<1>3. CASE Send
  BY <1>0, <1>3 DEF Send, Unbroken, Called
<1>4. CASE Receive
  <2>1. /\ toHost # <<>> /\ toHost' = Tail(toHost)
        /\ UNCHANGED <<pc, remote, left, toRemote>>
    BY <1>4 DEF Receive
  <2>2. /\ \A c \in Echoes' : c \in Nat /\ c + 1 \in Echoes
        /\ Head(toHost) = toHost[1]
    BY <1>0, <2>1, EchoesTail
  <2>3. /\ 1 \in DOMAIN toHost /\ DOMAIN toHost \subseteq Nat \ {0}
        /\ \A k \in DOMAIN toHost' : k + 1 \in DOMAIN toHost /\ toHost'[k] = toHost[k + 1]
        /\ \A k \in DOMAIN toHost : k # 1 =>
             k - 1 \in DOMAIN toHost' /\ toHost'[k - 1] = toHost[k]
    <3>1. toHost \in Seq(Echo \cup NameService)
      BY <1>0 DEF TypeOK
    <3>2. /\ Len(toHost) \in Nat \ {0} /\ Len(toHost') = Len(toHost) - 1
          /\ \A k \in 1 .. Len(toHost) - 1 : toHost'[k] = toHost[k + 1]
          /\ DOMAIN toHost = 1 .. Len(toHost) /\ DOMAIN toHost' = 1 .. Len(toHost')
      BY <2>1, <3>1, TailFacts
    <3>3. QED
      BY <3>2
  <2>4. /\ toHost[1].kind = "ns" => announced'
        /\ toHost[1].kind \notin {"ns", "gone"} => announced' = announced
        /\ toHost[1].kind # "gone" /\ announced => announced'
        /\ announced' => announced \/ toHost[1].kind = "ns"
    BY <1>4, <2>2, Kinds DEF Receive, Bind, Unbind
  <2>5. NoneUnderWay => NoneUnderWay'
    BY <2>1, <2>2 DEF NoneUnderWay
  <2>6. Unbroken'
    <3> SUFFICES ASSUME ~left PROVE Unbroken'
      BY <2>1 DEF Unbroken
    <3>1. \A k \in DOMAIN toHost' :
            toHost'[k].kind # "gone" /\ (toHost'[k].kind = "ns" => remote' = "here")
      BY <1>0, <2>1, <2>3 DEF Unbroken
    <3>2. (announced => announced') /\ (announced' => remote' = "here")
      BY <1>0, <2>1, <2>3, <2>4 DEF Unbroken
    <3>3. QED
      BY <1>0, <2>1, <2>5, <3>1, <3>2 DEF Unbroken
  <2>7. Called'
    <3> SUFFICES ASSUME remote = "here" PROVE Called'
      BY <2>1 DEF Called
    <3>1. announced' \/ \E k \in DOMAIN toHost' : toHost'[k].kind = "ns"
      <4>1. CASE toHost[1].kind = "ns"
        BY <2>4, <4>1
      <4>2. CASE toHost[1].kind = "gone"
        <5>1. PICK k \in DOMAIN toHost : 1 < k /\ toHost[k].kind = "ns"
          BY <1>0, <2>3, <4>2 DEF Called
        <5>2. QED
          BY <2>3, <5>1
      <4>3. CASE toHost[1].kind \notin {"ns", "gone"}
        BY <1>0, <2>3, <2>4, <4>3 DEF Called
      <4>4. QED
        BY <4>1, <4>2, <4>3
    <3>2. ASSUME NEW j \in DOMAIN toHost', toHost'[j].kind = "gone"
          PROVE  \E k \in DOMAIN toHost' : j < k /\ toHost'[k].kind = "ns"
      <4>1. j + 1 \in DOMAIN toHost /\ toHost[j + 1].kind = "gone" /\ j \in Nat
        <5>1. DOMAIN toHost' \subseteq Nat
          BY <1>0 DEF TypeOK
        <5>2. QED
          BY <2>3, <3>2, <5>1
      <4>2. PICK k \in DOMAIN toHost : j + 1 < k /\ toHost[k].kind = "ns"
        BY <1>0, <4>1 DEF Called
      <4>3. k \in Nat /\ k - 1 \in DOMAIN toHost' /\ toHost'[k - 1].kind = "ns" /\ j < k - 1
        BY <2>3, <4>1, <4>2
      <4>4. QED
        BY <4>3
    <3>3. QED
      BY <3>1, <3>2 DEF Called
  <2>8. QED
    BY <2>6, <2>7
<1>5. CASE Announce
  <2>1. toHost' = Append(toHost, [kind |-> "ns"]) /\ remote' = "here"
        /\ UNCHANGED <<pc, announced, left, toRemote>>
    BY <1>5 DEF Announce
  <2>2. Echoes' = Echoes
    BY <1>0, <2>1, EchoesSame, Kinds
  <2>3. /\ DOMAIN toHost \subseteq DOMAIN toHost' /\ Len(toHost) + 1 \in DOMAIN toHost'
        /\ DOMAIN toHost' = DOMAIN toHost \cup {Len(toHost) + 1}
        /\ \A k \in DOMAIN toHost : k < Len(toHost) + 1 /\ toHost'[k] = toHost[k]
        /\ toHost'[Len(toHost) + 1] = [kind |-> "ns"]
    <3>1. toHost \in Seq(Echo \cup NameService) /\ [kind |-> "ns"] \in Echo \cup NameService
      BY <1>0, Kinds DEF TypeOK
    <3>2. QED
      BY <2>1, <3>1, AppendFacts
  <2>4. NoneUnderWay' <=> NoneUnderWay
    BY <2>1, <2>2 DEF NoneUnderWay
  <2>5. Unbroken'
    BY <1>0, <2>1, <2>3, <2>4 DEF Unbroken
  <2>6. Called'
    <3>1. toHost'[Len(toHost) + 1].kind = "ns"
      BY <2>3
    <3>2. \A j \in DOMAIN toHost' : toHost'[j].kind = "gone" => j < Len(toHost) + 1
      BY <2>3, <3>1
    <3>3. QED
      BY <2>3, <3>1, <3>2 DEF Called
  <2>7. QED
    BY <2>5, <2>6
<1>6. CASE Leave
  BY <1>6 DEF Leave, Unbroken, Called
<1>7. CASE RemoteEcho
  <2>1. /\ toRemote # <<>> /\ UNCHANGED <<pc, announced, remote, left>>
        /\ toHost' = toHost \/ \E m \in Echo : toHost' = Append(toHost, m)
    BY <1>7 DEF RemoteEcho
  <2>2. /\ DOMAIN toHost \subseteq DOMAIN toHost'
        /\ \A k \in DOMAIN toHost : toHost'[k] = toHost[k]
        /\ \A k \in DOMAIN toHost' \ DOMAIN toHost : toHost'[k].kind \notin {"ns", "gone"}
    <3>1. CASE toHost' = toHost
      BY <3>1
    <3>2. ASSUME NEW m \in Echo, toHost' = Append(toHost, m)
          PROVE  /\ DOMAIN toHost \subseteq DOMAIN toHost'
                 /\ \A k \in DOMAIN toHost : toHost'[k] = toHost[k]
                 /\ \A k \in DOMAIN toHost' \ DOMAIN toHost : toHost'[k].kind \notin {"ns", "gone"}
      <4>1. toHost \in Seq(Echo \cup NameService) /\ m \in Echo \cup NameService
        BY <1>0 DEF TypeOK
      <4>2. /\ DOMAIN toHost = 1 .. Len(toHost) /\ DOMAIN toHost' = 1 .. Len(toHost) + 1
            /\ \A k \in 1 .. Len(toHost) : toHost'[k] = toHost[k]
            /\ toHost'[Len(toHost) + 1] = m /\ Len(toHost) \in Nat
        BY <3>2, <4>1, AppendFacts
      <4>3. m.kind \notin {"ns", "gone"}
        BY Kinds
      <4>4. QED
        BY <4>2, <4>3
    <3>3. QED
      BY <2>1, <3>1, <3>2
  <2>3. ~left => announced
    BY <1>0, <2>1 DEF Unbroken, NoneUnderWay
  <2>4. Unbroken'
    BY <1>0, <2>1, <2>2, <2>3 DEF Unbroken
  <2>5. Called'
    <3>1. remote = "here" => announced \/ \E k \in DOMAIN toHost' : toHost'[k].kind = "ns"
      BY <1>0, <2>2 DEF Called
    <3>2. ASSUME remote = "here", NEW j \in DOMAIN toHost', toHost'[j].kind = "gone"
          PROVE  \E k \in DOMAIN toHost' : j < k /\ toHost'[k].kind = "ns"
      BY <1>0, <2>2, <3>2 DEF Called
    <3>3. QED
      BY <2>1, <3>1, <3>2 DEF Called
  <2>6. QED
    BY <2>4, <2>5
<1>8. QED
  BY <1>1, <1>2, <1>3, <1>4, <1>5, <1>6, <1>7 DEF Next, AppStep

-----------------------------------------------------------------------------
\* What a step that moves no message and counts nothing keeps.
Quiet == UNCHANGED <<expect_rnum, rnum, err_cnt, toRemote, toHost, validated>>

LEMMA QuietStep ==
  ASSUME IInv, Quiet
  PROVE  /\ Echoes' = Echoes /\ OnePlace' /\ ErrorIsLoss' /\ (AllBack' <=> AllBack)
         /\ NoneUnderWay' <=> NoneUnderWay
<1> USE DEF Quiet
<1>1. Echoes' = Echoes
  BY DEF Echoes
<1>2. OnePlace' /\ ErrorIsLoss'
  BY <1>1 DEF IInv, OnePlace, ErrorIsLoss
<1>3. (AllBack' <=> AllBack) /\ (NoneUnderWay' <=> NoneUnderWay)
  BY <1>1 DEF AllBack, NoneUnderWay
<1>4. QED
  BY <1>1, <1>2, <1>3

LEMMA QuietSteps ==
  ASSUME IInv,
         \/ PayloadInit \/ CreateEpt \/ Polls \/ PollReturns \/ Bound \/ SendFails
         \/ AllSent \/ Echoed \/ NextPayload \/ Report \/ Shutdown \/ Stop
         \/ UNCHANGED vars
  PROVE  IInv'
<1> USE EchoAssumption DEF IInv
<1>1. Quiet
  BY DEF PayloadInit, CreateEpt, Polls, PollReturns, Bound, SendFails, AllSent,
         Echoed, NextPayload, Report, Shutdown, Stop, vars, Quiet, counters, vrings
<1>2. /\ Echoes' = Echoes /\ OnePlace' /\ ErrorIsLoss' /\ (AllBack' <=> AllBack)
      /\ NoneUnderWay' <=> NoneUnderWay
  BY <1>1, QuietStep
<1>3. TypeOK' /\ Untouched' /\ Counted'
  BY TypeKept DEF Next, AppStep
<1>4. OneUnderWay => OneUnderWay'
  BY <1>1, <1>2, <1>3 DEF OneUnderWay, Quiet
<1>5. InStep'
  <2> USE <1>1, <1>2, <1>4 DEF Quiet, InStep, Goto, TypeOK, peer
  <2>1. CASE PayloadInit
    BY <2>1 DEF PayloadInit
  <2>2. CASE CreateEpt
    BY <2>2 DEF CreateEpt
  <2>3. CASE Polls \/ PollReturns \/ Bound
    BY <2>3 DEF Polls, PollReturns, Bound
  <2>4. CASE SendFails
    BY <2>4 DEF SendFails
  <2>5. CASE AllSent
    BY <2>5 DEF AllSent
  <2>6. CASE Echoed
    BY <2>6 DEF Echoed, local
  <2>7. CASE NextPayload
    BY <2>7 DEF NextPayload, AllBack
  <2>8. CASE Report \/ Shutdown
    BY <2>8 DEF Report, Shutdown
  <2>9. CASE Stop
    BY <2>9 DEF Stop
  <2>10. CASE UNCHANGED vars
    BY <2>10 DEF vars
  <2>11. QED
    BY <2>1, <2>2, <2>3, <2>4, <2>5, <2>6, <2>7, <2>8, <2>9, <2>10
<1>6. QED
  BY <1>2, <1>3, <1>5, ServiceStep DEF Next, AppStep

-----------------------------------------------------------------------------
\* A new run has counters of its own: its thread's, or untouched ones.
LEMMA StartStep == OwnCounters /\ IInv /\ Start => IInv'
<1> SUFFICES ASSUME OwnCounters, IInv, Start PROVE IInv'
  OBVIOUS
<1> USE EchoAssumption DEF Start, Goto, IInv
<1>1. rnum' = 0 /\ err_cnt' = 0
  BY DEF OwnCounters, Untouched, TypeOK
<1>2. Echoes' = {}
  BY DEF Echoes
<1>3. TypeOK' /\ Untouched' /\ Counted'
  BY TypeKept DEF Next
<1>5. ErrorIsLoss'
  BY <1>1 DEF ErrorIsLoss
<1>6. OnePlace'
  BY <1>2 DEF OnePlace
<1>7. InStep'
  BY <1>1, <1>2, <1>3 DEF InStep, OneUnderWay, AllBack, NoneUnderWay
<1>8. QED
  BY <1>3, <1>5, <1>6, <1>7, ServiceStep DEF Next

\* The payload sent is the next one; if nothing was under way it alone is.
LEMMA SendStep == IInv /\ Send => IInv'
<1> SUFFICES ASSUME IInv, Send PROVE IInv'
  OBVIOUS
<1> USE EchoAssumption DEF Send, Goto, IInv, local, peer
<1>1. /\ toRemote \in Seq(Payload) /\ Len(toRemote) \in Nat /\ expect_rnum \in Nat
      /\ i = expect_rnum /\ i \in Payload /\ expect_rnum' = expect_rnum + 1
  BY DEF TypeOK, Counted, Payload
<1>2. /\ toRemote' \in Seq(Payload) /\ Len(toRemote') = Len(toRemote) + 1
      /\ \A a \in 1 .. Len(toRemote) : toRemote'[a] = toRemote[a]
      /\ toRemote'[Len(toRemote) + 1] = expect_rnum
  BY <1>1, AppendFacts
<1>3. Echoes' = Echoes
  BY DEF Echoes
<1>4. TypeOK' /\ Untouched' /\ Counted'
  BY TypeKept DEF Next, AppStep
<1>6. OnePlace'
  <2>1. validated' \subseteq 0 .. expect_rnum' - 1
    BY <1>1 DEF OnePlace
  <2>2. ASSUME NEW a \in 1 .. Len(toRemote')
        PROVE  /\ toRemote'[a] < expect_rnum' /\ toRemote'[a] \notin validated'
               /\ \A b \in 1 .. Len(toRemote') : toRemote'[a] = toRemote'[b] => a = b
               /\ \A c \in Echoes' : toRemote'[a] # toHost'[c].num
    <3>1. CASE a = Len(toRemote) + 1
      BY <1>1, <1>2, <1>3, <3>1 DEF OnePlace
    <3>2. CASE a \in 1 .. Len(toRemote)
      <4>1. toRemote[a] \in Nat
        BY <1>1, <3>2 DEF Payload
      <4>2. QED
        BY <1>1, <1>2, <1>3, <3>2, <4>1 DEF OnePlace
    <3>3. QED
      BY <1>1, <1>2, <3>1, <3>2
  <2>3. ASSUME NEW c \in Echoes'
        PROVE  /\ toHost'[c].num < expect_rnum' /\ toHost'[c].num \notin validated'
               /\ \A d \in Echoes' : toHost'[c].num = toHost'[d].num => c = d
    <3>1. toHost[c].num \in Nat
      BY <1>3, Kinds DEF Echoes, Payload
    <3>2. QED
      BY <1>1, <1>3, <3>1 DEF OnePlace
  <2>4. QED
    BY <2>1, <2>2, <2>3 DEF OnePlace
<1>7. ErrorIsLoss'
  BY <1>1, <1>2, <1>3 DEF ErrorIsLoss
<1>8. InStep'
  <2> SUFFICES ASSUME err_cnt = 0 PROVE InStep'
    BY DEF InStep
  <2>1. AllBack
    BY DEF InStep
  <2>2. rnum' = expect_rnum' - 1 /\ validated' = 0 .. expect_rnum' - 2
    BY <1>1, <2>1 DEF AllBack
  <2>3. OneUnderWay'
    BY <1>1, <1>2, <1>3, <1>4, <2>1 DEF OneUnderWay, AllBack, NoneUnderWay
  <2>4. ~NoneUnderWay'
    BY <1>1, <1>2 DEF NoneUnderWay
  <2>5. QED
    BY <2>2, <2>3, <2>4 DEF InStep
<1>9. QED
  BY <1>4, <1>6, <1>7, <1>8, ServiceStep DEF Next, AppStep

-----------------------------------------------------------------------------
\* The remote core announces its endpoint or takes it back.
LEMMA PeerStep == IInv /\ (Announce \/ Leave) => IInv'
<1> SUFFICES ASSUME IInv, Announce \/ Leave PROVE IInv'
  OBVIOUS
<1> USE EchoAssumption DEF IInv
<1>1. PICK m \in NameService : toHost' = Append(toHost, m)
  BY Kinds DEF Announce, Leave
<1>2. /\ Echoes' = Echoes /\ toHost' \in Seq(Echo \cup NameService)
      /\ \A c \in Echoes : toHost'[c] = toHost[c]
  BY <1>1, EchoesSame
<1>3. toRemote' \in {toRemote, <<>>} /\ UNCHANGED <<pc, local, i, counters, announced, validated>>
  BY DEF Announce, Leave
<1>4. /\ toRemote' \in Seq(Payload) /\ Len(toRemote') \in Nat /\ Len(toRemote') <= Cap
      /\ Len(toRemote') <= Len(toRemote)
      /\ \A a \in 1 .. Len(toRemote') : a \in 1 .. Len(toRemote) /\ toRemote'[a] = toRemote[a]
      /\ toRemote = <<>> => toRemote' = <<>>
  <2>1. /\ <<>> \in Seq(Payload) /\ Len(<<>>) = 0 /\ toRemote \in Seq(Payload)
        /\ Len(toRemote) \in Nat /\ Len(toRemote) <= Cap
    BY DEF TypeOK
  <2>2. CASE toRemote' = toRemote
    BY <2>1, <2>2
  <2>3. CASE toRemote' = <<>>
    BY <2>1, <2>3, EchoAssumption
  <2>4. QED
    BY <1>3, <2>2, <2>3
<1>5. TypeOK' /\ Untouched' /\ Counted'
  BY TypeKept DEF Next
<1> USE <1>3 DEF local, counters
<1>7. OnePlace'
  BY <1>2, <1>4 DEF OnePlace
<1>8. ErrorIsLoss'
  BY <1>2, <1>4 DEF ErrorIsLoss
<1>9. InStep'
  <2>1. AllBack => AllBack'
    BY <1>2, <1>4 DEF AllBack, NoneUnderWay
  <2>2. err_cnt = 0 => OneUnderWay'
    <3>1. OneUnderWay => OneUnderWay'
      BY <1>2, <1>4, <1>5 DEF OneUnderWay
    <3>2. QED
      BY <3>1 DEF InStep
  <2>3. (left \/ ~NoneUnderWay) => (left' \/ ~NoneUnderWay')
    BY <1>2 DEF Announce, Leave, NoneUnderWay
  <2>4. QED
    BY <2>1, <2>2, <2>3 DEF InStep
<1>10. QED
  BY <1>5, <1>7, <1>8, <1>9, ServiceStep DEF Next

\* The payload echoed, or lost, is no longer with the remote core.
LEMMA RemoteEchoStep == IInv /\ RemoteEcho => IInv'
<1> SUFFICES ASSUME IInv, RemoteEcho PROVE IInv'
  OBVIOUS
<1> USE EchoAssumption DEF IInv
<1>1. /\ toRemote # <<>> /\ toRemote' = Tail(toRemote)
      /\ UNCHANGED <<pc, run, num, force_stop, i, expect_rnum, rnum, err_cnt, announced,
                     remote, left, validated>>
  BY DEF RemoteEcho, local, counters, peer
<1>2. toRemote \in Seq(Payload) /\ Len(toRemote) <= Cap
  BY DEF TypeOK
<1>3. /\ toRemote' \in Seq(Payload) /\ Len(toRemote) \in Nat \ {0}
      /\ Len(toRemote') = Len(toRemote) - 1 /\ Head(toRemote) = toRemote[1]
      /\ \A a \in 1 .. Len(toRemote) - 1 : toRemote'[a] = toRemote[a + 1]
  BY <1>1, <1>2, TailFacts
<1>4. \A a \in 1 .. Len(toRemote') :
        /\ a + 1 \in 1 .. Len(toRemote) /\ a + 1 # 1 /\ toRemote'[a] = toRemote[a + 1]
        /\ toRemote'[a] # toRemote[1]
  <2>1. 1 \in 1 .. Len(toRemote)
    BY <1>3
  <2>2. \A a \in 1 .. Len(toRemote') :
          a \in Nat /\ a + 1 \in 1 .. Len(toRemote) /\ a + 1 # 1 /\ toRemote'[a] = toRemote[a + 1]
    BY <1>3
  <2>3. QED
    BY <2>1, <2>2 DEF OnePlace
<1>5. TypeOK' /\ Untouched' /\ Counted'
  BY TypeKept DEF Next
<1>6. CASE toHost' = toHost
  <2>1. Echoes' = Echoes /\ toHost' = toHost
    BY <1>6 DEF Echoes
  <2>2. TypeOK'
    BY <1>5
  <2>3. OnePlace'
    <3>1. \A a, b \in 1 .. Len(toRemote') : toRemote'[a] = toRemote'[b] => a = b
      BY <1>3, <1>4 DEF OnePlace
    <3>2. QED
      BY <1>1, <1>4, <2>1, <3>1 DEF OnePlace
  <2>4. ErrorIsLoss'
    BY <1>1, <1>4, <2>1 DEF ErrorIsLoss
  <2>5. InStep'
    <3>1. ~AllBack
      BY <1>1 DEF AllBack, NoneUnderWay
    <3>2. OneUnderWay => OneUnderWay'
      BY <1>1, <1>3, <2>1, <2>2 DEF OneUnderWay
    <3>3. left'
      <4>1. ~NoneUnderWay /\ remote = "away"
        <5>1. \A m \in Echo : toHost' # Append(toHost, m)
          <6>1. toHost \in Seq(Echo \cup NameService)
            BY <2>2 DEF TypeOK
          <6>2. ASSUME NEW m \in Echo PROVE Append(toHost, m) # toHost
            <7>1. Len(Append(toHost, m)) = Len(toHost) + 1 /\ Len(toHost) \in Nat
              BY <6>1, AppendFacts
            <7>2. QED
              BY <7>1
          <6>3. QED
            BY <1>6, <6>2
        <5>2. QED
          BY <1>1, <5>1 DEF RemoteEcho, NoneUnderWay
      <4>2. QED
        BY <1>1, <4>1 DEF Unbroken, TypeOK
    <3>4. QED
      BY <1>1, <3>1, <3>2, <3>3 DEF InStep
  <2>6. QED
    BY <1>5, <2>2, <2>3, <2>4, <2>5, ServiceStep DEF Next
<1>7. ASSUME NEW m \in Echo, m.num = Head(toRemote), toHost' = Append(toHost, m)
      PROVE  IInv'
  <2>1. /\ Echoes' = Echoes \cup {Len(toHost) + 1} /\ Len(toHost) + 1 \notin Echoes
        /\ \A c \in Echoes : toHost'[c] = toHost[c]
        /\ toHost'[Len(toHost) + 1] = m
        /\ toHost' \in Seq(Echo \cup NameService)
    BY <1>7, EchoesMore
  <2>2. TypeOK'
    BY <1>5
  <2>3. /\ m.num < expect_rnum /\ m.num \notin validated
        /\ \A a \in 1 .. Len(toRemote') : toRemote'[a] # m.num
        /\ \A c \in Echoes : toHost[c].num # m.num
    <3>1. 1 \in 1 .. Len(toRemote)
      BY <1>3
    <3>2. QED
      BY <1>3, <1>4, <1>7, <3>1 DEF OnePlace
  <2>4. OnePlace'
    <3>1. \A a, b \in 1 .. Len(toRemote') : toRemote'[a] = toRemote'[b] => a = b
      BY <1>3, <1>4 DEF OnePlace
    <3>2. \A a \in 1 .. Len(toRemote') :
            /\ toRemote'[a] < expect_rnum' /\ toRemote'[a] \notin validated'
            /\ \A c \in Echoes' : toRemote'[a] # toHost'[c].num
      BY <1>1, <1>4, <2>1, <2>3 DEF OnePlace
    <3>3. \A c \in Echoes' :
            /\ toHost'[c].num < expect_rnum' /\ toHost'[c].num \notin validated'
            /\ \A d \in Echoes' : toHost'[c].num = toHost'[d].num => c = d
      BY <1>1, <2>1, <2>3 DEF OnePlace
    <3>4. QED
      BY <1>1, <3>1, <3>2, <3>3 DEF OnePlace
  <2>5. ErrorIsLoss'
    <3>1. 1 \in 1 .. Len(toRemote)
      BY <1>3
    <3> SUFFICES ASSUME err_cnt # 0 PROVE ErrorIsLoss'
      BY <1>1 DEF ErrorIsLoss
    <3>2. PICK p \in 0 .. expect_rnum - 1 :
            /\ p \notin validated
            /\ \A a \in 1 .. Len(toRemote) : toRemote[a] # p
            /\ \A c \in Echoes : toHost[c].num # p
      BY DEF ErrorIsLoss
    <3>3. m.num # p
      BY <1>3, <1>7, <3>1, <3>2
    <3>4. \A a \in 1 .. Len(toRemote') : toRemote'[a] # p
      BY <1>4, <3>2
    <3>5. \A c \in Echoes' : toHost'[c].num # p
      BY <2>1, <3>2, <3>3
    <3>6. QED
      BY <1>1, <3>2, <3>4, <3>5 DEF ErrorIsLoss
  <2>6. InStep'
    <3>1. ~AllBack
      BY <1>1 DEF AllBack, NoneUnderWay
    <3>2. OneUnderWay => OneUnderWay'
      <4> SUFFICES ASSUME OneUnderWay, err_cnt = 0 PROVE OneUnderWay'
        BY <1>1, <2>2 DEF OneUnderWay
      <4>1. Echoes = {} /\ Len(toRemote') = 0
        BY <1>1, <1>3 DEF OneUnderWay
      <4>2. toRemote' = <<>>
        BY <1>3, <4>1
      <4>3. QED
        BY <2>1, <2>2, <4>1, <4>2 DEF OneUnderWay
    <3>3. ~NoneUnderWay'
      BY <2>1 DEF NoneUnderWay
    <3>4. QED
      BY <1>1, <3>1, <3>2, <3>3 DEF InStep
  <2>7. QED
    BY <1>5, <2>2, <2>4, <2>5, <2>6, ServiceStep DEF Next
<1>8. QED
  BY <1>6, <1>7 DEF RemoteEcho

-----------------------------------------------------------------------------
\* A message taken that counts nothing: the name service's, or an echo dropped.
LEMMA DropStep ==
  ASSUME IInv, Receive, UNCHANGED <<rnum, err_cnt, validated>>,
         Head(toHost) \notin Echo \/ ~announced
  PROVE  IInv'
<1> USE EchoAssumption DEF IInv
<1>1. /\ toHost # <<>> /\ toHost' = Tail(toHost) /\ pc \in {"bind_poll", "poll"}
      /\ UNCHANGED <<pc, run, num, force_stop, i, expect_rnum, rnum, err_cnt, remote, left,
                     toRemote, validated>>
  BY DEF Receive, local, peer
<1>2. /\ \A c \in Echoes' : c \in Nat /\ c + 1 \in Echoes /\ toHost'[c] = toHost[c + 1]
      /\ toHost' \in Seq(Echo \cup NameService)
  BY <1>1, EchoesTail
<1>4. TypeOK' /\ Untouched' /\ Counted'
  BY TypeKept DEF Next, AppStep
<1>6. OnePlace'
  <2>1. \A c, d \in Echoes' : toHost'[c].num = toHost'[d].num => c = d
    BY <1>2 DEF OnePlace
  <2>2. \A a \in 1 .. Len(toRemote') : \A c \in Echoes' : toRemote'[a] # toHost'[c].num
    <3>1. \A a \in 1 .. Len(toRemote) : \A c \in Echoes : toRemote[a] # toHost[c].num
      BY DEF OnePlace
    <3>2. QED
      BY <1>1, <1>2, <3>1
  <2>3. \A c \in Echoes' : toHost'[c].num < expect_rnum' /\ toHost'[c].num \notin validated'
    BY <1>1, <1>2 DEF OnePlace
  <2>4. QED
    BY <1>1, <2>1, <2>2, <2>3 DEF OnePlace
<1>7. ErrorIsLoss'
  <2> SUFFICES ASSUME err_cnt # 0 PROVE ErrorIsLoss'
    BY <1>1 DEF ErrorIsLoss
  <2>1. PICK p \in 0 .. expect_rnum - 1 :
          /\ p \notin validated
          /\ \A a \in 1 .. Len(toRemote) : toRemote[a] # p
          /\ \A c \in Echoes : toHost[c].num # p
    BY DEF ErrorIsLoss
  <2>2. \A c \in Echoes' : toHost'[c].num # p
    BY <1>2, <2>1
  <2>3. QED
    BY <1>1, <2>1, <2>2 DEF ErrorIsLoss
<1>8. InStep'
  <2>1. AllBack => AllBack'
    BY <1>1, <1>2 DEF AllBack, NoneUnderWay
  <2>2. OneUnderWay => OneUnderWay'
    <3>1. Echoes = {} => Echoes' = {}
      BY <1>2
    <3>2. (\A j, k \in Echoes : j = k) => \A j, k \in Echoes' : j = k
      BY <1>2
    <3>3. QED
      BY <1>1, <1>4, <3>1, <3>2 DEF OneUnderWay
  <2>3. (left \/ ~NoneUnderWay) => (left \/ ~NoneUnderWay')
    <3> SUFFICES ASSUME ~left, ~NoneUnderWay PROVE ~NoneUnderWay'
      OBVIOUS
    <3>1. announced /\ Head(toHost) \notin Echo
      BY DEF Unbroken
    <3>2. \A c \in Echoes : c - 1 \in Echoes'
      BY <1>1, <3>1, EchoesTail
    <3>3. QED
      BY <1>1, <3>2 DEF NoneUnderWay
  <2>4. QED
    BY <1>1, <2>1, <2>2, <2>3 DEF InStep
<1>9. QED
  BY <1>4, <1>6, <1>7, <1>8, ServiceStep DEF Next, AppStep

\* rpmsg_service_cb0: without an error so far, the echo is that of the last payload.
LEMMA Cb0Step ==
  ASSUME IInv, Receive, NEW m \in Echo, m = Head(toHost), Cb0(m), UNCHANGED announced
  PROVE  IInv'
<1> USE EchoAssumption DEF IInv
<1>1. /\ toHost # <<>> /\ toHost' = Tail(toHost) /\ pc \in {"bind_poll", "poll"}
      /\ UNCHANGED <<pc, run, num, force_stop, i, expect_rnum, remote, left, toRemote>>
  BY DEF Receive, local, peer
<1>2. /\ \A c \in Echoes' : c \in Nat /\ c + 1 \in Echoes /\ toHost'[c] = toHost[c + 1]
      /\ 1 \in Echoes /\ toHost[1] = m /\ 0 \notin Echoes'
      /\ toHost' \in Seq(Echo \cup NameService)
  BY <1>1, EchoesTail
<1>3. /\ m.num \in Payload /\ m.num < expect_rnum /\ m.num \notin validated
      /\ \A a \in 1 .. Len(toRemote) : toRemote[a] # m.num
      /\ \A c \in Echoes' : toHost'[c].num # m.num
  <2>1. \A c \in Echoes' : c + 1 # 1
    BY <1>2
  <2>2. m.num \in Payload
    BY Kinds
  <2>3. QED
    BY <1>2, <2>1, <2>2 DEF OnePlace
<1>4. TypeOK' /\ Untouched' /\ Counted'
  BY TypeKept DEF Next, AppStep
<1>6. /\ validated' \subseteq validated \cup {m.num}
      /\ validated' \subseteq 0 .. expect_rnum' - 1
  <2>1. m.num \in 0 .. expect_rnum - 1
    BY <1>3 DEF Payload, TypeOK
  <2>2. validated' \in {validated, validated \cup {m.num}}
    BY DEF Cb0
  <2>3. validated \subseteq 0 .. expect_rnum - 1
    BY DEF OnePlace
  <2>4. QED
    BY <1>1, <2>1, <2>2, <2>3
<1>7. OnePlace'
  <2>1. \A c, d \in Echoes' : toHost'[c].num = toHost'[d].num => c = d
    BY <1>2 DEF OnePlace
  <2>2. \A a \in 1 .. Len(toRemote') :
          /\ toRemote'[a] < expect_rnum' /\ toRemote'[a] \notin validated'
          /\ \A b \in 1 .. Len(toRemote') : toRemote'[a] = toRemote'[b] => a = b
          /\ \A c \in Echoes' : toRemote'[a] # toHost'[c].num
    <3>0. \A a \in 1 .. Len(toRemote) : \A c \in Echoes : toRemote[a] # toHost[c].num
      BY DEF OnePlace
    <3>1. \A a \in 1 .. Len(toRemote') : \A c \in Echoes' : toRemote'[a] # toHost'[c].num
      BY <1>1, <1>2, <3>0
    <3>2. \A a \in 1 .. Len(toRemote') : toRemote'[a] \notin validated'
      BY <1>1, <1>3, <1>6 DEF OnePlace
    <3>3. QED
      BY <1>1, <3>1, <3>2 DEF OnePlace
  <2>3. \A c \in Echoes' : toHost'[c].num < expect_rnum' /\ toHost'[c].num \notin validated'
    BY <1>1, <1>2, <1>3, <1>6 DEF OnePlace
  <2>4. QED
    BY <1>6, <2>1, <2>2, <2>3 DEF OnePlace
<1>8. ErrorIsLoss'
  <2>1. CASE err_cnt # 0
    <3>1. PICK p \in 0 .. expect_rnum - 1 :
            /\ p \notin validated
            /\ \A a \in 1 .. Len(toRemote) : toRemote[a] # p
            /\ \A c \in Echoes : toHost[c].num # p
      BY <2>1 DEF ErrorIsLoss
    <3>2. p # m.num
      BY <1>2, <3>1
    <3>3. \A c \in Echoes' : toHost'[c].num # p
      BY <1>2, <3>1
    <3>4. p \in 0 .. expect_rnum' - 1 /\ p \notin validated'
      BY <1>1, <1>6, <3>1, <3>2
    <3>5. err_cnt' # 0 =>
            /\ \A a \in 1 .. Len(toRemote') : toRemote'[a] # p
            /\ \A c \in Echoes' : toHost'[c].num # p
      BY <1>1, <3>1, <3>3
    <3>6. QED
      BY <3>4, <3>5 DEF ErrorIsLoss
  <2>2. CASE err_cnt = 0 /\ m.kind # "intact"
    <3>1. validated' = validated
      BY <2>2 DEF Cb0
    <3>2. m.num \in 0 .. expect_rnum' - 1
      BY <1>1, <1>3 DEF Payload, TypeOK
    <3>3. QED
      BY <1>1, <1>3, <3>1, <3>2 DEF ErrorIsLoss
  <2>3. CASE err_cnt = 0 /\ m.kind = "intact"
    BY <2>3 DEF Cb0, ErrorIsLoss
  <2>4. QED
    BY <2>1, <2>2, <2>3
<1>9. InStep'
  <2> SUFFICES ASSUME err_cnt' = 0 PROVE InStep'
    BY DEF InStep
  <2>1. err_cnt = 0 /\ m.kind = "intact"
    BY DEF Cb0, TypeOK
  <2>2. rnum' = m.num + 1 /\ validated' = validated \cup {m.num}
    BY <2>1 DEF Cb0
  <2>3. pc = "poll" /\ validated = 0 .. expect_rnum - 2 /\ expect_rnum \in Nat \ {0}
    BY <1>1, <1>2, <2>1 DEF InStep, AllBack, NoneUnderWay, Counted, TypeOK
  <2>4. m.num = expect_rnum - 1
    BY <1>3, <2>3 DEF Payload
  <2>5. NoneUnderWay'
    <3>1. toRemote = <<>> /\ \A c \in Echoes : c = 1
      BY <1>2, <2>1 DEF InStep, OneUnderWay
    <3>2. Echoes' = {}
      BY <1>2, <3>1
    <3>3. QED
      BY <1>1, <3>1, <3>2 DEF NoneUnderWay
  <2>6. AllBack'
    BY <1>1, <2>2, <2>3, <2>4, <2>5 DEF AllBack
  <2>7. OneUnderWay'
    <3>1. toRemote' = <<>> /\ Echoes' = {} /\ Len(toRemote') = 0
      BY <2>5 DEF NoneUnderWay
    <3>2. QED
      BY <1>4, <3>1 DEF OneUnderWay
  <2>8. QED
    BY <1>1, <2>3, <2>6, <2>7 DEF InStep
<1>10. QED
  BY <1>4, <1>7, <1>8, <1>9, ServiceStep DEF Next, AppStep

LEMMA ReceiveStep == IInv /\ Receive => IInv'
<1> SUFFICES ASSUME IInv, Receive PROVE IInv'
  OBVIOUS
<1>1. CASE /\ Head(toHost) \notin Echo \/ ~announced
           /\ UNCHANGED <<rnum, err_cnt, validated>>
  BY <1>1, DropStep
<1>2. CASE Head(toHost) \in Echo /\ announced /\ Cb0(Head(toHost)) /\ UNCHANGED announced
  BY <1>2, Cb0Step
<1>3. Head(toHost).kind \in {"ns", "gone"} => Head(toHost) \notin Echo
  BY Kinds
<1>4. QED
  BY <1>1, <1>2, <1>3 DEF Receive, Bind, Unbind

-----------------------------------------------------------------------------
LEMMA StepInv == OwnCounters /\ IInv /\ [Next]_vars => IInv'
<1> SUFFICES ASSUME OwnCounters, IInv, [Next]_vars PROVE IInv'
  OBVIOUS
<1>1. CASE Start
  BY <1>1, StartStep
<1>2. CASE Send
  BY <1>2, SendStep
<1>3. CASE Receive
  BY <1>3, ReceiveStep
<1>4. CASE Announce \/ Leave
  BY <1>4, PeerStep
<1>5. CASE RemoteEcho
  BY <1>5, RemoteEchoStep
<1>6. QED
  BY <1>1, <1>2, <1>3, <1>4, <1>5, QuietSteps DEF Next, AppStep

(***************************************************************************)
(* At most one payload is under way until an error is counted, for any     *)
(* number of payloads and buffers.                                         *)
(***************************************************************************)
THEOREM OneUnderWayCorrect ==
  ASSUME OwnCounters
  PROVE  Spec => []OneUnderWay
<1>1. IInv => OneUnderWay
  BY DEF IInv, InStep, OneUnderWay
<1>2. IInv /\ [Next]_vars => IInv'
  BY StepInv
<1>3. QED
  BY InitInv, <1>1, <1>2, PTL DEF Spec

(***************************************************************************)
(* The report counts no error exactly if all payloads sent have come back  *)
(* intact, where each run has counters of its own.                         *)
(***************************************************************************)
THEOREM ReportCorrect ==
  ASSUME OwnCounters
  PROVE  Spec => []ReportIsTrue
<1>1. IInv => ReportIsTrue
  <2> SUFFICES ASSUME IInv, pc = "report" PROVE err_cnt = 0 <=> validated = 0 .. expect_rnum - 1
    BY DEF ReportIsTrue
  <2>1. err_cnt = 0 => validated = 0 .. expect_rnum - 1
    BY DEF IInv, InStep, AllBack
  <2>2. err_cnt # 0 => validated # 0 .. expect_rnum - 1
    BY DEF IInv, ErrorIsLoss
  <2>3. QED
    BY <2>1, <2>2
<1>2. IInv /\ [Next]_vars => IInv'
  BY StepInv
<1>3. QED
  BY InitInv, <1>1, <1>2, PTL DEF Spec

(***************************************************************************)
(* app never polls for an echo or an endpoint that cannot come, for any    *)
(* number of payloads and of announcements.                                *)
(***************************************************************************)
THEOREM AwaitedCorrect ==
  ASSUME OwnCounters
  PROVE  Spec => []AwaitedUnderWay
<1>1. IInv => AwaitedUnderWay
  <2> SUFFICES ASSUME IInv PROVE AwaitedUnderWay
    OBVIOUS
  <2>1. ASSUME pc \in {"poll", "polled"}, rnum < expect_rnum, err_cnt = 0, ~left
        PROVE  toRemote # <<>> \/ Echoes # {}
    <3>1. ~AllBack
      BY <2>1 DEF IInv, TypeOK, AllBack
    <3>2. QED
      BY <2>1, <3>1 DEF IInv, InStep, NoneUnderWay
  <2>2. QED
    BY <2>1 DEF IInv, Called, AwaitedUnderWay
<1>2. IInv /\ [Next]_vars => IInv'
  BY StepInv
<1>3. QED
  BY InitInv, <1>1, <1>2, PTL DEF Spec
=============================================================================
