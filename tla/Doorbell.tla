------------------------------ MODULE Doorbell ------------------------------
(***************************************************************************)
(* What the inter-processor interrupt promises to an RPMsg client: a core  *)
(* that puts buffers in a vring rings, and the ring stands until the       *)
(* client of this doorbell answers it with a look at the vrings.  A ring   *)
(* may be repeated, may come with no work and may merge with an earlier    *)
(* one; only an answer takes it away, one answer gives one look, and there *)
(* is no look that no ring asked for.  A look ends with the vrings empty,  *)
(* and the client does not leave in the middle of one.  The interrupt path *)
(* of each board (UIO event, libmetal interrupt thread, atomic flag,       *)
(* condition variable) implements this.                                    *)
(***************************************************************************)
CONSTANT Target         \* the doorbells: one per remote core

VARIABLES
  work,                 \* work[t]: buffers of t's vrings are not processed yet
  owed,                 \* owed[t]: a ring for t is not answered yet
  client                \* client[t]: t's client is "away", "there" or "looking"

vars == <<work, owed, client>>

TypeOK ==
  /\ work   \in [Target -> BOOLEAN]
  /\ owed   \in [Target -> BOOLEAN]
  /\ client \in [Target -> {"away", "there", "looking"}]

Init ==
  /\ work   = [t \in Target |-> FALSE]
  /\ owed   = [t \in Target |-> FALSE]
  /\ client = [t \in Target |-> "away"]

(***************************************************************************)
(* The remote core rings, with (more) work or without.                     *)
(***************************************************************************)
Ring(t) ==
  /\ owed' = [owed EXCEPT ![t] = TRUE]
  /\ \E w \in BOOLEAN : work' = [work EXCEPT ![t] = @ \/ w]
  /\ UNCHANGED client

(***************************************************************************)
(* The client takes the ring and begins its look; another may already      *)
(* stand behind it.                                                        *)
(***************************************************************************)
Answer(t) ==
  /\ client[t] = "there" /\ owed[t]
  /\ client' = [client EXCEPT ![t] = "looking"]
  /\ \E again \in BOOLEAN : owed' = [owed EXCEPT ![t] = again]
  /\ UNCHANGED work

(***************************************************************************)
(* It empties the vrings, and goes on looking or is done.                  *)
(***************************************************************************)
Serve(t) ==
  /\ client[t] = "looking"
  /\ work' = [work EXCEPT ![t] = FALSE]
  /\ \E c \in {"looking", "there"} : client' = [client EXCEPT ![t] = c]
  /\ UNCHANGED owed

\* A client comes, to the vrings as they are or to new ones, ...
Enter(t) ==
  /\ client[t] = "away"
  /\ client' = [client EXCEPT ![t] = "there"]
  /\ \E w \in {work[t], FALSE} : work' = [work EXCEPT ![t] = w]
  /\ UNCHANGED owed

\* ... and goes, never in the middle of a look.
Leave(t) ==
  /\ client[t] = "there"
  /\ client' = [client EXCEPT ![t] = "away"]
  /\ UNCHANGED <<work, owed>>

Next ==
  \E t \in Target : Ring(t) \/ Answer(t) \/ Serve(t) \/ Enter(t) \/ Leave(t)

SafeSpec == Init /\ [][Next]_vars

(***************************************************************************)
(* A client that stays answers the ring that stands for work, and each     *)
(* look comes to its end.                                                  *)
(***************************************************************************)
Spec ==
  /\ SafeSpec
  /\ \A t \in Target : WF_vars(work[t] /\ Answer(t)) /\ WF_vars(Serve(t))

(***************************************************************************)
(* Work is never left in a vring with no ring standing and no look going   *)
(* on.                                                                     *)
(***************************************************************************)
NoWorkWithoutRing == \A t \in Target : work[t] => owed[t] \/ client[t] = "looking"
=============================================================================
