----------------------------- MODULE Placement -----------------------------
(***************************************************************************)
(* What selected_candidates and execution_bridge promise together about    *)
(* one queued candidate: it is taken once, acted on at most once while it  *)
(* is in hand, recorded at most once after that, and never acted on again  *)
(* when it is settled - whoever crashes, fails or starts over.             *)
(***************************************************************************)
EXTENDS Naturals

CONSTANT Cands

VARIABLES
  stage,  \* where the candidate is
  sent,   \* times it reached the market (dry: was simulated)
  held    \* positions recorded for it

vars == <<stage, sent, held>>

Init ==
  /\ stage = [c \in Cands |-> "none"]
  /\ sent = [c \in Cands |-> 0]
  /\ held = [c \in Cands |-> 0]

Move(c, from, to) == stage[c] = from /\ stage' = [stage EXCEPT ![c] = to]

Queue(c) == Move(c, "none", "queued") /\ UNCHANGED <<sent, held>>

\* A claim takes several rows in one statement.
Take(C) ==
  /\ \A c \in C : stage[c] = "queued"
  /\ stage' = [c \in Cands |-> IF c \in C THEN "inhand" ELSE stage[c]]
  /\ UNCHANGED <<sent, held>>

\* The order goes out; a simulated one is recorded in the same step.
Act(c) ==
  /\ stage[c] = "inhand" /\ sent[c] = 0
  /\ sent' = [sent EXCEPT ![c] = 1]
  /\ held' \in {held, [held EXCEPT ![c] = 1]}
  /\ UNCHANGED stage

Record(c) ==
  /\ stage[c] = "inhand" /\ sent[c] = 1 /\ held[c] = 0
  /\ held' = [held EXCEPT ![c] = 1]
  /\ UNCHANGED <<stage, sent>>

Settle(c) == Move(c, "inhand", "settled") /\ UNCHANGED <<sent, held>>

Next ==
  \/ \E c \in Cands : Queue(c) \/ Act(c) \/ Record(c) \/ Settle(c)
  \/ \E C \in SUBSET Cands : Take(C)

Spec == Init /\ [][Next]_vars
=============================================================================
