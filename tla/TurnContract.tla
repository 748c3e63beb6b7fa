---------------------------- MODULE TurnContract ----------------------------
(***************************************************************************)
(* What the bridge promises the Codex client about the turns of Grok tasks *)
(* (design/feats/first-class-grok.md: a task has at most one active turn,  *)
(* and only that turn can be completed): a turn starts on a task that has  *)
(* no active turn, ends exactly once with one terminal status, and the     *)
(* task accepts the next turn afterwards.  Prompts, steering, sessions and *)
(* the gateway's bookkeeping are all hidden.                               *)
(***************************************************************************)
EXTENDS Integers

CONSTANTS
  Threads,  \* Codex thread ids
  MaxTurns  \* bound on the number of turns

VARIABLES
  active,   \* [Threads -> turn in progress on the thread, 0 for none]
  owner,    \* [Turns -> set holding the thread the turn was started on]
  status,   \* [Turns -> what the client has been told of the turn]
  open      \* the client's session with the gateway is up

vars == <<active, owner, status, open>>

Turns    == 1..MaxTurns
Terminal == {"completed", "interrupted", "failed"}

Init ==
  /\ active = [t \in Threads |-> 0]
  /\ owner  = [u \in Turns |-> {}]
  /\ status = [u \in Turns |-> "none"]
  /\ open   = TRUE

\* A turn starts on a thread without an active one.
Start(t, u) ==
  /\ open
  /\ active[t] = 0
  /\ status[u] = "none"
  /\ active' = [active EXCEPT ![t] = u]
  /\ owner'  = [owner EXCEPT ![u] = {t}]
  /\ status' = [status EXCEPT ![u] = "inProgress"]
  /\ UNCHANGED open

\* The active turn of a thread ends with a terminal status.
Finish(t, u) ==
  /\ open
  /\ active[t] = u
  /\ status[u] = "inProgress"
  /\ active' = [active EXCEPT ![t] = 0]
  /\ \E s \in Terminal : status' = [status EXCEPT ![u] = s]
  /\ UNCHANGED <<owner, open>>

\* The session goes down; what it was doing stays as it was.
Close ==
  /\ open
  /\ open' = FALSE
  /\ UNCHANGED <<active, owner, status>>

Next ==
  \/ \E t \in Threads, u \in Turns : Start(t, u) \/ Finish(t, u)
  \/ Close

Spec == Init /\ [][Next]_vars
=============================================================================
