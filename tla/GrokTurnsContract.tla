------------------------- MODULE GrokTurnsContract --------------------------
(***************************************************************************)
(* The gateway session implements TurnContract towards a client that does  *)
(* not reset a thread in the middle of its turn.  What the client was told *)
(* (turnStatus, turnThread) stands for itself; the contract's active turn  *)
(* is the one the gateway's own lifecycle map holds, so a step of the loop *)
(* must change the two together.                                           *)
(***************************************************************************)
EXTENDS GrokTurns

ActiveTurn == [t \in Threads |-> IF Running(t) THEN lifecycle[t].turn ELSE NoTurn]

Contract == INSTANCE TurnContract WITH
  active <- ActiveTurn,
  owner  <- turnThread,
  status <- turnStatus,
  open   <- (loop = "running")

\* Every behaviour of the gateway session is one of the contract: turns start
\* on threads without an active turn, and only the active turn ends, once.
ImplementsContract == Contract!Spec
=============================================================================
