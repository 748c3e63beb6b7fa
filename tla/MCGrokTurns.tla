---------------------------- MODULE MCGrokTurns -----------------------------
(* Instances of GrokTurns and its contract for TLC.                        *)
EXTENDS GrokTurnsContract, TLC

\* Threads and session ids are interchangeable: no action or property names one.
Symmetry == Permutations(Sessions) \cup Permutations(Threads)
=============================================================================
