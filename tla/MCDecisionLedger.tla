-------------------------- MODULE MCDecisionLedger --------------------------
(* The Decision ledger with one or two processes, for TLC. *)
EXTENDS DecisionLedger, TLC

CONSTANT m1

(* A store no process has booted on, and one that m1 has founded. *)
EmptyChain   == <<>>
FoundedChain == <<Record(m1, "genesis", m1, BootJob)>>

Symmetry == Permutations(Procs) \cup Permutations(Denials)
                \cup Permutations(Allows)
=============================================================================
