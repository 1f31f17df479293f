------------------------- MODULE MCTriggerIngestion -------------------------
(* Small instances of TriggerIngestion.                                    *)
EXTENDS TriggerIngestion, TLC

Symmetry == Permutations(Event) \cup Permutations(Consumer)
=============================================================================
