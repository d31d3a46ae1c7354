---------------------------- MODULE MCBatchDriver ----------------------------
(* BatchDriver on small instances: model values, symmetry and run specs.   *)
EXTENDS BatchDriver, TLC

Symmetry == Permutations(Clients) \cup Permutations(Workers)
            \cup Permutations(BatchIds)

===============================================================================
