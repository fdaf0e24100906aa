---------------------------- MODULE MCGovernance ----------------------------
(* Small instances of what governs work.                                    *)
EXTENDS Governance, TLC

CONSTANTS a1, a2, k1

Actor(k) == IF k = k1 THEN a1 ELSE a2
Price(a) == IF a = a1 THEN 1 ELSE 2

Symmetry == Permutations(Reviews) \cup Permutations(Branches)
=============================================================================
