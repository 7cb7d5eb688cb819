----------------------------- MODULE MCConsensus -----------------------------
(* Model for Consensus: four validators of equal power 10 (total 40, the    *)
(* spec's end-to-end scenario), one of them byzantine, two blocks, rounds 0 *)
(* and 1.  Round 0 is proposed by the byzantine validator, which proposes   *)
(* both blocks; round 1 by an honest one, so a lock taken in round 0 meets  *)
(* a proposal for the other block.                                          *)
EXTENDS Consensus, TLC

CONSTANTS v1, v2, v3, v4, b1, b2

MCValidators == {v1, v2, v3, v4}
MCFaulty == {v4}
MCPower == [v \in MCValidators |-> 10]
MCValues == {b1, b2}
MCProposer == [r \in 0..1 |-> IF r = 0 THEN v4 ELSE v1]

\* The two blocks are interchangeable.
MCSymmetry == Permutations(MCValues)
=============================================================================
