----------------------------- MODULE MCPipeline -----------------------------
(***************************************************************************)
(* Instances of Pipeline for TLC: three prompts in a row, each similar to  *)
(* its neighbours only.                                                    *)
(***************************************************************************)
EXTENDS Pipeline, TLC

CONSTANTS r1, r2, r3

MCScore(a, b) == IF a = b THEN 2 ELSE IF a - b \in {-1, 1} THEN 1 ELSE 0

Symmetry == Permutations(Requests)
=============================================================================
