------------------------ MODULE MCStatementPipeline ------------------------
(* Instances of StatementPipeline for TLC: workers and handlers by name.    *)
EXTENDS StatementPipeline, TLC

CONSTANTS w1, w2, r1

\* Where a reprocess starts.
FromSpawn == AllModes \X {"spawn"}
FromSpawnOrInline == FromSpawn \cup {"inline"} \X {"extract", "structure"}
FromAny == AllModes \X {"structure", "spawn", "refresh", "check"}

\* No worker is special: used by the safety runs only.
Symmetry == Permutations(Workers)

=============================================================================
