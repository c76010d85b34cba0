----------------------------- MODULE MCRegistry -----------------------------
EXTENDS Registry, TLC

CONSTANTS n1, n2, n3

\* Two nodes share a region; the third stores other vaults' files.
MCRegionOf == [n \in Nodes |-> IF n = n3 THEN 2 ELSE 1]
MCBaseLoad == [n \in Nodes |-> IF n = n3 THEN 1 ELSE 0]
MCFactors == {-1, 2}
Interchangeable == Permutations({n1, n2})
=============================================================================
