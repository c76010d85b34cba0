--------------------------- MODULE MCStorageNode ---------------------------
(* StorageNode on small instances. *)
EXTENDS StorageNode, TLC

CONSTANTS k1, k2, n1

\* What the Oracle signs for node n1: file_proxy's write tokens carry the
\* fragment's hash, its read and delete tokens none; upload_url binds a token
\* to no node; k2 stands for a name that is not a fragment key.
FragmentScopes ==
  {[key |-> k1, op |-> "write", node |-> n1, hash |-> b] : b \in Bodies}
  \cup {[key |-> k1, op |-> op, node |-> n1, hash |-> None] :
          op \in {"read", "delete"}}
  \cup {[key |-> k1, op |-> "write", node |-> None, hash |-> None],
        [key |-> k2, op |-> "write", node |-> n1, hash |-> None]}

Interchangeable ==
  Permutations(Jtis) \cup Permutations(Reqs) \cup Permutations(TempNames)
  \cup Permutations(Bodies \ Oversized)
=============================================================================
