-------------------------- MODULE MCVaultLifecycle --------------------------
EXTENDS VaultLifecycle, TLC

\* Nodes, tokens, documents and slots of one kind are interchangeable.
Symmetry == Permutations(Nodes) \cup Permutations(Tokens) \cup Permutations(Metas)
              \cup Permutations(Publishers) \cup Permutations(Finalizers)
=============================================================================
