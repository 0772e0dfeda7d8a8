--------------------------- MODULE MCSecretVault ---------------------------
(***************************************************************************)
(* A small instance of SecretVault: two brokers, an empty snapshot, one    *)
(* that takes two chunks and one that takes one.                           *)
(***************************************************************************)
EXTENDS SecretVault, TLC

CONSTANTS b1, b2, empty, large, small

MCBrokers == {b1, b2}
MCSnapshots == {empty, large, small}
MCChunks == [s \in MCSnapshots |-> IF s = large THEN 2 ELSE 1]
MCLegacies == {None, large}
Symmetry == Permutations(MCBrokers)
=============================================================================
