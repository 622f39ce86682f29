------------------------------ MODULE MCProver ------------------------------
(* Instance of Prover for TLC; the .cfg files give the bounds.             *)
EXTENDS Prover, TLC

\* Deletion goroutines run the same code and no property tells them apart.
DeletionSymmetry == Permutations(Deletions)
=============================================================================
