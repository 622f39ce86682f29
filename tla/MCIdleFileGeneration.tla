------------------------ MODULE MCIdleFileGeneration ------------------------
(* Instance of IdleFileGeneration for TLC; the .cfg files give the bounds. *)
EXTENDS IdleFileGeneration, TLC

\* Callers run the same code and no property tells them apart.
CallerSymmetry == Permutations(Callers)
=============================================================================
