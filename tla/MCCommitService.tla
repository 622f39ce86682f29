--------------------------- MODULE MCCommitService ---------------------------
(* Instance of CommitService for TLC; the .cfg files give the bounds.      *)
EXTENDS CommitService
=============================================================================
