----------------------------- MODULE MCIdleFile -----------------------------
(* Instance of IdleFile for TLC; the .cfg files give the bounds.           *)
EXTENDS IdleFile

\* Every place in the list of parents, and a repetition.
ThreeChains == {<<0, 1>>, <<1, 2>>, <<2, 2>>}
=============================================================================
