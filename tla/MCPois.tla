------------------------------- MODULE MCPois -------------------------------
(* Instance of Pois for TLC; the .cfg files give the bounds.               *)
EXTENDS Pois
=============================================================================
