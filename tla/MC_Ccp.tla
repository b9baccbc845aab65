-------------------------------- MODULE MC_Ccp --------------------------------
(* Model-checking instance of Ccp: the constants are given in MC_Ccp.cfg. *)
EXTENDS Ccp

=============================================================================
