-------------------------------- MODULE Nil --------------------------------
(* What stands for nil, an absent entry or an empty column in the modules   *)
(* of the engine's services.                                                *)
CONSTANT None
=============================================================================
