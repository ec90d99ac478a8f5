-------------------------------- MODULE MCWeb --------------------------------
(* Three assets of which a basket takes two; shares that leave a remainder; *)
(* two vaults.                                                              *)
EXTENDS Web, TLC

CONSTANTS apple, spy, tesla

MCFirstPreset == (apple :> 40) @@ (spy :> 60)
MCPresets     == {MCFirstPreset, tesla :> 100}
=============================================================================
