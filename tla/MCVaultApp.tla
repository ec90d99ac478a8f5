----------------------------- MODULE MCVaultApp -----------------------------
(* Two keys that can be made and one that is on paper.                      *)
EXTENDS VaultApp

CONSTANTS k0, k1, k2
=============================================================================
