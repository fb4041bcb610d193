-------------------------------- MODULE MCVault --------------------------------
(* Instances of Vault (and of InstallToken with it) for TLC.                 *)
EXTENDS Vault, TLC

\* Passphrases are interchangeable.
Symmetry == Permutations(Passphrases)
==============================================================================
