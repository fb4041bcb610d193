---------------------------- MODULE MCVersionStore ----------------------------
(* Instances of VersionStore for TLC.                                        *)
EXTENDS VersionStore

\* Requests are interchangeable (not for the run with liveness).
Symmetry == Permutations(Clients)
==============================================================================
