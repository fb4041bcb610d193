--------------------------- MODULE MCVersionReaders ---------------------------
(* Instances of VersionReaders for TLC.                                      *)
EXTENDS VersionReaders

\* Requests are interchangeable, and so are engines and entity types.
Symmetry == Permutations(Clients) \cup Permutations(Engines) \cup Permutations(Types)
==============================================================================
