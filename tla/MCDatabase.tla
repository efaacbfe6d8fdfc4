----------------------------- MODULE MCDatabase -----------------------------
(* Two processes over a file with one node, one that loads and one that syncs: *)
(* no database at first, or one of an older version.                        *)
EXTENDS Database, TLC

Symmetry == Permutations(Text)
=============================================================================
