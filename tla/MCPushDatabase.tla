--------------------------- MODULE MCPushDatabase ---------------------------
(* Small instances of PushDatabase for TLC. *)
EXTENDS PushDatabase, TLC

Symmetry == Permutations(Paths) \cup Permutations(Callers)
                \cup Permutations(Promises)
=============================================================================
