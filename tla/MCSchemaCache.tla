--------------------------- MODULE MCSchemaCache ----------------------------
(***************************************************************************)
(* The session of MCSession with the schemas of two subjects.              *)
(***************************************************************************)
EXTENDS SchemaCache, TLC

Symmetry == Permutations(Users) \cup Permutations(Values)
=============================================================================
