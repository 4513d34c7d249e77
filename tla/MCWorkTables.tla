----------------------------- MODULE MCWorkTables -----------------------------
(* Instances of WorkTables for TLC. *)
EXTENDS WorkTables, TLC

\* Calls, sessions and names are interchangeable.
TableSymmetry == Permutations(Callers) \cup Permutations(Sessions) \cup Permutations(Names)

=============================================================================
