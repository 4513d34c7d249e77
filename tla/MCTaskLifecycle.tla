---------------------------- MODULE MCTaskLifecycle ----------------------------
(* Instances of TaskLifecycle for TLC. *)
EXTENDS TaskLifecycle, TLC

\* Calls are interchangeable, and so are works: a symmetry of every safety
\* property.
NameSymmetry == Permutations(Calls) \cup Permutations(Works)

=============================================================================
