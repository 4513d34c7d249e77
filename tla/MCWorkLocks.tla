----------------------------- MODULE MCWorkLocks -----------------------------
(* Instances of WorkLocks for TLC. *)
EXTENDS WorkLocks, TLC

\* Lock objects and threads are interchangeable.
LockSymmetry == Permutations(Locks) \cup Permutations(Calls)

=============================================================================
