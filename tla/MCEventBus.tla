------------------------------ MODULE MCEventBus ------------------------------
(* Instances of EventBus for TLC. *)
EXTENDS EventBus, TLC

BusSymmetry == Permutations(Clients) \cup Permutations(Writers)

=============================================================================
