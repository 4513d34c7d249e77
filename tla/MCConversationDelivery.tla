------------------------- MODULE MCConversationDelivery -------------------------
(* Instances of ConversationDelivery for TLC. *)
EXTENDS ConversationDelivery, TLC

DeliverySymmetry ==
    Permutations(Turns) \cup Permutations(Pollers) \cup Permutations(Pausers)

=============================================================================
