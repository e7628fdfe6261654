--------------------------- MODULE MCDeliveryQueue ---------------------------
(* DeliveryQueue for TLC. *)
EXTENDS DeliveryQueue

=============================================================================
