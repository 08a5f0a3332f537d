---------------------------- MODULE MCAlertDelivery ----------------------------
(* Instances of AlertDelivery for TLC. *)
EXTENDS AlertDelivery, TLC

Symmetry == Permutations(Alerts) \cup Permutations(Workers)
=============================================================================
