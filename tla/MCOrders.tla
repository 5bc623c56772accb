------------------------------ MODULE MCOrders ------------------------------
(* Orders with few events of few orders.                                   *)
EXTENDS Orders, TLC

MCReported == {"CREATED", "PAID", "CONFIRMED", "CANCELLED", "INVALID"}

Symmetry == Permutations(Evidence) \cup Permutations(Orders) \cup Permutations(RefundIds)
=============================================================================
