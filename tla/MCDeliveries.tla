----------------------------- MODULE MCDeliveries -----------------------------
(* Instances of Deliveries; delivery IDs and threads are interchangeable.   *)
EXTENDS Deliveries, TLC

Symmetry == Permutations(Ids) \cup Permutations(Handlers)
=============================================================================
