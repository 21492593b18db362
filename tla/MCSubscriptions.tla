--------------------------- MODULE MCSubscriptions --------------------------
(* Instances of Subscriptions for TLC.                                     *)
EXTENDS Subscriptions, TLC

ThreadSymmetry == Permutations(Deliverers) \cup Permutations(Clients)
=============================================================================
