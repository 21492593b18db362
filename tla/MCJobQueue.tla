----------------------------- MODULE MCJobQueue -----------------------------
(* Instances of JobQueue for TLC.                                          *)
EXTENDS JobQueue, TLC

NoHold == {h \in HoldKinds : h.until = "none" /\ ~h.specified}
BothHolds == {h \in HoldKinds : h.until = "future"} \cup NoHold
AllHolds == BothHolds \cup {[until |-> "none", specified |-> TRUE]}
ThreadSymmetry == Permutations(Threads)
=============================================================================
