------------------------ MODULE MCDeliverableLifecycle ------------------------
(* Instances of DeliverableLifecycle for TLC.                              *)
EXTENDS DeliverableLifecycle, TLC

CONSTANTS r1, r2, r3
Symmetric == Permutations({r1, r2, r3} \cap Requests)
=============================================================================
