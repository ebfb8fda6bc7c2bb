-------------------------- MODULE MCOrderProcessor --------------------------
(* Model-checking instances of OrderProcessor.                              *)
EXTENDS OrderProcessor

(* One status per kind of effect: a closing that asks for no unlock, one     *)
(* that does, and an event that leaves the order alone.                     *)
MCFeedStatus == {"Cancelled", "Fulfilled", "ArchivalFulfilled"}

(* The closing with the most calls to collaborators; UnlockClaim is a second *)
(* label of its case.                                                       *)
MCFeedStatusUnlock == {"UnlockSent"}

Symmetry == Permutations(OrderId)

SafetySpec == Init /\ [][Next]_vars
=============================================================================
