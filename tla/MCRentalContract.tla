-------------------------- MODULE MCRentalContract --------------------------
(* Small instances of RentalContract, and of its refinements, for TLC.     *)
EXTENDS RentalContractRefinement, TLC

CONSTANTS alice, bob, carol

\* Addresses are interchangeable: the contract only uses one as a key.
UserSymmetry == Permutations(Users)
============================================================================
