---------------------------- MODULE MCRentalDApp ----------------------------
(* Small instances of RentalDApp for TLC.                                  *)
EXTENDS RentalDApp

\* Addresses, tabs and requests are only compared with each other.  Used in
\* the safety runs only.
DAppSymmetry ==
    Permutations(Users) \cup Permutations(Tabs) \cup Permutations(Requests)
============================================================================
