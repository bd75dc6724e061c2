---------------------------- MODULE MCRentalPageV2 ----------------------------
EXTENDS RentalPageV2, TLC

CONSTANTS alice, bob, t1, t2, r1, r2

\* Accounts, tabs and requests are interchangeable.
V2Symmetry ==
    Permutations(Users) \cup Permutations(Tabs) \cup Permutations(Requests)
===============================================================================
