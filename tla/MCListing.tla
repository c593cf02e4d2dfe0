------------------------------ MODULE MCListing ------------------------------
(***************************************************************************)
(* Values of the constants of Listing for the runs of TLC.                 *)
(***************************************************************************)
EXTENDS Listing, TLC

MCRoleSets == SUBSET UserRole

MCPage == {-1, 0, 1, 2, 3, IntMax}

MCLimit == {0, 1, 2, IntMax}

Symmetry == Permutations(User) \union Permutations(File)
=============================================================================
