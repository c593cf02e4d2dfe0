------------------------------ MODULE MCServer ------------------------------
(***************************************************************************)
(* Values of the constants of Server for the runs of TLC.                  *)
(***************************************************************************)
EXTENDS Server, TLC

CONSTANTS alice, bob, root

MCRolesOf ==
    [u \in User |-> CASE u = alice -> {"user"}
                      [] u = root  -> {"admin"}
                      [] OTHER     -> {}]

Symmetry == Permutations(Req) \union Permutations(Token)
=============================================================================
