--------------------------- MODULE MCExpireShare ---------------------------
(***************************************************************************)
(* Values of the constants of ExpireShare for the runs of TLC.             *)
(***************************************************************************)
EXTENDS ExpireShare, TLC

CONSTANTS alice, bob, root    \* a user, a VIP, an administrator

MCRolesOf ==
    [u \in User |-> CASE u = alice -> {"user"}
                      [] u = bob   -> {"user", "vip"}
                      [] OTHER     -> {"admin"}]

(* Requests are interchangeable, and so are the aliases alias.Gen draws    *)
(* and the ways to spell them.                                             *)
Symmetry == Permutations(Req) \union Permutations(Alias) \union Permutations(Spelling)
=============================================================================
