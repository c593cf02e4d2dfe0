------------------------------- MODULE Domain -------------------------------
(***************************************************************************)
(* What the modules share: the entities of domain/entities and the actors  *)
(* that run database transactions.                                         *)
(***************************************************************************)
EXTENDS Integers, FiniteSets

CONSTANTS
    Alias,       \* aliases, as far as the unique key of files tells them apart
    Spelling,    \* ways to spell an alias that this key does not tell apart
    User,        \* user ids; the id 0 of the admin routes is one of them
    Password,    \* passwords, NoPassword among them
    Req,         \* request goroutines
    Worker,      \* the one FileWorker goroutine
    MaxId,       \* bound on the rows ever inserted
    NoRow,       \* an alias without a row
    None         \* no actor, no alias

Actor == Req \union {Worker}

FileId == 1 .. MaxId

(* A row of files, with the spelling in which alias.Gen drew its alias:    *)
(* letters of either case, which the collation of files.alias takes for    *)
(* one.  file_name and loaded_at decide nothing and are left out.          *)
Row == [id : FileId, spelled : Spelling, owner : User, size : Nat, left : Nat,
        exp : Int, hash : Password]

ASSUME DomainAssumption ==
    /\ MaxId \in Nat
    /\ IsFiniteSet(Alias)
    /\ IsFiniteSet(Req)
    /\ Worker \notin Req
    /\ None \notin Actor \union Alias
    /\ NoRow \notin Row
=============================================================================
