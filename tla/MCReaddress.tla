----------------------------- MODULE MCReaddress -----------------------------
(***************************************************************************)
(* Model values for the runs over Readdress: two places in one schema      *)
(* and one in another, opposing moves between the schemas (SET SCHEMA) and *)
(* a move inside one (RENAME).                                             *)
(***************************************************************************)
EXTENDS Readdress, TLC

CONSTANTS a, b, c

MCHomeOf == a :> 1 @@ b :> 2 @@ c :> 1
MCMoves == {<<a, b>>, <<b, a>>, <<a, c>>}
MCCatalogues ==
    {[address \in Address |-> CASE address = <<a, "table">>  -> 1
                                [] address = <<a, "member">> -> member
                                [] OTHER                     -> 0]
        : member \in {0, 2}}
=============================================================================
