----------------------------- MODULE MCConverge -----------------------------
(* Two replicas of an application with two tables, a sequence, a `once`    *)
(* step before the generated DDL and an assert after it.  The old one      *)
(* declares a column less and creates a ledger only in an empty schema.    *)
EXTENDS Converge

MCReplica == {"old", "new"}
MCVersion == [r \in MCReplica |-> IF r = "old" THEN 1 ELSE 2]
MCDigest == [r \in MCReplica |-> 1]
MCInitialize ==
    [r \in MCReplica |-> IF r = "old" THEN "pristine" ELSE "adopt-existing"]
=============================================================================
