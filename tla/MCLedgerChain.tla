---------------------------- MODULE MCLedgerChain ----------------------------
(***************************************************************************)
(* LedgerChain with interchangeable writers and event identifiers, and     *)
(* beside it a table no constraint protects: the readers of the ledger     *)
(* must cope with rows nobody has checked.  As long as no writer has       *)
(* written, `found` grows by any row at all, so that the projection is     *)
(* tried on every small set of rows.                                       *)
(***************************************************************************)
EXTENDS LedgerChain, TLC

CONSTANT MaxFound  \* bound: the rows of the unprotected table

VARIABLE found

ChainSymmetry == Permutations(Writer) \cup Permutations(EventId)

FoundEvents ==
    {Event("intent", "c", None, FALSE), Event("executing", None, None, FALSE),
     Event("observed", None, None, TRUE), Event("released", None, None, FALSE),
     Event("renamed", None, None, FALSE)}

Find ==
    /\ rows = {} /\ faults = 0 /\ \A w \in Writer : place[w] = "idle"
    /\ Cardinality(found) < MaxFound
    /\ \E id \in EventId, p \in EventId \cup {None}, e \in FoundEvents :
          found' = found \cup {Row(id, p, e)}
    /\ UNCHANGED vars

Write == found = {} /\ Next /\ UNCHANGED found

MCInit == Init /\ found = {}
MCNext == Find \/ Write

MCSpec == MCInit /\ [][MCNext]_<<vars, found>>

(* The reference: the rows in an order in which each one follows the one   *)
(* before it, under identifiers of their own.                              *)
Orders(R) ==
    {s \in [1 .. Cardinality(R) -> R] :
        /\ \A i, j \in DOMAIN s : i # j => s[i].id # s[j].id
        /\ \A i \in DOMAIN s :
              s[i].predecessor = IF i = 1 THEN None ELSE s[i - 1].id}

FrameAlong(s, length) ==
    LET after[n \in 0 .. length] ==
            IF n = 0 THEN RootFrame ELSE Project(after[n - 1], s[n].event)
    IN  after[length]

(* A set of rows projects to a frame exactly when it can be laid out as    *)
(* one chain of legal edges, and then to the frame at the end of that      *)
(* chain: no fork, gap, cycle beside the chain or second root slips        *)
(* through, and no well-formed chain is refused.                           *)
ExactFor(R) ==
    LET orders == Orders(R) IN
    /\ Cardinality(orders) <= 1
    /\ ProjectChain(R) =
          IF orders = {} THEN Malformed
          ELSE FrameAlong(CHOOSE s \in orders : TRUE, Cardinality(R))

ProjectsExactlyTheChains == ExactFor(found)
=============================================================================
