--------------------------- MODULE ChainProjection ---------------------------
(***************************************************************************)
(* From the rows of the event table to the frame of an address:            *)
(* projectLedgerChain (packages/core/src/transition/                       *)
(* lifecycle-interpreter.ts) and findUniqueLedgerTerminal                  *)
(* (outcome-protocol.ts).  A row has an identifier, the identifier of its  *)
(* predecessor ("none" for the first one) and an event.  The rows are a    *)
(* set: the projection never uses the order in which they were inserted.   *)
(* (An exact copy of a row, a duplicate id to the code, is not in a set.)  *)
(***************************************************************************)
EXTENDS LedgerLifecycle, FiniteSets

Row(id, predecessor, event) ==
    [id |-> id, predecessor |-> predecessor, event |-> event]

Malformed == Frame("malformed", NoClaim)

Project(f, e) == IF LegalEdge(f, e) THEN InterpretEdge(f, e) ELSE Malformed

Children(rows, id) == {x \in rows : x.predecessor = id}

DuplicateId(rows) == \E x, y \in rows : x # y /\ x.id = y.id

MissingPredecessor(rows) ==
    \E x \in rows : x.predecessor \notin {None} \cup {y.id : y \in rows}

Fork(rows) == \E x, y \in rows : x # y /\ x.predecessor = y.predecessor

(* The walk from the root, one row a step.                                 *)
Follow(rows, last) ==
    LET next == Children(rows, last.at)
        x == CHOOSE x \in next : TRUE
    IN  IF next = {} \/ last.frame = Malformed THEN last
        ELSE [frame   |-> Project(last.frame, x.event),
              at      |-> x.id,
              visited |-> last.visited \cup {x}]

Walk(rows) ==
    LET after[n \in 0 .. Cardinality(rows)] ==
            IF n = 0
            THEN [frame |-> RootFrame, at |-> None, visited |-> {}]
            ELSE Follow(rows, after[n - 1])
    IN  after[Cardinality(rows)]

ProjectWalkedRows(rows) ==                                          \* fault
    IF DuplicateId(rows) \/ MissingPredecessor(rows) \/ Fork(rows)
    THEN Malformed ELSE Walk(rows).frame

(* projectLedgerChain: rows the walk never reaches are a cycle.            *)
ProjectChain(rows) ==
    IF DuplicateId(rows) \/ MissingPredecessor(rows) \/ Fork(rows) THEN Malformed
    ELSE IF Walk(rows).visited # rows THEN Malformed
    ELSE Walk(rows).frame

Terminals(rows) == {x \in rows : Children(rows, x.id) = {}}

(* findUniqueLedgerTerminal: the id of the only row without a successor,   *)
(* "none" when there is no such row or more than one.                      *)
UniqueTerminal(rows) ==
    IF Cardinality(Terminals(rows)) = 1
    THEN (CHOOSE x \in Terminals(rows) : TRUE).id
    ELSE None
=============================================================================
