----------------------------- MODULE LedgerChain -----------------------------
(***************************************************************************)
(* The event rows of one address and the writers that append to them       *)
(* (packages/adapter-pgsql/src/transition/ledger.ts, the constraints of    *)
(* ledger-spec.ts), without the ledger lock: the question is what the      *)
(* constraints of the table give on their own.                             *)
(*                                                                         *)
(* A writer reads the rows, projects them, and appends one event with the  *)
(* terminal it read as predecessor, in a transaction that others may       *)
(* overtake.  An insert waits for the uncommitted rows it conflicts with,  *)
(* so insert and commit are one action.  Identifiers are the writer's own, *)
(* except that two writers may work under the same one: a run and its      *)
(* retry derive their identifiers from the same claim.                     *)
(***************************************************************************)
EXTENDS ChainProjection

CONSTANTS
    Writer,     \* sessions that append
    EventId,    \* the identifiers events are given
    MaxFaults   \* bound: transactions that fail, commits without an answer

ASSUME ChainAssumption == None \notin EventId /\ MaxFaults \in Nat

VARIABLES
    rows,       \* the committed rows of the address
    frame,      \* what the committed rows project to
    draft,      \* draft[w]: the row w is about to insert
    place,      \* where w is: between transactions, holding a draft, or unsure
    faults

vars == <<rows, frame, draft, place, faults>>

NoRow == Row(None, None, Event(None, None, None, FALSE))

Pair == "pair"

(* The events a writer may name id: a claim is named after the event that  *)
(* opens it, an event carries a pair exactly when it belongs to a          *)
(* re-address, and events that end or move a claim may carry a read-back.  *)
EventsNamed(id) ==
    {Event(k, id, None, FALSE) : k \in ClaimKind \ {"readdress-intent"}}
    \cup {Event("readdress-intent", id, Pair, FALSE)}
    \cup {Event(k, None, None, FALSE) : k \in {"executing", "released"}}
    \cup {Event(k, None, None, o) :
             k \in {"adopt", "refused", "observed", "absent",
                    "indeterminate", "resolved"}, o \in BOOLEAN}
    \cup {Event(k, None, Pair, TRUE) : k \in {"readdressed-to", "readdressed-from"}}

Init ==
    /\ rows = {}
    /\ frame = ProjectChain({})
    /\ draft = [w \in Writer |-> NoRow]
    /\ place = [w \in Writer |-> "idle"]
    /\ faults = 0

(* A writer projects the rows it reads and drafts one legal event.         *)
Read(w) ==
    /\ place[w] = "idle"
    /\ LET terminal == UniqueTerminal(rows)
       IN \E id \in EventId : \E e \in EventsNamed(id) :
             /\ LegalEdge(frame, e)
             /\ draft' = [draft EXCEPT ![w] = Row(id, terminal, e)]
    /\ place' = [place EXCEPT ![w] = "drafted"]
    /\ UNCHANGED <<rows, frame, faults>>

NullsDistinct(x) ==                                                 \* fault
    /\ x.id \notin {y.id : y \in rows}
    /\ x.predecessor # None => Children(rows, x.predecessor) = {}
    /\ x.predecessor \in {None} \cup {y.id : y \in rows}

(* PRIMARY KEY (event_id); UNIQUE NULLS NOT DISTINCT (address,             *)
(* predecessor); the predecessor is a row of the same address.             *)
Insertable(x) ==
    /\ x.id \notin {y.id : y \in rows}
    /\ Children(rows, x.predecessor) = {}
    /\ x.predecessor \in {None} \cup {y.id : y \in rows}

(* eventInsertSql and its commit; the answer may be lost.                  *)
AppendRow(w) ==
    /\ place[w] \in {"drafted", "retrying"}
    /\ Insertable(draft[w])
    /\ rows' = rows \cup {draft[w]}
    /\ frame' = ProjectChain(rows \cup {draft[w]})
    /\ \/ /\ place' = [place EXCEPT ![w] = "idle"]
          /\ draft' = [draft EXCEPT ![w] = NoRow]
          /\ UNCHANGED faults
       \/ /\ faults < MaxFaults
          /\ faults' = faults + 1
          /\ place' = [place EXCEPT ![w] = "unsure"]
          /\ UNCHANGED draft

(* A violated constraint ends the transaction: nothing is appended.        *)
Reject(w) ==
    /\ place[w] \in {"drafted", "retrying"}
    /\ ~Insertable(draft[w])
    /\ place' = [place EXCEPT ![w] = "idle"]
    /\ draft' = [draft EXCEPT ![w] = NoRow]
    /\ UNCHANGED <<rows, frame, faults>>

(* The transaction fails before it commits, which the writer may not be    *)
(* able to tell from a lost answer.                                        *)
Fail(w) ==
    /\ place[w] \in {"drafted", "retrying"}
    /\ faults < MaxFaults
    /\ faults' = faults + 1
    /\ place' = [place EXCEPT ![w] = "unsure"]
    /\ UNCHANGED <<rows, frame, draft>>

(* Whoever is unsure reads the chain again or sends the same row again.    *)
Resume(w) ==
    /\ place[w] = "unsure"
    /\ \/ /\ place' = [place EXCEPT ![w] = "idle"]
          /\ draft' = [draft EXCEPT ![w] = NoRow]
       \/ /\ place' = [place EXCEPT ![w] = "retrying"]
          /\ UNCHANGED draft
    /\ UNCHANGED <<rows, frame, faults>>

Next == \E w \in Writer : Read(w) \/ AppendRow(w) \/ Reject(w) \/ Fail(w) \/ Resume(w)

Spec == Init /\ [][Next]_vars

-----------------------------------------------------------------------------
(* Properties.                                                             *)

(* The constraints alone, without any lock, make the rows implement the    *)
(* ledger address: writers that overtake each other, fail, lose an answer  *)
(* or send a row twice never fork the chain and never append an event to   *)
(* another frame than the one they projected ("constraints on the chain    *)
(* are the backstop", "a retry cannot fork", docs/adr/0006).               *)
Ledger == INSTANCE LedgerAddress WITH frame <- frame

ChainImplementsLedger == Ledger!Spec
=============================================================================
