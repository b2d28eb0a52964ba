------------------------------ MODULE Readdress ------------------------------
(***************************************************************************)
(* A table changes its address, by RENAME or SET SCHEMA, and takes its     *)
(* closure - columns, indexes, constraints, owned sequences - with it.     *)
(* The code is executePgPersistedTableReaddress of                         *)
(* packages/adapter-pgsql/src/transition/readdress.ts and                  *)
(* runPgPairedReaddressOperation of outcome-protocol.ts beside it: one     *)
(* transaction takes the advisory locks of all ledger homes of the         *)
(* closure, verifies the live objects, opens a claim on both addresses of  *)
(* every member, sends the DDL, reads the targets back, closes the claims  *)
(* in pairs and commits.                                                   *)
(*                                                                         *)
(* A place is where a table can be; a table is one address and stands with *)
(* one member, an index, for its closure.  An object is a catalogue        *)
(* identity.  The claims and terminals of a move are invisible to others   *)
(* until the COMMIT: CommitEnds applies them all at once, and a move that  *)
(* ends otherwise leaves nothing.                                          *)
(*                                                                         *)
(* Definitions named as faults are not part of the model: each is a        *)
(* plausible bug in the definition that follows it.                        *)
(***************************************************************************)
EXTENDS LedgerLifecycle, FiniteSets

CONSTANTS
    Run,         \* executions of a re-address step, one each
    Place,       \* table names, with their schema
    HomeOf,      \* the ledger home of a place: its schema, by its lock order
    Object,      \* catalogue identities, numbered
    Moves,       \* the declared moves, <<from, to>>
    Catalogues,  \* the catalogues a behaviour may start from
    MaxEvent     \* bound: faults, and steps of everybody else

NoObject == 0
Part == {"table", "member"}
Address == Place \X Part
Home == {HomeOf[p] : p \in Place}

ASSUME PlaceAssumption ==
    /\ HomeOf \in [Place -> Nat]
    /\ Moves \subseteq {m \in Place \X Place : m[1] # m[2]}
    /\ Object \subseteq Nat \ {0}
    /\ None \notin Run
\* No object is at two addresses, and no member without its table.
ASSUME CatalogueAssumption ==
    \A catalogue \in Catalogues :
        /\ catalogue \in [Address -> Object \cup {NoObject}]
        /\ \A a, b \in Address :
              catalogue[a] = catalogue[b] => a = b \/ catalogue[a] = NoObject
        /\ \A p \in Place : catalogue[<<p, "member">>] # NoObject =>
                               catalogue[<<p, "table">>] # NoObject

ASSUME BoundAssumption == MaxEvent \in Nat

VARIABLES
    frame,       \* what the chain of an address projects to
    recorded,    \* the identity of its terminal event
    ended,       \* the pair its terminal event belongs to, and its side
    live,        \* the object at an address
    homeLock,    \* advisory lock of a ledger home
    tableLock,   \* relation lock of a place
    pc, move,    \* position and declaration of a run
    seen,        \* the closure it read before it had any lock
    witness,     \* the identities it verified under its locks
    sent,        \* the statement or COMMIT of its session and how it ended
    told,        \* what it told its caller
    events,      \* faults and steps of everybody else so far
    landed       \* history: runs whose transaction was committed

ledgerVars == <<frame, recorded, ended>>
lockVars == <<homeLock, tableLock>>
runVars == <<pc, move, seen, witness, sent, told>>
vars == <<ledgerVars, live, lockVars, runVars, events, landed>>

NoPair == [pair |-> None, side |-> None]
NoWitness == [q \in Part |-> NoObject]
Malformed == Frame("malformed", NoClaim)

\* None of the tables that stand at first is managed yet.
Init ==
    /\ frame = [a \in Address |-> RootFrame]
    /\ recorded = [a \in Address |-> NoObject]
    /\ ended = [a \in Address |-> NoPair]
    /\ live \in Catalogues
    /\ homeLock = [h \in Home |-> None]
    /\ tableLock = [p \in Place |-> None]
    /\ pc = [r \in Run |-> "idle"]
    /\ move = [r \in Run |-> <<>>]
    /\ seen = [r \in Run |-> {}]
    /\ witness = [r \in Run |-> NoWitness]
    /\ sent = [r \in Run |-> None]
    /\ told = [r \in Run |-> None]
    /\ events = 0
    /\ landed = {}

-----------------------------------------------------------------------------
Source(r) == move[r][1]
Target(r) == move[r][2]
Homes(r) == {HomeOf[Source(r)], HomeOf[Target(r)]}
PartsAt(p) == {q \in Part : live[<<p, q>>] # NoObject}
SourcesOf(r) == {<<Source(r), q>> : q \in seen[r]}
TargetsOf(r) == {<<Target(r), q>> : q \in seen[r]}

Unlocked(lock, r) ==
    [x \in DOMAIN lock |-> IF lock[x] = r THEN None ELSE lock[x]]

\* The transaction, if any, is rolled back and the session given back.
End(r, answer) ==
    /\ pc' = [pc EXCEPT ![r] = "ended"]
    /\ told' = [told EXCEPT ![r] = answer]
    /\ homeLock' = Unlocked(homeLock, r)
    /\ tableLock' = Unlocked(tableLock, r)
    /\ sent' = [sent EXCEPT ![r] = None]
    /\ witness' = [witness EXCEPT ![r] = NoWitness]
    /\ UNCHANGED <<move, seen>>

-----------------------------------------------------------------------------
(* Before the locks.                                                       *)

\* The early reads only choose between the move, the slower no-op check and
\* a refusal.
Start(r) ==
    /\ pc[r] = "idle"
    /\ \E m \in Moves :
          /\ move' = [move EXCEPT ![r] = m]
          /\ seen' = [seen EXCEPT ![r] = PartsAt(m[1])]
          /\ \/ /\ live[<<m[1], "table">>] # NoObject
                /\ live[<<m[2], "table">>] = NoObject
                /\ pc' = [pc EXCEPT ![r] = "locking"]
                /\ UNCHANGED told
             \/ /\ live[<<m[1], "table">>] = NoObject
                /\ live[<<m[2], "table">>] # NoObject
                /\ pc' = [pc EXCEPT ![r] = "noop"]
                /\ UNCHANGED told
             \/ /\ PartsAt(m[1]) = {} <=> PartsAt(m[2]) = {}
                /\ pc' = [pc EXCEPT ![r] = "ended"]
                /\ told' = [told EXCEPT ![r] = "refused"]
    /\ UNCHANGED <<ledgerVars, live, lockVars, witness, sent, events,
                   landed>>

\* The ledger says that a pair has moved this source to this target, and the
\* object at the target is the one the pair recorded.
AlreadyMoved(r) ==
    LET s == <<Source(r), "table">>
        t == <<Target(r), "table">> IN
    /\ frame[s] = Frame("unknown", NoClaim) /\ ended[s].side = "to"
    /\ frame[t] = Frame("managed", NoClaim) /\ ended[t].side = "from"
    /\ ended[s].pair = ended[t].pair
    /\ live[t] # NoObject /\ live[t] = recorded[t]

\* One transaction that reads, under both ledger locks and the table lock.
VerifyNoOp(r) ==
    /\ pc[r] = "noop"
    /\ LET free == /\ \A h \in Homes(r) : homeLock[h] = None
                   /\ tableLock[Target(r)] = None
       IN End(r, IF free /\ AlreadyMoved(r) THEN "no-op" ELSE "refused")
    /\ UNCHANGED <<ledgerVars, live, events, landed>>

-----------------------------------------------------------------------------
(* The transaction.                                                        *)

LockSourceFirst(r) ==  \* fault
    /\ pc[r] = "locking"
    /\ LET h == IF homeLock[HomeOf[Source(r)]] = r THEN HomeOf[Target(r)]
                ELSE HomeOf[Source(r)]
       IN /\ homeLock[h] = None
          /\ homeLock' = [homeLock EXCEPT ![h] = r]
          /\ pc' = [pc EXCEPT ![r] =
                IF \A g \in Homes(r) \ {h} : homeLock[g] = r
                THEN "verify" ELSE @]
    /\ UNCHANGED <<ledgerVars, live, tableLock, move, seen, witness, sent,
                   told, events, landed>>

\* The locks are tried one by one, in the order of their homes; one that is
\* busy ends the operation.
LockHome(r) ==
    /\ pc[r] = "locking"
    /\ \E h \in Homes(r) :
          /\ homeLock[h] # r
          /\ \A g \in Homes(r) : g < h => homeLock[g] = r
          /\ \/ /\ homeLock[h] = None
                /\ homeLock' = [homeLock EXCEPT ![h] = r]
                /\ pc' = [pc EXCEPT ![r] =
                      IF \A g \in Homes(r) : g <= h THEN "verify" ELSE @]
                /\ UNCHANGED <<tableLock, move, seen, witness, sent, told>>
             \/ /\ homeLock[h] # None
                /\ End(r, "refused")
    /\ UNCHANGED <<ledgerVars, live, events, landed>>

\* The closure is the one the claims were built for, the table is managed,
\* whatever is managed is the recorded object, and the targets are vacant in
\* the catalogue and in the ledger.
Admits(r) ==
    /\ PartsAt(Source(r)) = seen[r]
    /\ frame[<<Source(r), "table">>].stable = "managed"
    /\ \A a \in SourcesOf(r) :
          /\ frame[a].stable \in {"unknown", "managed"}
          /\ frame[a].stable = "managed" => recorded[a] = live[a]
    /\ \A a \in TargetsOf(r) :
          live[a] = NoObject /\ frame[a].stable \in {"unknown", "absent"}

Verify(r) ==
    /\ pc[r] = "verify"
    /\ IF tableLock[Source(r)] = None /\ Admits(r)
       THEN /\ pc' = [pc EXCEPT ![r] = "append"]
            /\ tableLock' = [tableLock EXCEPT ![Source(r)] = r]
            /\ witness' = [witness EXCEPT ![r] =
                  [q \in Part |-> live[<<Source(r), q>>]]]
            /\ UNCHANGED <<homeLock, move, seen, sent, told>>
       ELSE End(r, "refused")
    /\ UNCHANGED <<ledgerVars, live, events, landed>>

AppendOverClaims(r) ==  \* fault
    /\ pc[r] = "append"
    /\ pc' = [pc EXCEPT ![r] = "ddl"]
    /\ sent' = [sent EXCEPT ![r] = "statement"]
    /\ UNCHANGED <<ledgerVars, live, lockVars, move, seen, witness, told,
                   events, landed>>

\* A claim and a reservation on both addresses of every member; the primary
\* key of the reservations refuses an address somebody else has claimed.
Append(r) ==
    /\ pc[r] = "append"
    /\ IF \A a \in SourcesOf(r) \cup TargetsOf(r) : ~ IsOpen(frame[a])
       THEN /\ pc' = [pc EXCEPT ![r] = "ddl"]
            /\ sent' = [sent EXCEPT ![r] = "statement"]
            /\ UNCHANGED <<lockVars, move, seen, witness, told>>
       ELSE End(r, "refused")
    /\ UNCHANGED <<ledgerVars, live, events, landed>>

\* The server renames the table with everything on it, inside the
\* transaction, and locks both names; an occupied name is an error.
StatementEnds(r) ==
    /\ sent[r] = "statement"
    /\ \/ /\ PartsAt(Target(r)) = {}
          /\ tableLock[Target(r)] = None
          /\ sent' = [sent EXCEPT ![r] = "ok"]
          /\ tableLock' = [tableLock EXCEPT ![Target(r)] = r]
       \/ /\ sent' = [sent EXCEPT ![r] = "failed"]
          /\ UNCHANGED tableLock
    /\ UNCHANGED <<ledgerVars, live, homeLock, pc, move, seen, witness, told,
                   events, landed>>

ReadBackTableOnly(r) ==  \* fault
    live[<<Source(r), "table">>] = witness[r]["table"]

\* What the session finds at the targets, its own DDL included, is what it
\* verified at the sources.
ReadsBack(r) == \A q \in seen[r] : live[<<Source(r), q>>] = witness[r][q]

\* The terminals are appended, with the identities read back, and the COMMIT
\* is sent; or the transaction is rolled back and recovery is asked for.
ReadBack(r) ==
    /\ pc[r] = "ddl" /\ sent[r] \in {"ok", "failed"}
    /\ IF sent[r] = "ok" /\ ReadsBack(r)
       THEN /\ pc' = [pc EXCEPT ![r] = "commit"]
            /\ sent' = [sent EXCEPT ![r] = "commit"]
            /\ witness' = [witness EXCEPT ![r] =
                  [q \in Part |-> live[<<Source(r), q>>]]]
            /\ UNCHANGED <<lockVars, move, seen, told>>
       ELSE End(r, "recovery-required")
    /\ UNCHANGED <<ledgerVars, live, events, landed>>

ClaimedFrame(f, r, side) ==  \* fault
    InterpretEdge(f, Event("readdress-intent", r, r, FALSE))

\* A claim and its terminal, both of the pair; the target's has a read-back.
PairFrame(f, r, side) ==
    LET claim == Event("readdress-intent", r, r, FALSE)
        terminal == Event(IF side = "to" THEN "readdressed-to"
                          ELSE "readdressed-from", None, r, side = "from")
    IN IF ~ LegalEdge(f, claim) THEN Malformed
       ELSE IF ~ LegalEdge(InterpretEdge(f, claim), terminal) THEN Malformed
       ELSE InterpretEdge(InterpretEdge(f, claim), terminal)

\* The identity a terminal of the pair records.
PairIdentity(a, r, side) == IF side = "to" THEN NoObject ELSE witness[r][a[2]]

SideOf(a, r) ==
    IF a \in SourcesOf(r) THEN "to"
    ELSE IF a \in TargetsOf(r) THEN "from"
    ELSE None

\* The server commits the move and its events together, or nothing.
CommitEnds(r) ==
    /\ sent[r] = "commit"
    /\ \/ /\ frame' = [a \in Address |->
                IF SideOf(a, r) = None THEN frame[a]
                ELSE PairFrame(frame[a], r, SideOf(a, r))]
          /\ recorded' = [a \in Address |->
                IF SideOf(a, r) = None THEN recorded[a]
                ELSE PairIdentity(a, r, SideOf(a, r))]
          /\ ended' = [a \in Address |->
                IF SideOf(a, r) = None THEN ended[a]
                ELSE [pair |-> r, side |-> SideOf(a, r)]]
          /\ live' = [a \in Address |->
                IF a[1] = Source(r) THEN NoObject
                ELSE IF a[1] = Target(r) THEN live[<<Source(r), a[2]>>]
                ELSE live[a]]
          /\ landed' = landed \cup {r}
          /\ sent' = [sent EXCEPT ![r] = "ok"]
       \/ /\ sent' = [sent EXCEPT ![r] = "failed"]
          /\ UNCHANGED <<ledgerVars, live, landed>>
    /\ homeLock' = Unlocked(homeLock, r)
    /\ tableLock' = Unlocked(tableLock, r)
    /\ UNCHANGED <<pc, move, seen, witness, told, events>>

\* An error the server confirms is rethrown: the caller learns of a failure.
Receive(r) ==
    /\ pc[r] = "commit" /\ sent[r] \in {"ok", "failed"}
    /\ End(r, IF sent[r] = "ok" THEN "completed" ELSE "failed")
    /\ UNCHANGED <<ledgerVars, live, events, landed>>

-----------------------------------------------------------------------------
(* Failures.                                                               *)

AlwaysRefused(r) == "refused"  \* fault

\* What goes wrong before the DDL is a refusal; after it, an unanswered COMMIT
\* included, nobody knows.
AnswerAfterError(r) ==
    IF pc[r] \in {"noop", "locking", "verify", "append"} THEN "refused"
    ELSE "recovery-required"

\* A read fails or a lock times out; the session stays and rolls back.
Fail(r) ==
    /\ \/ pc[r] \in {"noop", "locking", "verify", "append"}
       \/ pc[r] = "ddl" /\ sent[r] = "ok"
    /\ events < MaxEvent
    /\ events' = events + 1
    /\ End(r, AnswerAfterError(r))
    /\ UNCHANGED <<ledgerVars, live, landed>>

\* The process dies, or loses its session and says so; its backend ends what
\* it was sent before it notices.
LoseSession(r) ==
    /\ pc[r] \notin {"idle", "ended", "gone"}
    /\ events < MaxEvent
    /\ events' = events + 1
    /\ pc' = [pc EXCEPT ![r] = "gone"]
    /\ \E answer \in {None, AnswerAfterError(r)} :
          told' = [told EXCEPT ![r] = answer]
    /\ UNCHANGED <<ledgerVars, live, lockVars, move, seen, witness, sent,
                   landed>>

BackendEnds(r) ==
    /\ pc[r] = "gone" /\ sent[r] \notin {"statement", "commit"}
    /\ End(r, told[r])
    /\ UNCHANGED <<ledgerVars, live, events, landed>>

-----------------------------------------------------------------------------
(* Everybody else, each step a transaction of its own.                     *)

\* The first identity nobody has and nobody remembers; which of them it is
\* makes no difference.
Known == {live[a] : a \in Address} \cup {recorded[a] : a \in Address}
         \cup UNION {{witness[r][q] : q \in Part} : r \in Run}

Fresh(x) == x \in Object \ Known /\ \A y \in Object \ Known : x <= y

ByOthers ==
    /\ events < MaxEvent
    /\ events' = events + 1
    /\ UNCHANGED <<lockVars, runVars, landed>>

CreateTable(p) ==
    /\ PartsAt(p) = {} /\ tableLock[p] = None
    /\ \E x \in Object : Fresh(x) /\ live' = [live EXCEPT ![<<p, "table">>] = x]
    /\ ByOthers
    /\ UNCHANGED ledgerVars

DropTable(p) ==
    /\ PartsAt(p) # {} /\ tableLock[p] = None
    /\ live' = [live EXCEPT ![<<p, "table">>] = NoObject,
                          ![<<p, "member">>] = NoObject]
    /\ ByOthers
    /\ UNCHANGED ledgerVars

\* ALTER INDEX RENAME locks the index alone, not its table: the member goes
\* away or another one takes its name.  SET SCHEMA has changed the row of
\* the index itself and holds it; a new index waits for the table.
RenameMember(p) ==
    /\ "table" \in PartsAt(p)
    /\ \A r \in Run : tableLock[p] = r =>
          /\ "member" \in PartsAt(p)
          /\ sent[r] \in {"ok", "commit"} => Cardinality(Homes(r)) = 1
    /\ \E x \in Object \cup {NoObject} :
          /\ x = NoObject \/ Fresh(x)
          /\ x # live[<<p, "member">>]
          /\ live' = [live EXCEPT ![<<p, "member">>] = x]
    /\ ByOthers
    /\ UNCHANGED ledgerVars

\* Another writer of the ledger, in its own transaction under the lock of
\* the home: an adoption, a removal that stays open, its end, a release.
Write(a, f, identity) ==
    /\ homeLock[HomeOf[a[1]]] = None
    /\ frame' = [frame EXCEPT ![a] = f]
    /\ recorded' = [recorded EXCEPT ![a] = identity]
    /\ ended' = [ended EXCEPT ![a] = NoPair]
    /\ ByOthers
    /\ UNCHANGED live

Adopt(a) ==
    /\ frame[a] = Frame("unknown", NoClaim) /\ live[a] # NoObject
    /\ Write(a, Frame("managed", NoClaim), live[a])

Claim(a) ==
    /\ frame[a] = Frame("managed", NoClaim) /\ recorded[a] = live[a]
    /\ LET claim == Event("retire-intent", a, None, FALSE) IN
       Write(a, InterpretEdge(frame[a], claim), recorded[a])

Settle(a) ==
    /\ IsOpen(frame[a])
    /\ \E kind \in {"refused", "absent"} :
          /\ kind = "absent" => live[a] = NoObject
          /\ Write(a, InterpretEdge(frame[a], Event(kind, None, None, FALSE)),
                   IF kind = "absent" THEN NoObject ELSE recorded[a])

Release(a) ==
    /\ frame[a] = Frame("managed", NoClaim) /\ recorded[a] = live[a]
    /\ Write(a, RootFrame, NoObject)

-----------------------------------------------------------------------------
RunStep(r) ==
    \/ VerifyNoOp(r) \/ LockHome(r) \/ Verify(r) \/ Append(r) \/ ReadBack(r)
    \/ Receive(r)

ServerStep(r) == StatementEnds(r) \/ CommitEnds(r) \/ BackendEnds(r)

Next ==
    \/ \E r \in Run : \/ Start(r) \/ RunStep(r) \/ ServerStep(r)
                      \/ Fail(r) \/ LoseSession(r)
    \/ \E p \in Place : CreateTable(p) \/ DropTable(p) \/ RenameMember(p)
    \/ \E a \in Address : Adopt(a) \/ Claim(a) \/ Settle(a) \/ Release(a)

Spec == Init /\ [][Next]_vars

\* A process goes on, and the server ends what it was sent and notices the
\* end of a client.  Nothing is fair about starting a move.
FairSpec ==
    /\ Spec
    /\ \A r \in Run : WF_vars(RunStep(r)) /\ WF_vars(ServerStep(r))

-----------------------------------------------------------------------------
TypeOK ==
    /\ \A a \in Address :
          /\ frame[a].stable \in StableState \cup {"malformed"}
          /\ frame[a].claim.kind \in {None, "retire-intent"}
    /\ recorded \in [Address -> Object \cup {NoObject}]
    /\ ended \in [Address -> [pair : Run \cup {None},
                              side : {None, "to", "from"}]]
    /\ live \in [Address -> Object \cup {NoObject}]
    /\ homeLock \in [Home -> Run \cup {None}]
    /\ tableLock \in [Place -> Run \cup {None}]
    /\ pc \in [Run -> {"idle", "noop", "locking", "verify", "append", "ddl",
                       "commit", "gone", "ended"}]
    /\ move \in [Run -> Moves \cup {<<>>}]
    /\ seen \in [Run -> SUBSET Part]
    /\ witness \in [Run -> [Part -> Object \cup {NoObject}]]
    /\ sent \in [Run -> {None, "statement", "commit", "ok", "failed"}]
    /\ told \in [Run -> {None, "no-op", "refused", "completed", "failed",
                         "recovery-required"}]
    /\ events \in 0..MaxEvent
    /\ landed \subseteq Run

\* What a run tells its caller of its move is so: nothing has moved and
\* nothing is under way after a refusal, everything has after a completion,
\* and what is reported as a no-op was moved there by an earlier run.
ToldIsTrue ==
    \A r \in Run :
        /\ told[r] \in {"refused", "failed"} =>
               r \notin landed /\ sent[r] # "commit"
        /\ told[r] = "completed" => r \in landed
        /\ told[r] = "no-op" => \E q \in landed : move[q] = move[r]

\* A move closes the chains of a whole closure, on both sides, in one step,
\* under one pair identifier (ADR 0006: "a move appends pair events for the
\* table and for every contained address ... all sharing one pair
\* identifier"); and the identity a managed address had recorded is the one
\* its target records then, whatever was renamed, dropped or recreated since
\* the closure was read.
MovesAreWhole ==
    [][\A r \in landed' \ landed :
          /\ \A q \in {part \in Part : live[<<Source(r), part>>] # NoObject} :
                /\ ended'[<<Source(r), q>>] = [pair |-> r, side |-> "to"]
                /\ ended'[<<Target(r), q>>] = [pair |-> r, side |-> "from"]
          /\ \A a \in SourcesOf(r) :
                frame[a].stable = "managed" =>
                    recorded'[<<Target(r), a[2]>>] = recorded[a]
      ]_vars

\* No move lands on a table's address that another run has claimed, and none
\* takes a step the ledger does not know.
LedgerOf(a) == INSTANCE LedgerAddress WITH frame <- frame[a]

TablesKeepTheLedger ==
    /\ \A p \in Place : LedgerOf(<<p, "table">>)!Init
    /\ [][\A p \in Place :
            [LedgerOf(<<p, "table">>)!Next]_(frame[<<p, "table">>])]_frame

\* Opposing moves do not wait for each other (ledger.ts:1725: "The ordering
\* is dbsp_meta first and then schema name, so opposing closures cannot
\* deadlock"): a move that has started ends.
EveryMoveEnds == \A r \in Run : pc[r] # "idle" ~> pc[r] = "ended"

-----------------------------------------------------------------------------
(* What a comment of the code says and the code does not do; refuted by a  *)
(* run of its own.                                                         *)

\* readdress.ts:989: "Closure members (constraints, indexes and owned
\* sequences) do not require a pre-existing chain.  An empty chain receives
\* its first source-side pair event": and can be read afterwards.
MembersKeepTheirChains == \A a \in Address : frame[a] # Malformed
=============================================================================
