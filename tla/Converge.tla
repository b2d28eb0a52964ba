------------------------------ MODULE Converge ------------------------------
(***************************************************************************)
(* Every replica of an application brings its schema to the declared       *)
(* model when it starts (docs/adr/0007, 0008).  The code is convergePg-    *)
(* Physical of packages/adapter-pgsql/src/transition/converge.ts, with     *)
(* application-step.ts, reinitialize-preflight.ts for the ledger and       *)
(* generator-execution.ts for the plan.                                    *)
(*                                                                         *)
(* A call reads and plans on one session under the schema's ledger lock,   *)
(* then executes transaction by transaction: application steps, adoptions, *)
(* sequences, the new tables all in one, new columns, application steps.   *)
(* Each COMMIT can be the last thing a call does, and the next call starts *)
(* from what the catalogue and the ledger say.                             *)
(*                                                                         *)
(* An item is a declared table or sequence.  Its shape is the number of    *)
(* columns a model declares for it, so that a later version of the         *)
(* application declares more (the constraints and indexes of a new table   *)
(* are part of its shape); Foreign is a shape nobody declared.  Planning   *)
(* refusals are "refused" except for "busy": which of several applies is   *)
(* not distinguished.                                                      *)
(*                                                                         *)
(* Definitions named as faults are not part of the model: each is a        *)
(* plausible bug in the definition that follows it.                        *)
(***************************************************************************)
EXTENDS Naturals, FiniteSets, SequencesExt

CONSTANTS
    Replica,     \* processes that start the application
    Table,       \* the declared tables, numbered
    Sequence,    \* the declared sequences, numbered after the tables
    OnceStep,    \* application steps of kind `once`, numbered
    AssertStep,  \* application steps of kind `assert`, numbered
    Before,      \* those that run before the generated DDL
    Version,     \* the shape of tables that the model of a replica declares
    Digest,      \* the digest a replica's `once` steps carry
    Initialize,  \* the `initialize` option of a replica
    MaxFault,    \* bound: failed statements, lost sessions, dead processes
    MaxOther     \* bound: what other sessions do to catalogue and ledger

None == "none"
Unknown == 0
Foreign == 0
Absent == [id |-> 0, shape |-> 0]
Item == Table \cup Sequence
Step == OnceStep \cup AssertStep
Home == {"meta", "schema"}

ASSUME ItemAssumption ==
    /\ Item \subseteq Nat \ {0}
    /\ \A x \in Table, y \in Sequence : x < y
    /\ Step \subseteq Nat \ {0}
    /\ OnceStep \cap AssertStep = {} /\ Before \subseteq Step
    /\ IsFiniteSet(Item) /\ IsFiniteSet(Step)
ASSUME ReplicaAssumption ==
    /\ Version \in [Replica -> Nat \ {0}]
    /\ Digest \in [Replica -> Nat \ {0}]
    /\ Initialize \in [Replica -> {"never", "pristine", "adopt-existing"}]
    /\ {None, "writer"} \cap Replica = {}
ASSUME BoundAssumption == {MaxFault, MaxOther} \subseteq Nat

VARIABLES
    live,      \* the catalogue: identity and shape of each item
    minted,    \* the last identity given to an object
    record,    \* the managed identity in the ledger, Unknown before
    ledger,    \* the ledger homes that exist
    lock,      \* the advisory lock of each home
    claim,     \* another writer's open claim and whether its run lives
    recorded,  \* the digest in the ledger of each `once` step
    ran,       \* history: committed executions of each `once` step
    healthy,   \* the asserts that would inspect healthy
    pc,        \* where the call of a replica is
    conn,      \* its session: closed, open, or orphaned by its client
    seen,      \* the catalogue as the call compared it
    plan, at,  \* the transactions of the call, and the current one
    worked,    \* items it has created in its open transaction
    flight,    \* the transaction whose COMMIT the server has been sent
    reply,     \* the server's answer to that COMMIT
    landed,    \* history: the transactions of the call that committed
    told,      \* how the call ended
    faults, others

catalogueVars == <<live, minted>>
ledgerVars == <<record, ledger, lock, claim, recorded, ran>>
callVars == <<pc, conn, seen, plan, at, worked, told>>
serverVars == <<flight, reply, landed>>
vars == <<catalogueVars, ledgerVars, healthy, callVars, serverVars,
          faults, others>>

Nothing == [role |-> None, of |-> {}, as |-> 0]

Init ==
    /\ live = [x \in Item |-> Absent]
    /\ minted = 0
    /\ record = [x \in Item |-> Unknown]
    /\ ledger = {}
    /\ lock = [h \in Home |-> None]
    /\ claim = None
    /\ recorded = [s \in OnceStep |-> 0]
    /\ ran = [s \in OnceStep |-> 0]
    /\ healthy = {}
    /\ pc = [r \in Replica |-> "idle"]
    /\ conn = [r \in Replica |-> "closed"]
    /\ seen = [r \in Replica |-> [x \in Item |-> Absent]]
    /\ plan = [r \in Replica |-> <<>>]
    /\ at = [r \in Replica |-> 1]
    /\ worked = [r \in Replica |-> {}]
    /\ flight = [r \in Replica |-> Nothing]
    /\ reply = [r \in Replica |-> None]
    /\ landed = [r \in Replica |-> {}]
    /\ told = [r \in Replica |-> None]
    /\ faults = 0 /\ others = 0

-----------------------------------------------------------------------------
(* How the model of a replica relates to catalogue and ledger.             *)

Declared(r, x) == IF x \in Table THEN Version[r] ELSE 1

\* isManagedCurrent: the ledger manages exactly the object that is there.
Managed(x) == live[x] # Absent /\ record[x] = live[x].id

\* A difference converge applies: none, or columns to add to a table.
Additive(r, x) ==
    LET shape == seen[r][x].shape IN
    shape = Declared(r, x) \/ (x \in Table /\ shape \in 1..Declared(r, x))

Fresh(r) == {x \in Item : seen[r][x] = Absent}

\* Only `adopt-existing` makes existing items adoptable here; a flag on a
\* single declaration does the same for that item.
Standing(r) == IF Initialize[r] = "adopt-existing" THEN Item \ Fresh(r) ELSE {}

\* declaredAdoptionAdmission: adoption opens from an unknown state only.
AnyAdopted(r) == {x \in Standing(r) : ~Managed(x)}                   \* fault
Adopted(r) == {x \in Standing(r) : record[x] = Unknown}

AdoptionRefused(r) ==
    \/ \E x \in Standing(r) : live[x] = Absent
    \/ \E x \in Standing(r) \ Adopted(r) : ~Managed(x)
    \/ \E x \in Adopted(r) : seen[r][x].shape # Declared(r, x)

\* assertExistingDeclaredTablesManaged and its twin for sequences.
NotManaged(r) == \E x \in Item \ (Fresh(r) \cup Adopted(r)) : ~Managed(x)

UnsupportedChange(r) == \E x \in Item \ Fresh(r) : ~Additive(r, x)

Recorded(r, s) == recorded[s] = Digest[r]
OnceChanged(r) == \E s \in OnceStep : recorded[s] # 0 /\ ~Recorded(r, s)
Pending(r) == {s \in OnceStep : ~Recorded(r, s)}

-----------------------------------------------------------------------------
(* The plan: which transactions, in which order.                           *)

\* The members of a set one after the other, as a relation has them.
InOrder(S, before) ==
    CHOOSE q \in [1..Cardinality(S) -> S] :
        \A i, j \in 1..Cardinality(S) : i < j => <<q[i], q[j]>> \in before

Smaller(S) == {p \in S \X S : p[1] < p[2]}

Each(role, S) ==
    [i \in 1..Cardinality(S) |->
        [role |-> role, of |-> {InOrder(S, Smaller(S))[i]}, as |-> 0]]

Adoptions(r) ==
    [i \in 1..Cardinality(Adopted(r)) |->
        LET x == InOrder(Adopted(r), Smaller(Adopted(r)))[i]
        IN  [role |-> "adopt", of |-> {x}, as |-> live[x].id]]

\* preflightPgDeclaredAdoption looks at every adoption before the first.
Preflight(r) ==
    IF Adopted(r) = {} THEN <<>>
    ELSE <<[role |-> "preflight", of |-> Adopted(r), as |-> 0]>>

NewTables(r) == Fresh(r) \cap Table
Group(r) ==
    IF NewTables(r) = {} THEN <<>>
    ELSE <<[role |-> "create", of |-> NewTables(r), as |-> Version[r]]>>

NewSequences(r) ==
    LET S == Fresh(r) \cap Sequence IN
    [i \in 1..Cardinality(S) |->
        [role |-> "create", of |-> {InOrder(S, Smaller(S))[i]}, as |-> 1]]

NewColumns(r) ==
    LET columns == {p \in Table \X (1..Version[r]) :
                        seen[r][p[1]] # Absent /\ seen[r][p[1]].shape < p[2]}
        Earlier == {p \in columns \X columns :
                        \/ p[1][1] < p[2][1]
                        \/ p[1][1] = p[2][1] /\ p[1][2] < p[2][2]}
        ordered == InOrder(columns, Earlier)
    IN  [i \in 1..Cardinality(columns) |->
            [role |-> "extend", of |-> {ordered[i][1]}, as |-> ordered[i][2]]]

Generated(r) == Preflight(r) \o Adoptions(r) \o NewSequences(r) \o Group(r)
                  \o NewColumns(r)

Whole(generated) ==
    Each("step", Before) \o generated \o Each("step", Step \ Before)

Current(r) == plan[r][at[r]]
TheItem(b) == CHOOSE x \in b.of : TRUE

Changes == {"adopt", "create", "extend"}
Completed(r) == {i \in 1..(at[r] - 1) : plan[r][i].role \in Changes}

-----------------------------------------------------------------------------
(* How a call ends.                                                        *)

UnlockedMetaOnly(r) ==                                               \* fault
    [h \in Home |-> IF lock[h] = r /\ h = "meta" THEN None ELSE lock[h]]

Unlocked(r) == [h \in Home |-> IF lock[h] = r THEN None ELSE lock[h]]

Ended(r, answer) ==
    /\ pc' = [pc EXCEPT ![r] = "idle"]
    /\ told' = [told EXCEPT ![r] = answer]
    /\ worked' = [worked EXCEPT ![r] = {}]
    /\ seen' = [seen EXCEPT ![r] = [x \in Item |-> Absent]]

AnswerKeepingSession(r, answer) ==                                   \* fault
    /\ Ended(r, answer)
    /\ lock' = Unlocked(r)
    /\ reply' = [reply EXCEPT ![r] = None]
    /\ UNCHANGED <<catalogueVars, record, ledger, claim, recorded, ran,
                   healthy, conn, plan, at, flight, landed>>

\* The open transaction is rolled back, the lock and the session given back.
Answer(r, answer) ==
    /\ Ended(r, answer)
    /\ conn' = [conn EXCEPT ![r] = "closed"]
    /\ lock' = Unlocked(r)
    /\ reply' = [reply EXCEPT ![r] = None]
    /\ UNCHANGED <<catalogueVars, record, ledger, claim, recorded, ran,
                   healthy, plan, at, flight, landed>>

\* What a failure of the current transaction becomes.
Failure(r) ==
    IF Current(r).role = "step" THEN "application-step-failed"
    ELSE IF Current(r).role \in {"preflight", "adopt"} \/ Completed(r) = {}
    THEN "execution-refused" ELSE "partially-applied"

LostAsFailed(r) ==                                                   \* fault
    IF pc[r] # "run" THEN "error"
    ELSE IF at[r] > Len(plan[r]) THEN "applied" ELSE Failure(r)

Lost(r) ==
    IF pc[r] # "run" THEN "error"
    ELSE IF at[r] > Len(plan[r]) THEN "applied"
    ELSE IF flight[r] # Nothing \/ reply[r] # None
    THEN "transport-ambiguous" ELSE Failure(r)

Goto(r, place) ==
    /\ pc' = [pc EXCEPT ![r] = place]
    /\ UNCHANGED <<conn, worked, told>>

-----------------------------------------------------------------------------
(* Before the plan.                                                        *)

Start(r) ==
    /\ pc[r] = "idle"
    /\ conn[r] = "closed"
    /\ conn' = [conn EXCEPT ![r] = "open"]
    /\ pc' = [pc EXCEPT ![r] =
           IF Initialize[r] = "never" THEN "lock" ELSE "currency"]
    /\ told' = [told EXCEPT ![r] = None]
    /\ plan' = [plan EXCEPT ![r] = <<>>]
    /\ at' = [at EXCEPT ![r] = 1]
    /\ landed' = [landed EXCEPT ![r] = {}]
    /\ UNCHANGED <<catalogueVars, ledgerVars, healthy, seen, worked, flight,
                   reply, faults, others>>

ReadCurrency(r) ==
    /\ pc[r] = "currency"
    /\ Goto(r, IF "schema" \in ledger THEN "lock" ELSE "meta")
    /\ UNCHANGED <<catalogueVars, ledgerVars, healthy, seen, plan, at,
                   serverVars, faults, others>>

\* processScope of one home: a transaction of its own, under its lock.
NextHome(home) == IF home = "meta" THEN "schema" ELSE "lock"
NotPristine(r) ==
    /\ Initialize[r] = "pristine"
    /\ \E x \in Item : live[x] # Absent

InitializeHome(r) ==
    LET home == pc[r] IN
    /\ home \in Home
    /\ flight[r] = Nothing /\ reply[r] = None
    /\ \/ /\ lock[home] # None
          /\ Answer(r, "busy")
       \/ /\ lock[home] = None
          /\ home \in ledger
          /\ Goto(r, NextHome(home))
          /\ UNCHANGED <<catalogueVars, ledgerVars, healthy, seen, plan, at,
                         serverVars>>
       \/ /\ lock[home] = None
          /\ home \notin ledger
          /\ home = "schema" /\ NotPristine(r)
          /\ Answer(r, "refused")
       \/ /\ lock[home] = None
          /\ home \notin ledger
          /\ ~(home = "schema" /\ NotPristine(r))
          /\ lock' = [lock EXCEPT ![home] = r]
          /\ flight' = [flight EXCEPT ![r] =
                 [role |-> home, of |-> {}, as |-> 0]]
          /\ UNCHANGED <<catalogueVars, record, ledger, claim, recorded, ran,
                         healthy, callVars, reply, landed>>
    /\ UNCHANGED <<faults, others>>

\* The session lock is tried and held until the call ends.
LockLedger(r) ==
    /\ pc[r] = "lock"
    /\ lock["schema"] = None
    /\ lock' = [lock EXCEPT !["schema"] = r]
    /\ Goto(r, "admit")
    /\ UNCHANGED <<catalogueVars, record, ledger, claim, recorded, ran,
                   healthy, seen, plan, at, serverVars, faults, others>>

LedgerBusy(r) ==
    /\ pc[r] = "lock"
    /\ lock["schema"] # None
    /\ Answer(r, "busy")
    /\ UNCHANGED <<faults, others>>

\* Currency again, and refuseForLiveReservations: a run that still holds its
\* lock is waited for, one that does not has to be reconciled.
AdmitOverClaims(r) ==                                                \* fault
    /\ pc[r] = "admit"
    /\ "schema" \in ledger
    /\ Goto(r, "compare")
    /\ UNCHANGED <<catalogueVars, ledgerVars, healthy, seen, plan, at,
                   serverVars, faults, others>>

Admit(r) ==
    /\ pc[r] = "admit"
    /\ \/ /\ "schema" \notin ledger \/ claim = "stopped"
          /\ Answer(r, "refused")
       \/ /\ "schema" \in ledger /\ claim = "running"
          /\ Answer(r, "busy")
       \/ /\ "schema" \in ledger /\ claim = None
          /\ Goto(r, "compare")
          /\ UNCHANGED <<catalogueVars, ledgerVars, healthy, seen, plan, at,
                         serverVars>>
    /\ UNCHANGED <<faults, others>>

-----------------------------------------------------------------------------
(* Planning reads the catalogue several times, and others go on meanwhile. *)

Compare(r) ==
    /\ pc[r] = "compare"
    /\ seen' = [seen EXCEPT ![r] = live]
    /\ Goto(r, "decide")
    /\ UNCHANGED <<catalogueVars, ledgerVars, healthy, plan, at, serverVars,
                   faults, others>>

Decide(r) ==
    LET refused == AdoptionRefused(r) \/ NotManaged(r) \/ UnsupportedChange(r)
    IN
    /\ pc[r] = "decide"
    /\ \/ refused /\ Answer(r, "refused")
       \/ /\ ~refused
          /\ plan' = [plan EXCEPT ![r] = Generated(r)]
          /\ Goto(r, "steps")
          /\ UNCHANGED <<catalogueVars, ledgerVars, healthy, seen, at,
                         serverVars>>
    /\ UNCHANGED <<faults, others>>

\* planPgApplicationSteps: asserts are inspected only when nothing else is to
\* be done, because only then does that decide the answer.
PlanSteps(r) ==
    LET nothingElse == plan[r] = <<>> /\ Pending(r) = {} IN
    /\ pc[r] = "steps"
    /\ \/ OnceChanged(r) /\ Answer(r, "refused")
       \/ /\ ~OnceChanged(r)
          /\ nothingElse /\ AssertStep \subseteq healthy
          /\ Answer(r, "no-drift")
       \/ /\ ~OnceChanged(r)
          /\ ~(nothingElse /\ AssertStep \subseteq healthy)
          /\ Goto(r, "own")
          /\ UNCHANGED <<catalogueVars, ledgerVars, healthy, seen, plan, at,
                         serverVars>>
    /\ UNCHANGED <<faults, others>>

\* assertOwnedChange: the tables to extend are managed, the addresses to
\* create at are free.
NotOwned(r) ==
    \E i \in DOMAIN plan[r] : \E x \in plan[r][i].of :
        \/ plan[r][i].role = "extend" /\ ~Managed(x)
        \/ plan[r][i].role = "create" /\ live[x] # Absent

Own(r) ==
    /\ pc[r] = "own"
    /\ \/ NotOwned(r) /\ Answer(r, "refused")
       \/ /\ ~NotOwned(r)
          /\ plan' = [plan EXCEPT ![r] = Whole(plan[r])]
          /\ Goto(r, "run")
          /\ seen' = [seen EXCEPT ![r] = [x \in Item |-> Absent]]
          /\ UNCHANGED <<catalogueVars, ledgerVars, healthy, at, serverVars>>
    /\ UNCHANGED <<faults, others>>

-----------------------------------------------------------------------------
(* Executing the plan.  A transaction that fails before its COMMIT leaves  *)
(* nothing; what it would have done is applied when the COMMIT ends.       *)

Running(r) ==
    /\ pc[r] = "run"
    /\ at[r] <= Len(plan[r])
    /\ flight[r] = Nothing /\ reply[r] = None

Advance(r) ==
    /\ at' = [at EXCEPT ![r] = @ + 1]
    /\ worked' = [worked EXCEPT ![r] = {}]

Commit(r) ==
    /\ flight' = [flight EXCEPT ![r] = Current(r)]
    /\ UNCHANGED <<catalogueVars, ledgerVars, healthy, pc, conn, seen, plan,
                   at, told, reply, landed>>

CompleteAsPlanned(r, s) ==                                           \* fault
    s \in AssertStep /\ s \in healthy

\* runPgApplicationSteps asks the ledger again, and a healthy assert nothing.
Complete(r, s) == IF s \in OnceStep THEN Recorded(r, s) ELSE s \in healthy

RunStep(r) ==
    LET s == TheItem(Current(r)) IN
    /\ Running(r)
    /\ Current(r).role = "step"
    /\ \/ /\ Complete(r, s)
          /\ Advance(r)
          /\ UNCHANGED <<catalogueVars, ledgerVars, healthy, pc, conn, seen,
                         plan, told, serverVars>>
       \/ ~Complete(r, s) /\ Commit(r) /\ UNCHANGED worked
    /\ UNCHANGED <<faults, others>>

\* The shape is compared and the identity read, without any lock on the item.
AsDeclared(r, x) == live[x] # Absent /\ live[x].shape = Declared(r, x)

InspectAdoptions(r) ==
    LET adoptions == {b \in ToSet(plan[r]) : b.role = "adopt"}
        refused == \E b \in adoptions : \E x \in b.of :
                       ~AsDeclared(r, x) \/ live[x].id # b.as
    IN
    /\ Running(r)
    /\ Current(r).role = "preflight"
    /\ \/ refused /\ Answer(r, "adoption-refused")
       \/ /\ ~refused
          /\ Advance(r)
          /\ UNCHANGED <<catalogueVars, ledgerVars, healthy, pc, conn, seen,
                         plan, told, serverVars>>
    /\ UNCHANGED <<faults, others>>

\* verifyLiveAdmission; a refusal commits a terminal that leaves the address
\* as unknown as it was.
Adopt(r) ==
    LET x == TheItem(Current(r))
        refused == ~AsDeclared(r, x) \/ live[x].id # Current(r).as
    IN
    /\ Running(r)
    /\ Current(r).role = "adopt"
    /\ \/ refused /\ Answer(r, "adoption-refused")
       \/ ~refused /\ Commit(r) /\ UNCHANGED worked
    /\ UNCHANGED <<faults, others>>

\* The items of a transaction are created one after the other, each at an
\* address found vacant; one that is not rolls all of them back.
Create(r) ==
    LET rest == Current(r).of \ worked[r]
        x == CHOOSE x \in rest : \A y \in rest : x <= y
    IN
    /\ Running(r)
    /\ Current(r).role = "create"
    /\ \/ live[x] # Absent /\ Answer(r, Failure(r))
       \/ /\ live[x] = Absent
          /\ worked' = [worked EXCEPT ![r] = @ \cup {x}]
          /\ IF rest = {x}
             THEN Commit(r)
             ELSE UNCHANGED <<catalogueVars, ledgerVars, healthy, pc, conn,
                              seen, plan, at, told, serverVars>>
    /\ UNCHANGED <<faults, others>>

\* ADD COLUMN takes its table by name.
Extend(r) ==
    LET x == TheItem(Current(r))
        refused == live[x] = Absent \/ live[x].shape >= Current(r).as
    IN
    /\ Running(r)
    /\ Current(r).role = "extend"
    /\ \/ refused /\ Answer(r, Failure(r))
       \/ ~refused /\ Commit(r) /\ UNCHANGED worked
    /\ UNCHANGED <<faults, others>>

Finish(r) ==
    /\ pc[r] = "run"
    /\ at[r] > Len(plan[r])
    /\ Answer(r, "applied")
    /\ UNCHANGED <<faults, others>>

\* The answer to a COMMIT.
Receive(r) ==
    /\ pc[r] \in Home \cup {"run"}
    /\ \/ /\ reply[r] = "committed"
          /\ IF pc[r] = "run"
             THEN Advance(r) /\ UNCHANGED <<pc, conn, told>>
             ELSE Goto(r, NextHome(pc[r])) /\ UNCHANGED at
          /\ reply' = [reply EXCEPT ![r] = None]
          /\ UNCHANGED <<catalogueVars, ledgerVars, healthy, seen, plan,
                         flight, landed>>
       \/ /\ reply[r] = "rolled-back"
          /\ Answer(r, IF pc[r] = "run" THEN Failure(r) ELSE "refused")
    /\ UNCHANGED <<faults, others>>

\* A statement fails: a lock timeout, a refused privilege, a callback.
Fails(r) ==
    /\ pc[r] # "idle"
    /\ pc[r] = "run" => at[r] <= Len(plan[r])
    /\ flight[r] = Nothing /\ reply[r] = None
    /\ faults < MaxFault
    /\ faults' = faults + 1
    /\ Answer(r, IF pc[r] = "run" THEN Failure(r)
                 ELSE IF pc[r] \in Home THEN "refused" ELSE "error")
    /\ UNCHANGED others

-----------------------------------------------------------------------------
(* The server.                                                             *)

\* Identities of new objects, in the order of their items.
Rank(x, S) == Cardinality({y \in S : y <= x})

Created(b, x) ==
    IF x \in b.of THEN [id |-> minted + Rank(x, b.of), shape |-> b.as]
    ELSE live[x]

Extended(b, x) ==
    IF x \in b.of /\ live[x].shape # Foreign
    THEN [live[x] EXCEPT !.shape = b.as] ELSE live[x]

RecordedBy(b, x) ==
    IF x \in b.of /\ b.role = "adopt" THEN b.as
    ELSE IF x \in b.of /\ b.role = "create" THEN Created(b, x).id
    ELSE record[x]

Apply(r, b) ==
    /\ live' = IF b.role = "create" THEN [x \in Item |-> Created(b, x)]
               ELSE IF b.role = "extend" THEN [x \in Item |-> Extended(b, x)]
               ELSE live
    /\ minted' = IF b.role = "create" THEN minted + Cardinality(b.of)
                                      ELSE minted
    /\ record' = IF b.role \in Changes
                 THEN [x \in Item |-> RecordedBy(b, x)] ELSE record
    /\ recorded' = [s \in OnceStep |-> IF b.role = "step" /\ s \in b.of
                                   THEN Digest[r] ELSE recorded[s]]
    /\ ran' = [s \in OnceStep |-> IF b.role = "step" /\ s \in b.of
                              THEN ran[s] + 1 ELSE ran[s]]
    /\ healthy' = IF b.role = "step" THEN healthy \cup (b.of \cap AssertStep)
                                     ELSE healthy
    /\ ledger' = ledger \cup ({b.role} \cap Home)
    /\ landed' = [landed EXCEPT ![r] =
           IF b.role \in Home THEN @ ELSE @ \cup {at[r]}]

\* Initialization locks its home for the transaction only.
AfterCommit(r, b) ==
    [h \in Home |-> IF h = b.role THEN None ELSE lock[h]]

CommitEnds(r) ==
    LET b == flight[r] IN
    /\ b # Nothing
    /\ flight' = [flight EXCEPT ![r] = Nothing]
    /\ lock' = AfterCommit(r, b)
    /\ \/ /\ Apply(r, b)
          /\ reply' = [reply EXCEPT ![r] =
                 IF conn[r] = "open" THEN "committed" ELSE None]
          /\ UNCHANGED faults
       \/ /\ faults < MaxFault
          /\ faults' = faults + 1
          /\ reply' = [reply EXCEPT ![r] =
                 IF conn[r] = "open" THEN "rolled-back" ELSE None]
          /\ UNCHANGED <<catalogueVars, record, ledger, recorded, ran, healthy,
                         landed>>
    /\ UNCHANGED <<claim, callVars, others>>

\* A dead process leaves its session to the server, as a process does that
\* loses its connection; the process learns only of the latter.
LoseSession(r) ==
    /\ pc[r] # "idle"
    /\ faults < MaxFault
    /\ faults' = faults + 1
    /\ \E answer \in {Lost(r), "died"} : Ended(r, answer)
    /\ conn' = [conn EXCEPT ![r] = "orphan"]
    /\ reply' = [reply EXCEPT ![r] = None]
    /\ UNCHANGED <<catalogueVars, ledgerVars, healthy, plan, at, flight, landed,
                   others>>

BackendEnds(r) ==
    /\ conn[r] = "orphan"
    /\ flight[r] = Nothing
    /\ conn' = [conn EXCEPT ![r] = "closed"]
    /\ lock' = Unlocked(r)
    /\ UNCHANGED <<catalogueVars, record, ledger, claim, recorded, ran, healthy,
                   pc, seen, plan, at, worked, told, serverVars, faults,
                   others>>

-----------------------------------------------------------------------------
(* Everybody else: sessions that know nothing of dbsp wait for the locks   *)
(* of uncommitted DDL; another dbsp run holds a claim between two of its   *)
(* transactions, each of which needs the ledger lock.                      *)

Locked(x) ==
    \E r \in Replica :
        \/ x \in worked[r]
        \/ flight[r].role \in {"create", "extend"} /\ x \in flight[r].of

Intervene ==
    /\ others < MaxOther
    /\ others' = others + 1
    /\ UNCHANGED <<ledgerVars, callVars, serverVars, faults>>

SomebodyCreates(x) ==
    /\ live[x] = Absent /\ ~Locked(x)
    /\ \E shape \in {Foreign} \cup {Declared(r, x) : r \in Replica} :
           live' = [live EXCEPT ![x] = [id |-> minted + 1, shape |-> shape]]
    /\ minted' = minted + 1
    /\ Intervene
    /\ UNCHANGED healthy

SomebodyDrops(x) ==
    /\ live[x] # Absent /\ ~Locked(x)
    /\ live' = [live EXCEPT ![x] = Absent]
    /\ Intervene
    /\ UNCHANGED <<minted, healthy>>

SomebodyReplaces(x) ==
    /\ live[x] # Absent /\ ~Locked(x)
    /\ live' = [live EXCEPT ![x].id = minted + 1]
    /\ minted' = minted + 1
    /\ Intervene
    /\ UNCHANGED healthy

SomebodyAlters(x) ==
    /\ live[x] # Absent /\ live[x].shape # Foreign /\ ~Locked(x)
    /\ live' = [live EXCEPT ![x].shape = Foreign]
    /\ Intervene
    /\ UNCHANGED <<minted, healthy>>

SomebodyBreaks(s) ==
    /\ s \in healthy
    /\ healthy' = healthy \ {s}
    /\ Intervene
    /\ UNCHANGED catalogueVars

WriterClaims ==
    /\ "schema" \in ledger
    /\ lock["schema"] = None
    /\ claim = None
    /\ claim' = "running"
    /\ others < MaxOther
    /\ others' = others + 1
    /\ UNCHANGED <<catalogueVars, record, ledger, lock, recorded, ran, healthy,
                   callVars, serverVars, faults>>

WriterStops ==
    /\ claim = "running"
    /\ faults < MaxFault
    /\ faults' = faults + 1
    /\ claim' = "stopped"
    /\ UNCHANGED <<catalogueVars, record, ledger, lock, recorded, ran, healthy,
                   callVars, serverVars, others>>

\* The run resolves its claim, or a reconciliation does.
ClaimEnds ==
    /\ claim # None
    /\ lock["schema"] = None
    /\ claim' = None
    /\ UNCHANGED <<catalogueVars, record, ledger, lock, recorded, ran, healthy,
                   callVars, serverVars, faults, others>>

-----------------------------------------------------------------------------
Call(r) ==
    \/ Start(r) \/ ReadCurrency(r) \/ InitializeHome(r)
    \/ LockLedger(r) \/ LedgerBusy(r) \/ Admit(r)
    \/ Compare(r) \/ Decide(r) \/ PlanSteps(r) \/ Own(r)
    \/ RunStep(r) \/ InspectAdoptions(r) \/ Adopt(r) \/ Create(r) \/ Extend(r)
    \/ Receive(r) \/ Finish(r)

Server(r) == CommitEnds(r) \/ BackendEnds(r)

Somebody ==
    \/ \E x \in Item : \/ SomebodyCreates(x) \/ SomebodyDrops(x)
                      \/ SomebodyReplaces(x) \/ SomebodyAlters(x)
    \/ \E s \in AssertStep : SomebodyBreaks(s)
    \/ WriterClaims \/ WriterStops \/ ClaimEnds

Next ==
    \/ \E r \in Replica : Call(r) \/ Server(r) \/ Fails(r) \/ LoseSession(r)
    \/ Somebody

Spec == Init /\ [][Next]_vars

\* A replica is started again and again, its steps and the server go on, and
\* claims end.  The ledger lock is tried and not waited for: strong fairness
\* at moments when it is free says that a replica does not always come at the
\* wrong one.
LockFree == lock["schema"] = None
Fairness ==
    /\ \A r \in Replica :
          /\ WF_vars(Call(r))
          /\ WF_vars(Server(r))
          /\ SF_vars(LockFree /\ Start(r))
          /\ SF_vars(LockFree /\ ReadCurrency(r))
          /\ SF_vars(LockLedger(r))
    /\ SF_vars(ClaimEnds)

FairSpec == Spec /\ Fairness

-----------------------------------------------------------------------------
Answers == {None, "died", "error", "busy", "refused", "no-drift", "applied",
            "adoption-refused", "execution-refused", "partially-applied",
            "application-step-failed", "transport-ambiguous"}
Transaction ==
    [role : {None, "step", "preflight"} \cup Changes \cup Home,
     of : SUBSET (Item \cup Step), as : Nat]

\* Every variable holds a value the code could hold in it.
TypeOK ==
    /\ live \in [Item -> [id : Nat, shape : Nat]]
    /\ minted \in Nat
    /\ record \in [Item -> Nat]
    /\ ledger \subseteq Home
    /\ lock \in [Home -> Replica \cup {None}]
    /\ claim \in {None, "running", "stopped"}
    /\ recorded \in [OnceStep -> Nat] /\ ran \in [OnceStep -> Nat]
    /\ healthy \subseteq AssertStep
    /\ pc \in [Replica -> Home \cup {"idle", "currency", "lock", "admit",
                   "compare", "decide", "steps", "own", "run"}]
    /\ conn \in [Replica -> {"closed", "open", "orphan"}]
    /\ seen \in [Replica -> [Item -> [id : Nat, shape : Nat]]]
    /\ plan \in [Replica -> Seq(Transaction)]
    /\ at \in [Replica -> Nat \ {0}]
    /\ worked \in [Replica -> SUBSET Item]
    /\ flight \in [Replica -> Transaction]
    /\ reply \in [Replica -> {None, "committed", "rolled-back"}]
    /\ landed \in [Replica -> SUBSET Nat]
    /\ told \in [Replica -> Answers]
    /\ faults \in 0..MaxFault /\ others \in 0..MaxOther
    /\ \A r \in Replica : pc[r] # "idle" <=> conn[r] = "open"

\* "A `once` runs the first time and is recorded with its `digest`; later
\* calls skip it" (guide/converge.md): whatever replicas, lost answers and
\* dead processes do, its work is committed once, and the record says so.
OnceIsOnce ==
    \A s \in OnceStep : ran[s] = IF recorded[s] = 0 THEN 0 ELSE 1

\* What the caller is told: a refusal while planning, `busy` and `no-drift`
\* mean that nothing was done; `applied` that everything was; otherwise
\* everything before the transaction the call ended in has landed, and that
\* one and what follows it has not, except that after `transport-ambiguous`
\* and for a dead process it may have.
AnswerIsTrue ==
    \A r \in Replica :
        /\ told[r] \in {"busy", "refused", "no-drift", "error"}
              => landed[r] = {}
        /\ told[r] # None
              => /\ Completed(r) \subseteq landed[r]
                 /\ landed[r] \subseteq 1..at[r]
                 /\ at[r] \in landed[r]
                       => told[r] \in {"transport-ambiguous", "died"}
        /\ told[r] = "applied" => at[r] > Len(plan[r])
        /\ told[r] = "partially-applied" => Completed(r) # {}

\* "It never starts over another writer's open claim" (docs/adr/0007): from
\* its admission until its last COMMIT has ended, on a server that may have
\* lost the client, a call holds the ledger lock and no claim is open.
NeverOverAClaim ==
    \A r \in Replica :
        \/ pc[r] \in {"compare", "decide", "steps", "own", "run"}
        \/ flight[r].role \in Changes \cup {"step"}
        => lock["schema"] = r /\ claim = None

\* "Any other ledger state is refused, which includes a managed object that
\* was dropped and recreated; converge offers no way to take it over"
\* (guide/converge.md): an identity that comes into the ledger is either
\* that of an object the same step created, or one at an address whose state
\* was unknown, named by a call that adopts.
NothingIsTakenOver ==
    [][\A x \in Item : record'[x] # record[x] =>
          \/ record'[x] > minted /\ record'[x] = live'[x].id
          \/ /\ record[x] = Unknown
             /\ \E r \in Replica : Initialize[r] = "adopt-existing"
                                     /\ landed'[r] # landed[r]]_vars

\* What a replica cannot get past by itself, as the guide lists it: objects
\* that are neither managed nor to be adopted, shapes that are not additive,
\* a `once` step with another digest, relations that are in the way of a
\* pristine start.
UpToDate(r) ==
    /\ "schema" \in ledger
    /\ \A x \in Item : Managed(x) /\ live[x].shape = Declared(r, x)
    /\ \A s \in OnceStep : Recorded(r, s)
    /\ AssertStep \subseteq healthy

Obstacle(r) ==
    \/ \E x \in Item : live[x] # Absent /\ ~Managed(x)
          /\ ~(/\ Initialize[r] = "adopt-existing"
               /\ record[x] = Unknown
               /\ live[x].shape = Declared(r, x))
    \/ \E x \in Item : live[x] # Absent /\ live[x].shape # Declared(r, x)
          /\ ~(x \in Table /\ live[x].shape \in 1..Version[r])
    \/ OnceChanged(r)
    \/ "schema" \notin ledger /\ (Initialize[r] = "never" \/ NotPristine(r))

\* However a call ends - refused, failed half-way, dead, its last COMMIT
\* unanswered - the calls that follow it bring the schema to the declared
\* model, unless they meet what only an operator can decide.
SchemaConverges ==
    \A r \in Replica : []<>(UpToDate(r) \/ Obstacle(r))

=============================================================================
