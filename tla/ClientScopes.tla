---------------------------- MODULE ClientScopes ----------------------------
(***************************************************************************)
(* The scopes a PgAdapter opens on one client of the pool: transaction(),  *)
(* withScratchScope(), withPinnedConnection() and what is nested in them   *)
(* (packages/adapter-pgsql/src/pgsql-adapter.ts).                          *)
(*                                                                         *)
(* A callback is free to leave a statement, a stream or a nested scope     *)
(* un-awaited, to return, to throw or to keep using its adapter after it   *)
(* has returned.  What stands against that is the stack of scopes of the   *)
(* client, the closing and poisoned marks of each, the account a scope     *)
(* keeps of its children and the lock all scopes of a client share.  The   *)
(* lock is first in, first out, and SAVEPOINT, the one statement sent      *)
(* outside of it, is only sent while nobody waits: the lock and the        *)
(* driver's own queue are one `queue` here.  A statement at its head, its  *)
(* effect on the server and what its caller does next are one action.      *)
(*                                                                         *)
(* A definition marked "fault" is no part of the model: it is the next     *)
(* definition with a bug one could write.                                  *)
(***************************************************************************)
EXTENDS Integers, Sequences, FiniteSets

CONSTANTS
    Roots,          \* how the client is taken: "transaction", "scratch", ...
    Streams,        \* how a stream may fail: its "query", or its "rows"
    AwaitsScratch,  \* whether callbacks wait for the scratch work they have
                    \* asked of a pinned adapter before they return
    AwaitsStreams,  \* whether they wait for their streams, and for what has
                    \* some, before they return, throw or open a scope
    MaxScope,       \* bound: scopes opened on the client
    MaxWork,        \* bound: statements the callbacks issue
    MaxFault,       \* bound: failed statements and streams, raw COMMITs,
                    \* lost connections, abort signals
    MaxRefused      \* bound: refused streams that clean up at a time

ASSUME ScopeAssumption ==
    /\ Roots \subseteq {"transaction", "scratch", "pinned"}
    /\ Streams \subseteq {"query", "rows"}
    /\ AwaitsScratch \in BOOLEAN
    /\ AwaitsStreams \in BOOLEAN
    /\ MaxScope \in Nat \ {0}
    /\ MaxWork \in Nat
    /\ MaxFault \in Nat
    /\ MaxRefused \in Nat

VARIABLES
    scope,      \* scope[s]: the scopes opened so far, the root first
    stack,      \* the scopes on the client, the innermost last
    queue,      \* the statements, and drains, that wait for the client
    marks,      \* the server's transaction and its savepoints
    aborted,    \* whether the server refuses statements until a rollback
    link,       \* whether the connection is "up" or "down"
    client,     \* "held", or given back: "returned", "destroyed"
    faults,
    issuer,     \* history: issuer[w], the scope that issued statement w
    ran,        \* history: the statements the server has executed
    durable,    \* history: the statements the server has committed
    excused     \* history: the transactions raw SQL, or a lost COMMIT, ended

serverVars == <<marks, aborted, link>>
historyVars == <<issuer, ran, durable, excused>>
vars == <<scope, stack, queue, serverVars, client, faults, historyVars>>

Kinds == {"transaction", "savepoint", "pinned"}

Job(what, s, w) == [what |-> what, of |-> s, work |-> w]

(* A scope: the one around it, what it is on the server, whether it is     *)
(* rolled back when it is done, whether the callback around it awaits it,  *)
(* and how far it has come.                                                *)
Scope(up, kind, undo, awaited, pc) ==
    [up |-> up, kind |-> kind, undo |-> undo, observed |-> awaited, pc |-> pc,
     closing |-> FALSE, poison |-> FALSE, undone |-> FALSE,
     settled |-> "open", told |-> "nothing"]

Children(s) == {c \in DOMAIN scope : scope[c].up = s}

Top(s) == stack # <<>> /\ stack[Len(stack)] = s

OnStack(s) == \E i \in DOMAIN stack : stack[i] = s

Fault == faults < MaxFault /\ faults' = faults + 1

-----------------------------------------------------------------------------
(* What a scope admits.                                                    *)

(* A statement at the head of the lock: its scope is the innermost one and *)
(* neither it nor a scope around it is poisoned.                           *)
Admitted(s) == Top(s) /\ \A i \in DOMAIN stack : ~scope[stack[i]].poison

(* assertCanUseClient for a statement that is issued.                      *)
Usable(s) == Admitted(s) /\ \A i \in DOMAIN stack : ~scope[stack[i]].closing

(* Whether closeScopeAndAssertChildren throws.                             *)
Abandoned(s) ==
    \E c \in Children(s) : scope[c].settled = "open" \/ ~scope[c].observed

-----------------------------------------------------------------------------
(* The ways out of a scope.  `sc` is the scopes as the caller leaves them, *)
(* `q` the rest of the queue.                                              *)

Proceed(s, pc, what, sc, q) ==
    /\ scope' = [sc EXCEPT ![s].pc = pc]
    /\ queue' = Append(q, Job(what, s, 0))
    /\ UNCHANGED <<stack, client>>

Wait(s, sc, q) ==
    /\ scope' = [sc EXCEPT ![s].pc = "waiting"]
    /\ queue' = q
    /\ UNCHANGED <<stack, client>>

(* The catch blocks: the scope is closed, and what it began is rolled back *)
(* unless a failed stream has done so.                                     *)
Fail(s, sc, q) ==
    LET closed == [sc EXCEPT ![s].closing = TRUE]
    IN  IF sc[s].kind = "pinned" \/ sc[s].undone
        THEN Wait(s, closed, q)
        ELSE Proceed(s, "undoing", "undo", closed, q)

StillOn(s) == stack                                                 \* fault

Without(s) ==
    IF OnStack(s)
    THEN LET i == CHOOSE j \in DOMAIN stack : stack[j] = s
         IN  SubSeq(stack, 1, i - 1) \o SubSeq(stack, i + 1, Len(stack))
    ELSE stack

(* releaseScope: off the stack, the parent's account settled, and nothing  *)
(* of its state is read again; the root gives the client back, destroyed   *)
(* when its cleanup failed.                                                *)
Leave(s, verdict, sc, q) ==
    /\ scope' = [sc EXCEPT ![s].pc = "done", ![s].closing = TRUE,
                           ![s].poison = FALSE, ![s].undone = FALSE,
                           ![s].told = IF @ = "nothing" THEN verdict ELSE @,
                           ![s].settled = IF @ = "open" THEN verdict ELSE @]
    /\ queue' = q
    /\ stack' = Without(s)
    /\ client' = IF s # 1 \/ client # "held" THEN client
                 ELSE IF link = "up" THEN "returned" ELSE "destroyed"

PoisonTop ==                                                        \* fault
    [scope EXCEPT ![stack[Len(stack)]].poison = TRUE]

PoisonStack ==
    [s \in DOMAIN scope |-> IF OnStack(s) THEN [scope[s] EXCEPT !.poison = TRUE]
                            ELSE scope[s]]

PoisonSelf(s) == [scope EXCEPT ![s].poison = TRUE]

-----------------------------------------------------------------------------
(* The server.                                                             *)

At(what) == queue # <<>> /\ queue[1].what = what

Of == queue[1].of

Served == Tail(queue)

Lost == link = "down"

Level(s) == {i \in DOMAIN marks : marks[i].of = s}

Works(levels) == UNION {marks[i].works : i \in levels}

Committable == IF aborted THEN {} ELSE Works(DOMAIN marks)

EndTransaction == marks' = <<>> /\ aborted' = FALSE /\ UNCHANGED link

(* ROLLBACK TO: the levels above the savepoint go, and what it held.       *)
BackTo(s) ==
    \E i \in Level(s) :
        /\ marks' = [SubSeq(marks, 1, i) EXCEPT ![i].works = {}]
        /\ aborted' = FALSE
        /\ UNCHANGED link

(* RELEASE: the level and those above it become part of the one below.     *)
Merge(s) ==
    \E i \in Level(s) :
        /\ marks' = [SubSeq(marks, 1, i - 1) EXCEPT
                        ![i - 1].works = Works((i - 1) .. Len(marks))]
        /\ UNCHANGED <<aborted, link>>

(* A statement that fails aborts the transaction it is in.                 *)
Error == aborted' = (marks # <<>> /\ link = "up") /\ UNCHANGED <<marks, link>>

SameServer == UNCHANGED serverVars

SameHistory == UNCHANGED <<faults, historyVars>>

-----------------------------------------------------------------------------
(* What the callbacks do.                                                  *)

InBody(s) == s \in DOMAIN scope /\ scope[s].pc = "body"

(* enterTransactionScope on a pinned adapter, enterSavepointScope on any   *)
(* other and for scratch work: refused while another scope is open, and a  *)
(* savepoint while a statement waits.                                      *)
Enters(s, kind) ==
    /\ Usable(s)
    /\ kind = "savepoint" =>
           \A i \in DOMAIN queue : queue[i].what \in {"savepoint", "close"}

RefusedSilently(s, kind, undo, awaited) ==                          \* fault
    [Scope(s, kind, undo, awaited, "done") EXCEPT
        !.closing = TRUE, !.told = "rejected"]

Refused(s, kind, undo, awaited) ==
    [Scope(s, kind, undo, awaited, "done") EXCEPT
        !.closing = TRUE, !.told = "rejected", !.settled = "rejected"]

(* A stream on a pinned adapter opens a transaction of its own, which the  *)
(* pinned scope does not account for: it is settled from the start.  It    *)
(* differs from transaction() where the callback does not wait for it.     *)
Unaccounted(s, undo, awaited) ==
    /\ Streams # {} /\ ~AwaitsStreams
    /\ scope[s].kind = "pinned" /\ ~undo /\ awaited

(* transaction() and withScratchScope() on the adapter of s, and a stream  *)
(* on a pinned one.  A scope that is refused is settled at once.  When the *)
(* callback awaits the promise makes no difference, only whether it does   *)
(* so before it is done.                                                   *)
Open(s, undo, awaited, settled) ==
    LET kind == IF scope[s].kind = "pinned" /\ ~undo
                THEN "transaction" ELSE "savepoint"
        new == Len(scope) + 1
    IN  /\ Len(scope) < MaxScope
        /\ settled = "resolved" => Unaccounted(s, undo, awaited)
        /\ IF Enters(s, kind)
           THEN /\ scope' = Append(scope,
                               [Scope(s, kind, undo, awaited, "opening")
                                   EXCEPT !.settled = settled])
                /\ stack' = Append(stack, new)
                /\ queue' = Append(queue,
                               Job(IF kind = "savepoint" THEN kind ELSE "begin",
                                   new, 0))
           ELSE /\ scope' = Append(scope, Refused(s, kind, undo, awaited))
                /\ UNCHANGED <<stack, queue>>
        /\ UNCHANGED <<serverVars, client, faults, historyVars>>

Issue(s) ==
    /\ Usable(s)
    /\ Len(issuer) < MaxWork
    /\ issuer' = Append(issuer, s)
    /\ queue' = Append(queue, Job("work", s, Len(issuer) + 1))
    /\ UNCHANGED <<scope, stack, serverVars, client, faults, ran, durable,
                   excused>>

(* A COMMIT given to executeRaw.                                           *)
Raw(s) ==
    /\ Usable(s)
    /\ Fault
    /\ queue' = Append(queue, Job("raw", s, 0))
    /\ UNCHANGED <<scope, stack, serverVars, client, historyVars>>

(* The callback of s has been called, and its scope is not gone yet: one   *)
(* whose BEGIN was refused only waits.                                     *)
Called(s) ==
    /\ s \in DOMAIN scope
    /\ scope[s].pc \notin {"opening", "done"}
    /\ scope[s].pc = "waiting" =>
           scope[s].kind = "savepoint" \/ scope[s].undone

(* A FETCH that fails, of a first or a later batch: a stream that does not *)
(* fail changes nothing, and it goes on behind its callback unless that    *)
(* waits for it.  A FETCH that is refused, because its scope is poisoned,  *)
(* closing or covered, fails the stream as well, and the stream rolls its  *)
(* scope back; nothing poisons the scope for it.                           *)
Fetch(s) ==
    /\ Called(s) /\ scope[s].kind # "pinned"
    /\ Streams # {}
    /\ AwaitsStreams => InBody(s) /\ (Usable(s) \/ scope[s].poison)
    /\ \/ /\ Usable(s)
          /\ Fault
          /\ queue' = Append(queue, Job("fetch", s, 0))
       \/ /\ ~Usable(s)
          /\ Cardinality({i \in DOMAIN queue :
                             queue[i].what \in {"recover", "close"}})
                < MaxRefused
          /\ queue' = Append(queue, Job("recover", s, 0))
          /\ UNCHANGED faults
    /\ UNCHANGED <<scope, stack, serverVars, client, historyVars>>

ReturnUnaccounted(s) ==                                             \* fault
    /\ Proceed(s, "draining", "drain",
               [scope EXCEPT ![s].closing = TRUE], queue)
    /\ SameServer
    /\ SameHistory

(* The callback returns: a scope it opened and did not await makes it fail *)
Return(s) ==
    /\ IF Abandoned(s)
       THEN Fail(s, scope, queue)
       ELSE Proceed(s, "draining", "drain",
                    [scope EXCEPT ![s].closing = TRUE], queue)
    /\ SameServer
    /\ SameHistory

Throw(s) == Fail(s, scope, queue) /\ SameServer /\ SameHistory

(* Scratch work on a pinned connection counts as settled from the failure  *)
(* of its SAVEPOINT on, before its transaction has begun.                  *)
Scratching(s) ==
    /\ AwaitsScratch
    /\ scope[s].kind = "pinned"
    /\ \E c \in Children(s) : scope[c].undo /\ scope[c].pc # "done"

Callback(s) ==
    /\ InBody(s)
    /\ \/ \E undo, awaited \in BOOLEAN, settled \in {"open", "resolved"} :
              Open(s, undo, awaited, settled)
       \/ Issue(s)
       \/ Raw(s)
       \/ ~Scratching(s) /\ Return(s)
       \/ ~Scratching(s) /\ Throw(s)

-----------------------------------------------------------------------------
(* What the statements at the head of the queue do.                        *)

ServeBegin ==
    /\ At("begin")
    /\ IF ~Admitted(Of) \/ Lost \/ aborted
       THEN Wait(Of, [scope EXCEPT ![Of].closing = TRUE], Served) /\ SameServer
       ELSE /\ scope' = [scope EXCEPT ![Of].pc = "body"]
            /\ queue' = Served
            /\ marks' = IF marks = <<>> THEN <<[of |-> Of, works |-> {}]>>
                        ELSE marks
            /\ UNCHANGED <<stack, client, aborted, link>>
    /\ SameHistory

(* 25P01 on SAVEPOINT: the scope is left, which settles it for its parent, *)
(* and a transaction of its own is begun, on a pinned connection only.     *)
BeginInstead(s) ==
    LET quiet == [scope EXCEPT ![s].settled = "resolved"]
        parent == scope[s].up
    IN  IF /\ Len(stack) > 1
           /\ stack[Len(stack) - 1] = parent
           /\ scope[parent].kind = "pinned"
           /\ ~scope[parent].closing
           /\ ~scope[parent].poison
        THEN /\ scope' = [quiet EXCEPT ![s].kind = "transaction"]
             /\ queue' = Append(Served, Job("begin", s, 0))
             /\ UNCHANGED <<stack, client>>
        ELSE Leave(s, "rejected", quiet, Served)

ServeSavepoint ==
    /\ At("savepoint")
    /\ IF Lost \/ aborted
       THEN Leave(Of, "rejected", scope, Served) /\ SameServer
       ELSE IF marks = <<>>
       THEN BeginInstead(Of) /\ SameServer
       ELSE /\ scope' = [scope EXCEPT ![Of].pc = "body"]
            /\ queue' = Served
            /\ marks' = Append(marks, [of |-> Of, works |-> {}])
            /\ UNCHANGED <<stack, client, aborted, link>>
    /\ SameHistory

(* Past the lock with its scope gone, covered or poisoned, a statement is  *)
(* refused and never sent.  A stream whose FETCH is refused rolls back.    *)
Refuse ==
    /\ \E what \in {"work", "fetch", "raw"} : At(what)
    /\ ~Admitted(Of)
    /\ IF At("fetch") /\ OnStack(Of)
       THEN queue' = Append(Served, Job("recover", Of, 0))
       ELSE queue' = Served
    /\ UNCHANGED <<scope, stack, client>>
    /\ SameServer
    /\ SameHistory

WorkRuns ==
    /\ At("work") /\ Admitted(Of) /\ ~Lost /\ ~aborted
    /\ ran' = ran \cup {queue[1].work}
    /\ IF marks = <<>>
       THEN durable' = durable \cup {queue[1].work} /\ UNCHANGED marks
       ELSE /\ marks' = [marks EXCEPT ![Len(marks)].works = @ \cup {queue[1].work}]
            /\ UNCHANGED durable
    /\ queue' = Served
    /\ UNCHANGED <<scope, stack, client, aborted, link, faults, issuer, excused>>

WorkFails ==
    /\ At("work") /\ Admitted(Of)
    /\ IF Lost \/ aborted THEN UNCHANGED faults ELSE Fault
    /\ Error
    /\ scope' = PoisonSelf(Of)
    /\ queue' = Served
    /\ UNCHANGED <<stack, client, historyVars>>

(* The stream of a scope fails, in its query or in what it makes of the    *)
(* rows, and rolls the scope back before it closes its cursor.             *)
ServeFetch ==
    /\ At("fetch") /\ Admitted(Of)
    /\ \E failing \in Streams :
           IF failing = "query" \/ Lost \/ aborted
           THEN Error /\ scope' = PoisonSelf(Of)
           ELSE SameServer /\ UNCHANGED scope
    /\ queue' = Append(Served, Job("recover", Of, 0))
    /\ UNCHANGED <<stack, client>>
    /\ SameHistory

(* CLOSE is sent unless the scope is closing or covered.                   *)
CloseAfter(sc) ==
    /\ scope' = sc
    /\ queue' = IF Top(Of) /\ \A i \in DOMAIN stack : ~scope[stack[i]].closing
                THEN Append(Served, Job("close", Of, 0)) ELSE Served
    /\ UNCHANGED <<stack, client>>

ServeRecover ==
    /\ At("recover")
    /\ IF ~OnStack(Of) \/ Lost
       THEN queue' = Served /\ SameServer /\ UNCHANGED <<scope, stack, client>>
       ELSE IF scope[Of].kind = "transaction"
       THEN EndTransaction /\ CloseAfter([scope EXCEPT ![Of].undone = TRUE])
       ELSE IF Level(Of) # {}
       THEN BackTo(Of) /\ CloseAfter([scope EXCEPT ![Of].undone = TRUE])
       ELSE /\ IF marks = <<>> THEN CloseAfter(scope)
               ELSE queue' = Served /\ UNCHANGED <<scope, stack, client>>
            /\ Error
    /\ SameHistory

(* The rollback has taken the cursor with it: CLOSE is an error.           *)
ServeClose ==
    /\ At("close")
    /\ Error
    /\ queue' = Served
    /\ UNCHANGED <<scope, stack, client>>
    /\ SameHistory

(* assertNoTransactionControlCommand: the COMMIT has run; every scope on   *)
(* the client is poisoned.                                                 *)
ServeRaw ==
    /\ At("raw") /\ Admitted(Of)
    /\ IF Lost THEN SameServer ELSE EndTransaction
    /\ durable' = IF Lost THEN durable ELSE durable \cup Committable
    /\ excused' = excused \cup {s \in DOMAIN scope : OnStack(s)}
    /\ scope' = IF Lost THEN PoisonSelf(Of) ELSE PoisonStack
    /\ queue' = Served
    /\ UNCHANGED <<stack, client, faults, issuer, ran>>

(* The statements of a closing scope have run: its ending, unless one of   *)
(* them has poisoned it.                                                   *)
ServeDrain ==
    /\ At("drain")
    /\ IF scope[Of].pc = "leaving"
       THEN Leave(Of, "rejected", scope, Served)
       ELSE IF scope[Of].poison
       THEN Fail(Of, scope, Served)
       ELSE IF scope[Of].kind = "pinned"
       THEN Leave(Of, "resolved", scope, Served)
       ELSE IF scope[Of].undo
       THEN Proceed(Of, "cleaning", "undo", scope, Served)
       ELSE IF scope[Of].kind = "transaction"
       THEN Proceed(Of, "committing", "commit", scope, Served)
       ELSE Proceed(Of, "releasing", "release", scope, Served)
    /\ SameServer
    /\ SameHistory

AnyTag == TRUE                                                      \* fault

(* assertCommitSucceeded: the COMMIT of an aborted transaction is answered *)
(* ROLLBACK.                                                               *)
CommitTag == ~aborted

(* A COMMIT can be refused by the server altogether (a deferred check).    *)
ServeCommit ==
    /\ At("commit")
    /\ IF ~Admitted(Of) \/ Lost
       THEN Fail(Of, scope, Served) /\ SameServer /\ SameHistory
       ELSE /\ EndTransaction
            /\ \/ /\ CommitTag
                  /\ Leave(Of, "resolved", scope, Served)
                  /\ durable' = durable \cup Committable
                  /\ UNCHANGED faults
               \/ /\ ~CommitTag
                  /\ Wait(Of, scope, Served)
                  /\ UNCHANGED <<durable, faults>>
               \/ ~aborted /\ Fault /\ Fail(Of, scope, Served) /\ UNCHANGED durable
            /\ UNCHANGED <<issuer, ran, excused>>

(* ROLLBACK, and ROLLBACK TO: of a body that failed ("undoing") or of      *)
(* scratch work that is done ("cleaning").                                 *)
ServeUndo ==
    LET failed == scope[Of].pc = "undoing"
        undone == [scope EXCEPT ![Of].undone = TRUE]
    IN  /\ At("undo")
        /\ IF /\ OnStack(Of) /\ ~Lost
              /\ scope[Of].kind = "transaction" \/ Level(Of) # {}
           THEN /\ IF scope[Of].kind = "transaction"
                   THEN EndTransaction ELSE BackTo(Of)
                /\ IF failed THEN Wait(Of, undone, Served)
                   ELSE Leave(Of, "resolved", undone, Served)
           ELSE /\ IF failed \/ scope[Of].kind = "transaction"
                   THEN Wait(Of, scope, Served)
                   ELSE Proceed(Of, "reverting", "revert", scope, Served)
                /\ IF OnStack(Of) THEN Error ELSE SameServer
        /\ SameHistory

ServeRelease ==
    /\ At("release")
    /\ IF Admitted(Of) /\ ~aborted /\ Level(Of) # {}
       THEN Merge(Of) /\ Leave(Of, "resolved", scope, Served)
       ELSE /\ IF Admitted(Of) THEN Error ELSE SameServer
            /\ Proceed(Of, "reverting", "revert", scope, Served)
    /\ SameHistory

(* rollbackSavepointAfterReleaseFailure: with no savepoint to go back to   *)
(* the transaction is gone, and every scope on the client is poisoned.     *)
ServeRevert ==
    /\ At("revert")
    /\ IF Level(Of) # {}
       THEN BackTo(Of) /\ Proceed(Of, "forgetting", "forget", scope, Served)
       ELSE /\ Error
            /\ Leave(Of, "rejected", IF Lost THEN scope ELSE PoisonStack, Served)
    /\ SameHistory

(* RELEASE of a savepoint that has been rolled back to.                    *)
ServeForget ==
    /\ At("forget")
    /\ IF ~aborted /\ Level(Of) # {} THEN Merge(Of) ELSE Error
    /\ Leave(Of, "rejected", scope, Served)
    /\ SameHistory

Serve ==
    \/ ServeBegin \/ ServeSavepoint \/ Refuse \/ WorkRuns \/ WorkFails
    \/ ServeFetch \/ ServeRecover \/ ServeClose \/ ServeRaw
    \/ ServeDrain \/ ServeCommit \/ ServeUndo \/ ServeRelease
    \/ ServeRevert \/ ServeForget

(* drainScopeChildren: a scope that fails waits for those it has opened.   *)
Regroup(s) ==
    /\ s \in DOMAIN scope
    /\ scope[s].pc = "waiting"
    /\ \A c \in Children(s) : scope[c].settled # "open"
    /\ IF scope[s].kind = "pinned"
       THEN Proceed(s, "leaving", "drain", scope, queue)
       ELSE IF scope[s].kind = "savepoint" /\ scope[s].undone /\ ~scope[s].undo
       THEN Proceed(s, "forgetting", "forget", scope, queue)
       ELSE Leave(s, "rejected", scope, queue)
    /\ SameServer
    /\ SameHistory

-----------------------------------------------------------------------------
(* What comes from outside.                                                *)

Disconnected == link' = "down" /\ marks' = <<>> /\ aborted' = FALSE

(* The connection is lost, with a COMMIT under way possibly after it.      *)
Lose ==
    /\ ~Lost /\ client = "held"
    /\ Fault
    /\ Disconnected
    /\ IF At("commit")
       THEN /\ excused' = excused \cup {Of}
            /\ durable' \in {durable, durable \cup Committable}
       ELSE UNCHANGED <<excused, durable>>
    /\ UNCHANGED <<scope, stack, queue, client, issuer, ran>>

(* The abort signal of the root: the caller has its answer at once, the    *)
(* client is destroyed and the scopes come to their end behind it.  Of a   *)
(* transaction until its COMMIT is sent, of a pinned connection until its  *)
(* callback has returned; scratch work has no signal.                      *)
Abort ==
    /\ client = "held"
    /\ IF scope[1].kind = "transaction"
       THEN ~scope[1].undo /\ scope[1].pc # "committing"
       ELSE InBody(1)
    /\ Fault
    /\ client' = "destroyed"
    /\ IF Lost THEN SameServer ELSE Disconnected
    /\ scope' = [scope EXCEPT ![1].told = "rejected"]
    /\ UNCHANGED <<stack, queue, historyVars>>

Init ==
    /\ \E root \in Roots :
         IF root = "pinned"
         THEN /\ scope = <<Scope(0, "pinned", FALSE, TRUE, "body")>>
              /\ queue = <<>>
         ELSE /\ scope = <<Scope(0, "transaction", root = "scratch", TRUE,
                                "opening")>>
              /\ queue = <<Job("begin", 1, 0)>>
    /\ stack = <<1>>
    /\ marks = <<>>
    /\ aborted = FALSE
    /\ link = "up"
    /\ client = "held"
    /\ faults = 0
    /\ issuer = <<>>
    /\ ran = {}
    /\ durable = {}
    /\ excused = {}

Next ==
    \/ \E s \in 1 .. MaxScope : Callback(s) \/ Fetch(s) \/ Regroup(s)
    \/ Serve
    \/ Lose
    \/ Abort

Spec == Init /\ [][Next]_vars

(* The driver answers every statement, a promise that is settled is        *)
(* noticed, and every callback comes to its end.                           *)
FairSpec ==
    /\ Spec
    /\ WF_vars(Serve)
    /\ \A s \in 1 .. MaxScope :
         /\ WF_vars(Regroup(s))
         /\ WF_vars(InBody(s) /\ ~Scratching(s) /\ (Return(s) \/ Throw(s)))

-----------------------------------------------------------------------------
(* Properties.                                                             *)

Scopes == 1 .. MaxScope

TypeOK ==
    /\ scope \in Seq([up : 0 .. MaxScope, kind : Kinds, undo : BOOLEAN,
                      pc : {"opening", "body", "draining", "committing",
                            "releasing", "cleaning", "undoing", "waiting",
                            "reverting", "forgetting", "leaving", "done"},
                      closing : BOOLEAN, poison : BOOLEAN, undone : BOOLEAN,
                      observed : BOOLEAN,
                      settled : {"open", "resolved", "rejected"},
                      told : {"nothing", "resolved", "rejected"}])
    /\ Len(scope) \in Scopes
    /\ stack \in Seq(Scopes)
    /\ queue \in Seq([what : {"begin", "savepoint", "work", "fetch", "raw",
                              "recover", "close", "drain", "commit", "undo",
                              "release", "revert", "forget"},
                      of : Scopes, work : 0 .. MaxWork])
    /\ marks \in Seq([of : Scopes, works : SUBSET (1 .. MaxWork)])
    /\ aborted \in BOOLEAN
    /\ link \in {"up", "down"}
    /\ client \in {"held", "returned", "destroyed"}
    /\ faults \in 0 .. MaxFault
    /\ issuer \in Seq(Scopes)
    /\ ran \subseteq 1 .. MaxWork
    /\ durable \subseteq ran
    /\ excused \subseteq Scopes
    /\ \A i, j \in DOMAIN stack : i # j => stack[i] # stack[j]
    /\ \A i \in DOMAIN stack : scope[stack[i]].pc # "done"

(* Line[s]: s and the scopes around it.                                    *)
Line[s \in DOMAIN scope] ==
    {s} \cup (IF scope[s].up = 0 THEN {} ELSE Line[scope[s].up])

Under(t) == {s \in DOMAIN scope : t \in Line[s]}

WorkOf(t) == {w \in ran : issuer[w] \in Under(t)}

(* The work of t that no scope between it and t has given up.              *)
Kept(t) ==
    {w \in WorkOf(t) :
        \A s \in Line[issuer[w]] \cap Under(t) :
            scope[s].told = "resolved" /\ ~scope[s].undo}

(* "The callback's work commits together or not at all": the committed     *)
(* statements of a transaction are all those it and its resolved nested    *)
(* transactions executed once its caller is told it resolved, and none     *)
(* otherwise.  Raw SQL that ends the transaction, and a connection lost    *)
(* under a COMMIT, are excused, as the comment of transaction() has it.    *)
(* A stream that is left behind breaks it (ClientScopes_stream_left.cfg).  *)
AllOrNothing ==
    \A t \in DOMAIN scope \ excused :
        scope[t].kind = "transaction" =>
            durable \cap WorkOf(t) =
                IF scope[t].told = "resolved" THEN Kept(t) ELSE {}

(* "A statement issued inside the transaction never executes after its     *)
(* boundary, even if you forget to await it": a statement of a transaction *)
(* executes while the level its own scope began stands on the server.      *)
NothingOutsideItsScope ==
    [][\A w \in ran' \ ran :
          scope[issuer[w]].kind = "pinned" \/ Level(issuer[w]) # {}]_vars

(* "The connection never goes back to the pool with a transaction still    *)
(* open on it", nor with a scope on it, nor with a statement on its way    *)
(* but for what a stream nobody waits for still does to close itself.      *)
CleanReturn ==
    client = "returned" =>
        /\ marks = <<>>
        /\ stack = <<>>
        /\ \A i \in DOMAIN queue : queue[i].what \in {"recover", "close"}

(* Every scope that is opened comes to an end and answers its caller,      *)
(* whatever fails, is abandoned or is aborted: no drain waits forever.     *)
(* (A scope that has ended stays so, and new ones are bounded.)            *)
EveryScopeSettles ==
    []<>(\A s \in DOMAIN scope :
            scope[s].pc = "done" /\ scope[s].told # "nothing")

=============================================================================
