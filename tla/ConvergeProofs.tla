--------------------------- MODULE ConvergeProofs ---------------------------
(***************************************************************************)
(* Proofs about Converge, for any number of replicas, tables, sequences    *)
(* and steps, any versions and any faults: that no call works over an open *)
(* claim, that a `once` step is committed once, that the answers are true  *)
(* and that no object is taken over.  A first inductive invariant says who *)
(* holds the ledger lock, and what is on its way to the server at each     *)
(* place of a call; a second one follows the transactions of its plan.     *)
(***************************************************************************)
EXTENDS Converge, FiniteSetTheorems, WellFoundedInduction, TLAPS

(* The places of a call between its admission and its end.                 *)
Held == {"compare", "decide", "steps", "own", "run"}

Work == Changes \cup {"step"}

(* A plan takes its application steps one by one.                          *)
IsPlan(s) ==
    /\ s \in Seq({s[i] : i \in DOMAIN s})
    /\ \A i \in DOMAIN s : s[i].role = "step" => \E x : s[i].of = {x}

(* The domains of the functions of the state, as far as they matter.       *)
DomainInv ==
    /\ DOMAIN pc = Replica /\ DOMAIN conn = Replica
    /\ DOMAIN flight = Replica /\ DOMAIN reply = Replica
    /\ DOMAIN plan = Replica /\ DOMAIN at = Replica
    /\ lock \in [Home -> Replica \cup {None}]
    /\ recorded \in [OnceStep -> Nat] /\ ran \in [OnceStep -> Nat]

(* Who holds the locks: a call from its admission on, and whatever it has  *)
(* sent to the server for as long as the server works on it.               *)
LockInv(r) ==
    /\ pc[r] \in Held \cup {"admit"} => lock["schema"] = r
    /\ pc[r] \in Held => claim = None
    /\ flight[r].role \in Work => lock["schema"] = r /\ claim = None
    /\ flight[r].role \in Home => lock[flight[r].role] = r

(* What can be on its way at each place of a call.                         *)
FlightInv(r) ==
    /\ flight[r] = Nothing \/ flight[r].role \in Home \cup Work
    /\ pc[r] \in Home => flight[r] = Nothing \/ flight[r].role \in Home
    /\ pc[r] = "run" => \/ flight[r] = Nothing
                        \/ flight[r].role \in Work /\ at[r] <= Len(plan[r])
    /\ pc[r] \notin Home \cup {"run", "idle"} =>
           flight[r] = Nothing /\ reply[r] = None
    /\ pc[r] = "idle" => /\ reply[r] = None
                         /\ flight[r] = Nothing \/ conn[r] = "orphan"
    /\ reply[r] # None => flight[r] = Nothing
    /\ pc[r] # "idle" <=> conn[r] = "open"

(* What a call knows of the `once` steps while it holds the lock.          *)
OnceInv(r) ==
    /\ at[r] \in Nat \ {0} /\ IsPlan(plan[r])
    /\ pc[r] \in {"own", "run"} => ~OnceChanged(r)
    /\ flight[r].role = "step" =>
           \E x : /\ flight[r].of = {x}
                  /\ x \in OnceStep => recorded[x] = 0

CallInv(r) == LockInv(r) /\ FlightInv(r) /\ OnceInv(r)

IInv == DomainInv /\ OnceIsOnce /\ \A r \in Replica : CallInv(r)

-----------------------------------------------------------------------------
(* Plans.                                                                  *)

(* A sequence is one of its own values.                                    *)
LEMMA OwnValues ==
    ASSUME NEW V, NEW s \in Seq(V)
    PROVE  s \in Seq({s[i] : i \in DOMAIN s})
<1> DEFINE W == {s[i] : i \in DOMAIN s}
<1>1. Len(s) \in Nat /\ DOMAIN s = 1..Len(s) /\ s \in [1..Len(s) -> V]
  OBVIOUS
<1>2. s \in [1..Len(s) -> W]
  BY <1>1
<1> HIDE DEF W
<1>3. s \in Seq(W)
  BY <1>1, <1>2
<1> QED
  BY <1>3 DEF W

LEMMA FunctionIsSequence ==
    ASSUME NEW n \in Nat, NEW V, NEW s \in [1..n -> V]
    PROVE  s \in Seq(V)
OBVIOUS

(* A plan is made of plans.                                                *)
LEMMA PlanOfPlans ==
    ASSUME NEW s, NEW t, IsPlan(s), IsPlan(t)
    PROVE  IsPlan(s \o t)
<1> DEFINE V == {s[i] : i \in DOMAIN s} \cup {t[i] : i \in DOMAIN t}
<1>1. s \in Seq(V) /\ t \in Seq(V)
  BY DEF IsPlan
<1>2. /\ s \o t \in Seq(V)
      /\ Len(s) \in Nat /\ Len(t) \in Nat
      /\ DOMAIN s = 1..Len(s) /\ DOMAIN t = 1..Len(t)
      /\ Len(s \o t) = Len(s) + Len(t)
      /\ \A i \in 1..(Len(s) + Len(t)) :
            (s \o t)[i] = IF i <= Len(s) THEN s[i] ELSE t[i - Len(s)]
  BY <1>1
<1> HIDE DEF V
<1>3. DOMAIN (s \o t) = 1..(Len(s) + Len(t))
  BY <1>2
<1>5. s \o t \in Seq({(s \o t)[i] : i \in DOMAIN (s \o t)})
  BY <1>2, OwnValues
<1>6. ASSUME NEW i \in DOMAIN (s \o t), (s \o t)[i].role = "step"
      PROVE  \E x : (s \o t)[i].of = {x}
  <2>1. CASE i <= Len(s)
    <3>1. i \in DOMAIN s /\ (s \o t)[i] = s[i]
      BY <1>2, <1>3, <2>1
    <3> QED
      BY <1>6, <3>1 DEF IsPlan
  <2>2. CASE ~(i <= Len(s))
    <3>1. i - Len(s) \in DOMAIN t
      BY <1>2, <1>3, <2>2
    <3>2. (s \o t)[i] = t[i - Len(s)]
      BY <1>2, <1>3, <2>2
    <3> QED
      BY <1>6, <3>1, <3>2 DEF IsPlan
  <2> QED
    BY <2>1, <2>2
<1> QED
  BY <1>5, <1>6 DEF IsPlan

LEMMA EmptyPlan == IsPlan(<<>>)
BY DEF IsPlan

(* The subsets a plan is made from are finite.                             *)
LEMMA FiniteParts ==
    ASSUME NEW S, S \subseteq Item \/ S \subseteq Step
    PROVE  Cardinality(S) \in Nat
BY FS_Subset, FS_CardinalityType, ItemAssumption

LEMMA EachIsPlan ==
    ASSUME NEW role, NEW S, Cardinality(S) \in Nat
    PROVE  IsPlan(Each(role, S))
<1> DEFINE s == Each(role, S)
<1> DEFINE q == InOrder(S, Smaller(S))
<1> DEFINE e(i) == [role |-> role, of |-> {q[i]}, as |-> 0]
<1> DEFINE V == {e(i) : i \in 1..Cardinality(S)}
<1>1. s \in [1..Cardinality(S) -> V]
  BY DEF Each
<1> HIDE DEF q
<1>2. ASSUME NEW b \in V PROVE \E x : b.of = {x}
  <2>1. PICK i \in 1..Cardinality(S) : b = e(i)
    OBVIOUS
  <2>2. b.of = {q[i]}
    BY <2>1
  <2> QED
    BY <2>2
<1> HIDE DEF V, s
<1>3. s \in Seq(V)
  BY <1>1, FunctionIsSequence
<1>4. s \in Seq({s[i] : i \in DOMAIN s})
  BY <1>3, OwnValues
<1>5. \A i \in DOMAIN s : \E x : s[i].of = {x}
  BY <1>1, <1>2
<1>6. IsPlan(s)
  BY <1>4, <1>5 DEF IsPlan
<1> QED
  BY <1>6 DEF s

(* What a part of the generated plan looks like.                           *)
LEMMA GeneratedPart ==
    ASSUME NEW n \in Nat, NEW V, NEW s \in [1..n -> V],
           \A b \in V : b.role \in {"preflight", "adopt", "create", "extend"}
    PROVE  IsPlan(s)
<1>1. s \in Seq(V)
  BY FunctionIsSequence
<1>2. s \in Seq({s[i] : i \in DOMAIN s})
  BY <1>1, OwnValues
<1>3. \A i \in DOMAIN s : s[i].role # "step"
  OBVIOUS
<1> QED
  BY <1>2, <1>3 DEF IsPlan

LEMMA AdoptionsArePlan == ASSUME NEW r \in Replica PROVE IsPlan(Adoptions(r))
<1> DEFINE e(i) == LET x == InOrder(Adopted(r), Smaller(Adopted(r)))[i]
                   IN  [role |-> "adopt", of |-> {x}, as |-> live[x].id]
<1> DEFINE V == {e(i) : i \in 1..Cardinality(Adopted(r))}
<1>1. Cardinality(Adopted(r)) \in Nat
  BY FiniteParts DEF Adopted, Standing
<1>2. Adoptions(r) \in [1..Cardinality(Adopted(r)) -> V]
  BY DEF Adoptions
<1>3. \A b \in V : b.role = "adopt"
  OBVIOUS
<1> HIDE DEF V
<1> QED
  BY <1>1, <1>2, <1>3, GeneratedPart

LEMMA NewSequencesArePlan ==
    ASSUME NEW r \in Replica PROVE IsPlan(NewSequences(r))
<1> DEFINE S == Fresh(r) \cap Sequence
<1> DEFINE q == InOrder(S, Smaller(S))
<1> DEFINE e(i) == [role |-> "create", of |-> {q[i]}, as |-> 1]
<1> DEFINE V == {e(i) : i \in 1..Cardinality(S)}
<1>1. Cardinality(S) \in Nat
  BY FiniteParts DEF Fresh
<1>2. NewSequences(r) \in [1..Cardinality(S) -> V]
  BY DEF NewSequences
<1> HIDE DEF q
<1>3. \A b \in V : b.role = "create"
  OBVIOUS
<1> HIDE DEF V
<1> QED
  BY <1>1, <1>2, <1>3, GeneratedPart

LEMMA NewColumnsArePlan ==
    ASSUME NEW r \in Replica PROVE IsPlan(NewColumns(r))
<1> DEFINE columns == {p \in Table \X (1..Version[r]) :
                        seen[r][p[1]] # Absent /\ seen[r][p[1]].shape < p[2]}
<1> DEFINE Earlier == {p \in columns \X columns :
                        \/ p[1][1] < p[2][1]
                        \/ p[1][1] = p[2][1] /\ p[1][2] < p[2][2]}
<1> DEFINE ordered == InOrder(columns, Earlier)
<1> DEFINE e(i) == [role |-> "extend", of |-> {ordered[i][1]},
                    as |-> ordered[i][2]]
<1> DEFINE V == {e(i) : i \in 1..Cardinality(columns)}
<1>1. Cardinality(columns) \in Nat
  <2>1. IsFiniteSet(Table)
    BY ItemAssumption, FS_Subset DEF Item
  <2>2. IsFiniteSet(1..Version[r])
    BY ReplicaAssumption, FS_Interval
  <2>3. IsFiniteSet(Table \X (1..Version[r]))
    BY <2>1, <2>2, FS_Product
  <2>4. IsFiniteSet(columns)
    BY <2>3, FS_Subset
  <2> QED
    BY <2>4, FS_CardinalityType
<1>2. NewColumns(r) = [i \in 1..Cardinality(columns) |-> e(i)]
  BY DEF NewColumns
<1>3. NewColumns(r) \in [1..Cardinality(columns) -> V]
  BY <1>2
<1> HIDE DEF ordered, columns
<1>4. \A b \in V : b.role = "extend"
  OBVIOUS
<1> HIDE DEF V
<1> QED
  BY <1>1, <1>3, <1>4, GeneratedPart

LEMMA SmallParts ==
    ASSUME NEW r \in Replica PROVE IsPlan(Preflight(r)) /\ IsPlan(Group(r))
<1>1. ASSUME NEW b, b.role \in {"preflight", "create"} PROVE IsPlan(<<b>>)
  <2>1. <<b>> \in [1..1 -> {b}]
    OBVIOUS
  <2> QED
    BY <1>1, <2>1, GeneratedPart
<1> QED
  BY <1>1, EmptyPlan DEF Preflight, Group

(* The plan of a call, before and after its application steps are added.   *)
LEMMA GeneratedIsPlan == ASSUME NEW r \in Replica PROVE IsPlan(Generated(r))
BY AdoptionsArePlan, NewSequencesArePlan, NewColumnsArePlan, SmallParts,
   PlanOfPlans DEF Generated

LEMMA WholeIsPlan == ASSUME NEW s, IsPlan(s) PROVE IsPlan(Whole(s))
<1>1. IsPlan(Each("step", Before)) /\ IsPlan(Each("step", Step \ Before))
  BY FiniteParts, EachIsPlan, ItemAssumption
<1> QED
  BY <1>1, PlanOfPlans DEF Whole

-----------------------------------------------------------------------------
(* The steps.                                                              *)

LEMMA Constants ==
    /\ None \notin Replica /\ "schema" \in Home /\ "meta" \in Home
    /\ Home \cap Work = {} /\ None \notin Home \cup Work
    /\ \A r \in Replica : Digest[r] \in Nat \ {0}
    /\ Nothing.role = None
BY ReplicaAssumption DEF None, Home, Work, Changes, Nothing

LEMMA Initially == Init => IInv
<1> SUFFICES ASSUME Init PROVE IInv
  OBVIOUS
<1>1. DomainInv /\ OnceIsOnce
  BY DEF Init, DomainInv, OnceIsOnce, Home
<1>2. ASSUME NEW r \in Replica PROVE CallInv(r)
  BY EmptyPlan DEF Init, CallInv, LockInv, FlightInv, OnceInv, Nothing, None,
     Held, Work, Changes, Home
<1> QED
  BY <1>1, <1>2 DEF IInv

(* A call ends with nothing on its way.                                    *)
LEMMA Answering ==
    ASSUME IInv, NEW r \in Replica, NEW answer, flight[r] = Nothing,
           Answer(r, answer)
    PROVE  IInv'
<1> USE Constants
<1>1. DomainInv' /\ OnceIsOnce'
  BY DEF IInv, DomainInv, OnceIsOnce, Answer, Ended, Unlocked
<1>2. ASSUME NEW q \in Replica PROVE CallInv(q)'
  <2>1. CallInv(q) /\ DomainInv
    BY DEF IInv
  <2>2. /\ flight'[q] = flight[q] /\ plan'[q] = plan[q] /\ at'[q] = at[q]
        /\ claim' = claim /\ recorded' = recorded
        /\ q # r => /\ pc'[q] = pc[q] /\ conn'[q] = conn[q]
                    /\ reply'[q] = reply[q]
        /\ pc'[r] = "idle" /\ conn'[r] = "closed" /\ reply'[r] = None
    BY <2>1 DEF Answer, Ended, DomainInv
  <2>3. \A h \in Home : q # r /\ lock[h] = q => lock'[h] = q
    BY <2>1 DEF Answer, Unlocked, DomainInv
  <2>4. LockInv(q)'
    BY <2>1, <2>2, <2>3 DEF CallInv, LockInv, Held, Work, Changes, Home
  <2>5. FlightInv(q)'
    BY <2>1, <2>2 DEF CallInv, FlightInv, Home
  <2>6. OnceInv(q)'
    BY <2>1, <2>2 DEF CallInv, OnceInv, OnceChanged, Recorded
  <2> QED
    BY <2>4, <2>5, <2>6 DEF CallInv
<1> QED
  BY <1>1, <1>2 DEF IInv

(* What a step of others must leave alone for the call of q.               *)
Keeps(q) ==
    /\ pc'[q] = pc[q] /\ conn'[q] = conn[q] /\ flight'[q] = flight[q]
    /\ reply'[q] = reply[q] /\ plan'[q] = plan[q] /\ at'[q] = at[q]

LEMMA Kept ==
    ASSUME NEW q \in Replica, CallInv(q), Keeps(q), recorded' = recorded,
           claim = None => claim' = None \/ lock["schema"] # q,
           \A h \in Home : lock[h] = q => lock'[h] = q
    PROVE  CallInv(q)'
<1> USE Constants
<1>1. LockInv(q)'
  BY DEF CallInv, LockInv, Keeps
<1>2. FlightInv(q)'
  BY DEF CallInv, FlightInv, Keeps
<1>3. OnceInv(q)'
  BY DEF CallInv, OnceInv, OnceChanged, Recorded, Keeps
<1> QED
  BY <1>1, <1>2, <1>3 DEF CallInv

(* A step of one call, seen from the others.                               *)
LEMMA OneCall ==
    ASSUME IInv, NEW r \in Replica, DomainInv', OnceIsOnce', CallInv(r)',
           \A q \in Replica \ {r} : Keeps(q),
           recorded' = recorded, claim' = claim,
           \A h \in Home : lock'[h] = lock[h] \/ lock[h] \in {r, None}
    PROVE  IInv'
<1> USE Constants
<1>1. ASSUME NEW q \in Replica, q # r PROVE CallInv(q)'
  <2>1. CallInv(q) /\ Keeps(q)
    BY <1>1 DEF IInv
  <2>2. \A h \in Home : lock[h] = q => lock'[h] = q
    BY <1>1
  <2> QED
    BY <2>1, <2>2, Kept
<1> QED
  BY <1>1 DEF IInv

LEMMA Starting ==
    ASSUME IInv, NEW r \in Replica, Start(r) \/ ReadCurrency(r)
    PROVE  IInv'
<1> USE Constants
<1>1. CallInv(r) /\ DomainInv /\ OnceIsOnce
  BY DEF IInv
<1>2. DomainInv' /\ OnceIsOnce'
  BY <1>1 DEF Start, ReadCurrency, Goto, DomainInv, OnceIsOnce, ledgerVars,
              serverVars
<1>3. /\ \A q \in Replica \ {r} : Keeps(q)
      /\ recorded' = recorded /\ claim' = claim /\ lock' = lock
      /\ flight' = flight /\ reply' = reply
  BY <1>1 DEF Start, ReadCurrency, Goto, DomainInv, Keeps, ledgerVars,
              serverVars
<1>4. CallInv(r)'
  <2>1. CASE Start(r)
    <3>1. /\ flight[r] = Nothing /\ reply[r] = None
          /\ pc'[r] \in {"lock", "currency"} /\ conn'[r] = "open"
          /\ plan'[r] = <<>> /\ at'[r] = 1
      BY <1>1, <2>1 DEF Start, DomainInv, CallInv, FlightInv
    <3> QED
      BY <1>3, <3>1, EmptyPlan
         DEF CallInv, LockInv, FlightInv, OnceInv, Held, Work, Changes, Home
  <2>2. CASE ReadCurrency(r)
    <3>1. /\ flight[r] = Nothing /\ reply[r] = None /\ conn[r] = "open"
          /\ pc'[r] \in {"lock", "meta"} /\ conn' = conn
          /\ plan' = plan /\ at' = at
      BY <1>1, <2>2 DEF ReadCurrency, Goto, DomainInv, CallInv, FlightInv, Home
    <3> QED
      BY <1>1, <1>3, <3>1
         DEF CallInv, LockInv, FlightInv, OnceInv, Held, Work, Changes, Home
  <2> QED
    BY <2>1, <2>2
<1> QED
  BY <1>1, <1>2, <1>3, <1>4, OneCall

LEMMA Initializing ==
    ASSUME IInv, NEW r \in Replica, InitializeHome(r)
    PROVE  IInv'
<1> USE Constants
<1> DEFINE home == pc[r]
<1>1. /\ CallInv(r) /\ DomainInv /\ OnceIsOnce
      /\ home \in Home /\ flight[r] = Nothing /\ reply[r] = None
      /\ conn[r] = "open"
  BY DEF IInv, InitializeHome, CallInv, FlightInv, Home
<1>2. CASE Answer(r, "busy") \/ Answer(r, "refused")
  BY <1>1, <1>2, Answering
<1>3. CASE /\ Goto(r, NextHome(home))
           /\ UNCHANGED <<catalogueVars, ledgerVars, healthy, seen, plan, at,
                          serverVars>>
  <2>1. /\ DomainInv' /\ OnceIsOnce' /\ recorded' = recorded
        /\ claim' = claim /\ lock' = lock /\ flight' = flight
        /\ reply' = reply /\ plan' = plan /\ at' = at /\ conn' = conn
        /\ pc'[r] \in {"schema", "lock"}
        /\ \A q \in Replica \ {r} : Keeps(q)
    BY <1>1, <1>3 DEF Goto, NextHome, DomainInv, OnceIsOnce, Keeps,
                      ledgerVars, serverVars
  <2>2. CallInv(r)'
    BY <1>1, <2>1
       DEF CallInv, LockInv, FlightInv, OnceInv, Held, Work, Changes, Home
  <2> QED
    BY <1>1, <2>1, <2>2, OneCall
<1>4. CASE /\ lock[home] = None
           /\ lock' = [lock EXCEPT ![home] = r]
           /\ flight' = [flight EXCEPT ![r] =
                  [role |-> home, of |-> {}, as |-> 0]]
           /\ UNCHANGED <<catalogueVars, record, ledger, claim, recorded, ran,
                          healthy, callVars, reply, landed>>
  <2>1. /\ DomainInv' /\ OnceIsOnce' /\ recorded' = recorded
        /\ claim' = claim /\ lock'[home] = r
        /\ flight'[r].role = home /\ flight'[r] # Nothing
        /\ reply' = reply /\ plan' = plan /\ at' = at /\ conn' = conn
        /\ pc' = pc
        /\ \A q \in Replica \ {r} : Keeps(q)
        /\ \A h \in Home : h # home => lock'[h] = lock[h]
    BY <1>1, <1>4 DEF DomainInv, OnceIsOnce, Keeps, Nothing,
                      callVars, serverVars
  <2>2. LockInv(r)'
    BY <1>1, <2>1 DEF CallInv, LockInv, Held, Work, Changes, Home
  <2>3. FlightInv(r)'
    BY <1>1, <2>1 DEF CallInv, FlightInv, Home
  <2>4. OnceInv(r)'
    BY <1>1, <2>1 DEF CallInv, OnceInv, OnceChanged, Recorded, Home
  <2> QED
    BY <1>1, <1>4, <2>1, <2>2, <2>3, <2>4, OneCall DEF CallInv
<1> QED
  BY <1>2, <1>3, <1>4 DEF InitializeHome

(* The call takes the ledger lock, or another has it.                      *)
LEMMA Admitting ==
    ASSUME IInv, NEW r \in Replica,
           LockLedger(r) \/ LedgerBusy(r) \/ Admit(r)
    PROVE  IInv'
<1> USE Constants
<1>1. /\ CallInv(r) /\ DomainInv /\ OnceIsOnce
      /\ flight[r] = Nothing /\ reply[r] = None /\ conn[r] = "open"
  BY DEF IInv, LockLedger, LedgerBusy, Admit, CallInv, FlightInv, Home
<1>2. CASE Answer(r, "busy") \/ Answer(r, "refused")
  BY <1>1, <1>2, Answering
<1>3. CASE LockLedger(r)
  <2>1. /\ DomainInv' /\ OnceIsOnce' /\ recorded' = recorded
        /\ claim' = claim /\ lock'["schema"] = r /\ flight' = flight
        /\ reply' = reply /\ plan' = plan /\ at' = at /\ conn' = conn
        /\ pc'[r] = "admit"
        /\ \A q \in Replica \ {r} : Keeps(q)
        /\ \A h \in Home : lock'[h] = lock[h] \/ lock[h] = None
    BY <1>1, <1>3 DEF LockLedger, Goto, DomainInv, OnceIsOnce, Keeps,
                      serverVars
  <2>2. CallInv(r)'
    BY <1>1, <2>1
       DEF CallInv, LockInv, FlightInv, OnceInv, Held, Work, Changes, Home
  <2> QED
    BY <1>1, <2>1, <2>2, OneCall
<1>4. CASE /\ pc[r] = "admit" /\ claim = None
           /\ Goto(r, "compare")
           /\ UNCHANGED <<catalogueVars, ledgerVars, healthy, seen, plan, at,
                          serverVars>>
  <2>1. /\ DomainInv' /\ OnceIsOnce' /\ recorded' = recorded
        /\ claim' = None /\ claim' = claim /\ lock' = lock /\ flight' = flight
        /\ reply' = reply /\ plan' = plan /\ at' = at /\ conn' = conn
        /\ pc'[r] = "compare"
        /\ \A q \in Replica \ {r} : Keeps(q)
    BY <1>1, <1>4 DEF Goto, DomainInv, OnceIsOnce, Keeps,
                      ledgerVars, serverVars
  <2>2. CallInv(r)'
    BY <1>1, <1>4, <2>1
       DEF CallInv, LockInv, FlightInv, OnceInv, Held, Work, Changes, Home
  <2> QED
    BY <1>1, <2>1, <2>2, OneCall
<1> QED
  BY <1>2, <1>3, <1>4 DEF LedgerBusy, Admit

(* The plan is made.                                                       *)
LEMMA Planning ==
    ASSUME IInv, NEW r \in Replica,
           Compare(r) \/ Decide(r) \/ PlanSteps(r) \/ Own(r)
    PROVE  IInv'
<1> USE Constants
<1>1. /\ CallInv(r) /\ DomainInv /\ OnceIsOnce
      /\ flight[r] = Nothing /\ reply[r] = None /\ conn[r] = "open"
      /\ lock["schema"] = r /\ claim = None
  BY DEF IInv, Compare, Decide, PlanSteps, Own, CallInv, FlightInv, LockInv,
         Held, Home
<1>2. CASE Answer(r, "refused") \/ Answer(r, "no-drift")
  BY <1>1, <1>2, Answering
<1>3. ASSUME NEW place, NEW p,
             Goto(r, place), place \in {"decide", "steps", "own", "run"},
             DOMAIN plan' = Replica, plan'[r] = p, IsPlan(p),
             \A q \in Replica \ {r} : plan'[q] = plan[q],
             place \in {"own", "run"} => ~OnceChanged(r),
             UNCHANGED <<ledgerVars, at, serverVars>>
      PROVE  IInv'
  <2>1. /\ DomainInv' /\ OnceIsOnce' /\ recorded' = recorded
        /\ claim' = claim /\ lock' = lock /\ flight' = flight
        /\ reply' = reply /\ plan'[r] = p /\ at' = at /\ conn' = conn
        /\ pc'[r] = place
        /\ \A q \in Replica \ {r} : Keeps(q)
    BY <1>1, <1>3 DEF Goto, DomainInv, OnceIsOnce, Keeps,
                      ledgerVars, serverVars
  <2>2. LockInv(r)'
    BY <1>1, <1>3, <2>1 DEF CallInv, LockInv, Held, Work, Changes, Home
  <2>3. FlightInv(r)'
    BY <1>1, <1>3, <2>1 DEF CallInv, FlightInv, Home
  <2>4. OnceInv(r)'
    BY <1>1, <1>3, <2>1 DEF CallInv, OnceInv, OnceChanged, Recorded
  <2> QED
    BY <1>1, <2>1, <2>2, <2>3, <2>4, OneCall DEF CallInv
<1>4. IsPlan(plan[r]) /\ DOMAIN plan = Replica
  BY <1>1 DEF CallInv, OnceInv, DomainInv
<1>5. CASE Compare(r)
  BY <1>3, <1>4, <1>5 DEF Compare
<1>6. CASE Decide(r)
  BY <1>2, <1>3, <1>4, <1>6, GeneratedIsPlan DEF Decide
<1>7. CASE PlanSteps(r)
  BY <1>2, <1>3, <1>4, <1>7 DEF PlanSteps
<1>8. CASE Own(r)
  <2>1. ~OnceChanged(r)
    BY <1>1, <1>8 DEF Own, CallInv, OnceInv
  <2>2. IsPlan(Whole(plan[r]))
    BY <1>4, WholeIsPlan
  <2> QED
    BY <1>2, <1>3, <1>4, <1>8, <2>1, <2>2 DEF Own
<1> QED
  BY <1>5, <1>6, <1>7, <1>8

(* The call goes on to its next transaction.                               *)
LEMMA Advancing ==
    ASSUME IInv, NEW r \in Replica, pc[r] = "run", flight[r] = Nothing,
           Advance(r), DOMAIN reply' = Replica,
           reply'[r] \in {reply[r], None},
           \A q \in Replica \ {r} : reply'[q] = reply[q],
           UNCHANGED <<ledgerVars, pc, conn, plan, flight>>
    PROVE  IInv'
<1> USE Constants
<1>1. CallInv(r) /\ DomainInv /\ OnceIsOnce
  BY DEF IInv
<1>2. /\ DomainInv' /\ OnceIsOnce' /\ recorded' = recorded
      /\ claim' = claim /\ lock' = lock
      /\ at'[r] = at[r] + 1
      /\ \A q \in Replica \ {r} : Keeps(q)
  BY <1>1 DEF Advance, DomainInv, OnceIsOnce, Keeps, ledgerVars
<1>3. LockInv(r)'
  BY <1>1, <1>2 DEF CallInv, LockInv, Held
<1>4. FlightInv(r)'
  BY <1>1, <1>2 DEF CallInv, FlightInv, Home
<1>5. OnceInv(r)'
  BY <1>1, <1>2 DEF CallInv, OnceInv, OnceChanged, Recorded
<1> QED
  BY <1>1, <1>2, <1>3, <1>4, <1>5, OneCall DEF CallInv

(* The call sends its COMMIT.                                              *)
LEMMA Committing ==
    ASSUME IInv, NEW r \in Replica, Running(r), Commit(r),
           Current(r).role \in Work,
           Current(r).role = "step" =>
               \A s \in Current(r).of \cap OnceStep : ~Recorded(r, s)
    PROVE  IInv'
<1> USE Constants
<1>1. /\ CallInv(r) /\ DomainInv /\ OnceIsOnce
      /\ pc[r] = "run" /\ at[r] <= Len(plan[r])
      /\ flight[r] = Nothing /\ reply[r] = None
  BY DEF IInv, Running
<1>2. /\ DomainInv' /\ OnceIsOnce' /\ recorded' = recorded
      /\ claim' = claim /\ lock' = lock
      /\ flight'[r] = Current(r) /\ flight'[r].role \in Work
      /\ pc' = pc /\ conn' = conn /\ plan' = plan /\ at' = at
      /\ reply' = reply
      /\ \A q \in Replica \ {r} : Keeps(q)
  BY <1>1 DEF Commit, DomainInv, OnceIsOnce, Keeps, ledgerVars
<1>3. LockInv(r)'
  BY <1>1, <1>2 DEF CallInv, LockInv, Held
<1>4. FlightInv(r)'
  BY <1>1, <1>2 DEF CallInv, FlightInv, Home
<1>5. OnceInv(r)'
  <2>1. ~OnceChanged(r) /\ IsPlan(plan[r]) /\ at[r] \in DOMAIN plan[r]
    <3>1. /\ ~OnceChanged(r) /\ IsPlan(plan[r]) /\ at[r] \in Nat \ {0}
          /\ plan[r] \in Seq({plan[r][i] : i \in DOMAIN plan[r]})
      BY <1>1 DEF CallInv, OnceInv, IsPlan
    <3>2. Len(plan[r]) \in Nat /\ DOMAIN plan[r] = 1..Len(plan[r])
      BY <3>1
    <3> QED
      BY <1>1, <3>1, <3>2
  <2>2. ASSUME Current(r).role = "step"
        PROVE  \E x : /\ Current(r).of = {x}
                      /\ x \in OnceStep => recorded[x] = 0
    <3>1. PICK x : Current(r).of = {x}
      BY <2>1, <2>2 DEF IsPlan, Current
    <3>2. x \in OnceStep => recorded[x] = 0
      BY <2>1, <2>2, <3>1 DEF OnceChanged
    <3> QED
      BY <3>1, <3>2
  <2> QED
    BY <1>1, <1>2, <2>1, <2>2 DEF CallInv, OnceInv, OnceChanged, Recorded
<1> QED
  BY <1>1, <1>2, <1>3, <1>4, <1>5, OneCall DEF CallInv

(* The call executes the transactions of its plan.                         *)
LEMMA Executing ==
    ASSUME IInv, NEW r \in Replica,
           \/ RunStep(r) \/ InspectAdoptions(r) \/ Adopt(r) \/ Create(r)
           \/ Extend(r)
    PROVE  IInv'
<1> USE Constants
<1>1. /\ CallInv(r) /\ DomainInv /\ OnceIsOnce /\ Running(r)
      /\ pc[r] = "run" /\ flight[r] = Nothing /\ reply[r] = None
  BY DEF IInv, RunStep, InspectAdoptions, Adopt, Create, Extend, Running
<1>2. ASSUME NEW answer, Answer(r, answer) PROVE IInv'
  BY <1>1, <1>2, Answering
<1>3. CASE /\ Advance(r)
           /\ UNCHANGED <<catalogueVars, ledgerVars, healthy, pc, conn, seen,
                          plan, told, serverVars>>
  BY <1>1, <1>3, Advancing DEF DomainInv, serverVars
<1>4. ASSUME Commit(r), Current(r).role \in Changes PROVE IInv'
  BY <1>1, <1>4, Committing DEF Work, Changes
<1>5. CASE RunStep(r)
  <2>1. ASSUME ~Complete(r, TheItem(Current(r))), Commit(r),
               Current(r).role = "step"
        PROVE  IInv'
    <3>1. at[r] \in DOMAIN plan[r] /\ IsPlan(plan[r])
      <4>1. /\ IsPlan(plan[r]) /\ at[r] \in Nat \ {0}
            /\ plan[r] \in Seq({plan[r][i] : i \in DOMAIN plan[r]})
            /\ at[r] <= Len(plan[r])
        BY <1>1 DEF CallInv, OnceInv, IsPlan, Running
      <4>2. Len(plan[r]) \in Nat /\ DOMAIN plan[r] = 1..Len(plan[r])
        BY <4>1
      <4> QED
        BY <4>1, <4>2
    <3>2. PICK x : Current(r).of = {x}
      BY <2>1, <3>1 DEF IsPlan, Current
    <3>3. TheItem(Current(r)) = x
      BY <3>2 DEF TheItem
    <3>4. \A s \in Current(r).of \cap OnceStep : ~Recorded(r, s)
      BY <2>1, <3>2, <3>3 DEF Complete
    <3> QED
      BY <1>1, <2>1, <3>4, Committing DEF Work
  <2> QED
    BY <1>3, <1>5, <2>1 DEF RunStep
<1>6. CASE InspectAdoptions(r)
  BY <1>2, <1>3, <1>6 DEF InspectAdoptions
<1>7. CASE Adopt(r)
  BY <1>2, <1>4, <1>7 DEF Adopt, Changes
<1>8. CASE Create(r)
  <2>1. ASSUME UNCHANGED <<catalogueVars, ledgerVars, healthy, pc, conn, seen,
                           plan, at, told, serverVars>>
        PROVE  IInv'
    <3>1. /\ DomainInv' /\ OnceIsOnce' /\ recorded' = recorded
          /\ claim' = claim /\ lock' = lock
          /\ \A q \in Replica : Keeps(q)
      BY <1>1, <2>1 DEF DomainInv, OnceIsOnce, Keeps, ledgerVars, serverVars
    <3>2. CallInv(r)'
      BY <1>1, <3>1, Kept
    <3> QED
      BY <1>1, <3>1, <3>2, OneCall
  <2> QED
    BY <1>2, <1>4, <1>8, <2>1 DEF Create, Changes
<1>9. CASE Extend(r)
  BY <1>2, <1>4, <1>9 DEF Extend, Changes
<1> QED
  BY <1>5, <1>6, <1>7, <1>8, <1>9

(* The call ends, gets an answer to its COMMIT, or fails at a statement.   *)
LEMMA Answered ==
    ASSUME IInv, NEW r \in Replica, Finish(r) \/ Receive(r) \/ Fails(r)
    PROVE  IInv'
<1> USE Constants
<1>1. CallInv(r) /\ DomainInv /\ OnceIsOnce
  BY DEF IInv
<1>2. CASE Finish(r)
  <2>1. /\ IsPlan(plan[r]) /\ at[r] \in Nat \ {0}
        /\ plan[r] \in Seq({plan[r][i] : i \in DOMAIN plan[r]})
    BY <1>1 DEF CallInv, OnceInv, IsPlan
  <2>2. Len(plan[r]) \in Nat
    BY <2>1
  <2>3. flight[r] = Nothing
    BY <1>1, <1>2, <2>1, <2>2 DEF Finish, CallInv, FlightInv
  <2> QED
    BY <1>2, <2>3, Answering DEF Finish
<1>3. CASE Fails(r)
  BY <1>3, Answering DEF Fails
<1>4. CASE Receive(r)
  <2>1. CASE reply[r] = "rolled-back"
    <3>1. flight[r] = Nothing
      BY <1>1, <2>1 DEF CallInv, FlightInv, None
    <3>2. \E answer : Answer(r, answer)
      BY <1>4, <2>1 DEF Receive
    <3> QED
      BY <3>1, <3>2, Answering
  <2>2. CASE reply[r] = "committed"
    <3>1. /\ flight[r] = Nothing /\ conn[r] = "open"
          /\ reply' = [reply EXCEPT ![r] = None]
          /\ pc[r] \in Home \cup {"run"}
          /\ UNCHANGED <<catalogueVars, ledgerVars, healthy, seen, plan,
                         flight, landed>>
      BY <1>1, <1>4, <2>2
         DEF Receive, CallInv, FlightInv, None, Home
    <3>2. DOMAIN reply' = Replica /\ reply'[r] = None
      BY <1>1, <3>1 DEF DomainInv
    <3>3. CASE pc[r] = "run"
      <4>1. Advance(r) /\ UNCHANGED <<pc, conn, told>>
        BY <1>4, <2>2, <3>3 DEF Receive
      <4>2. \A q \in Replica \ {r} : reply'[q] = reply[q]
        BY <1>1, <3>1 DEF DomainInv
      <4> QED
        BY <3>1, <3>2, <3>3, <4>1, <4>2, Advancing
    <3>4. CASE pc[r] \in Home
      <4>1. Goto(r, NextHome(pc[r])) /\ UNCHANGED at
        BY <1>4, <2>2, <3>4 DEF Receive, Home
      <4>2. /\ DomainInv' /\ OnceIsOnce' /\ recorded' = recorded
            /\ claim' = claim /\ lock' = lock /\ flight' = flight
            /\ plan' = plan /\ at' = at /\ conn' = conn
            /\ pc'[r] \in {"schema", "lock"}
            /\ \A q \in Replica \ {r} : Keeps(q)
        BY <1>1, <3>1, <4>1 DEF Goto, NextHome, DomainInv, OnceIsOnce, Keeps,
                                ledgerVars
      <4>3. CallInv(r)'
        BY <1>1, <3>1, <3>2, <3>4, <4>2
           DEF CallInv, LockInv, FlightInv, OnceInv, Held, Work, Changes, Home
      <4> QED
        BY <1>1, <4>2, <4>3, OneCall
    <3> QED
      BY <3>1, <3>3, <3>4
  <2> QED
    BY <1>4, <2>1, <2>2 DEF Receive
<1> QED
  BY <1>2, <1>3, <1>4

(* The session of a call is lost, or the server ends it.                   *)
LEMMA SessionEnds ==
    ASSUME IInv, NEW r \in Replica, LoseSession(r) \/ BackendEnds(r)
    PROVE  IInv'
<1> USE Constants
<1>1. CallInv(r) /\ DomainInv /\ OnceIsOnce
  BY DEF IInv
<1>2. CASE LoseSession(r)
  <2>1. /\ DomainInv' /\ OnceIsOnce' /\ recorded' = recorded
        /\ claim' = claim /\ lock' = lock /\ flight' = flight
        /\ plan' = plan /\ at' = at
        /\ conn'[r] = "orphan" /\ reply'[r] = None /\ pc'[r] = "idle"
        /\ \A q \in Replica \ {r} : Keeps(q)
    BY <1>1, <1>2 DEF LoseSession, Ended, DomainInv, OnceIsOnce, Keeps,
                      ledgerVars
  <2>2. LockInv(r)'
    BY <1>1, <2>1 DEF CallInv, LockInv, Held
  <2>3. FlightInv(r)'
    BY <1>1, <2>1 DEF CallInv, FlightInv, Home
  <2>4. OnceInv(r)'
    BY <1>1, <2>1 DEF CallInv, OnceInv, OnceChanged, Recorded
  <2> QED
    BY <1>1, <2>1, <2>2, <2>3, <2>4, OneCall DEF CallInv
<1>3. CASE BackendEnds(r)
  <2>1. /\ DomainInv' /\ OnceIsOnce' /\ recorded' = recorded
        /\ claim' = claim /\ flight' = flight /\ reply' = reply
        /\ plan' = plan /\ at' = at /\ pc' = pc
        /\ conn'[r] = "closed" /\ flight[r] = Nothing
        /\ \A q \in Replica \ {r} : Keeps(q)
        /\ \A h \in Home : lock'[h] = lock[h] \/ lock[h] = r
    BY <1>1, <1>3 DEF BackendEnds, Unlocked, DomainInv, OnceIsOnce, Keeps,
                      serverVars
  <2>2. pc[r] = "idle" /\ reply[r] = None
    BY <1>1, <1>3 DEF BackendEnds, CallInv, FlightInv
  <2>3. LockInv(r)'
    BY <2>1, <2>2 DEF LockInv, Held
  <2>4. FlightInv(r)'
    BY <2>1, <2>2 DEF FlightInv, Home
  <2>5. OnceInv(r)'
    BY <1>1, <2>1 DEF CallInv, OnceInv, OnceChanged, Recorded
  <2> QED
    BY <1>1, <2>1, <2>3, <2>4, <2>5, OneCall DEF CallInv
<1> QED
  BY <1>2, <1>3

(* A COMMIT ends.  If it was that of a `once` step, nobody else has run    *)
(* the step since the call asked the ledger, because the lock is its own.  *)
LEMMA CommitEnding ==
    ASSUME IInv, NEW r \in Replica, CommitEnds(r)
    PROVE  IInv'
<1> USE Constants
<1> DEFINE b == flight[r]
<1>1. /\ CallInv(r) /\ DomainInv /\ OnceIsOnce /\ b # Nothing
      /\ b.role \in Home \cup Work
      /\ \A q \in Replica : CallInv(q)
  BY DEF IInv, CommitEnds, CallInv, FlightInv
<1>2. /\ flight' = [flight EXCEPT ![r] = Nothing] /\ lock' = AfterCommit(r, b)
      /\ UNCHANGED <<claim, callVars>>
      /\ \/ Apply(r, b)
         \/ UNCHANGED <<recorded, ran>>
      /\ reply' \in {[reply EXCEPT ![r] =
                          IF conn[r] = "open" THEN "committed" ELSE None],
                     [reply EXCEPT ![r] =
                          IF conn[r] = "open" THEN "rolled-back" ELSE None]}
  BY DEF CommitEnds
<1>3. /\ flight'[r] = Nothing /\ claim' = claim
      /\ pc' = pc /\ conn' = conn /\ plan' = plan /\ at' = at
      /\ DOMAIN flight' = Replica /\ DOMAIN reply' = Replica
      /\ reply'[r] # None => conn[r] = "open"
      /\ \A q \in Replica \ {r} : /\ flight'[q] = flight[q]
                                   /\ reply'[q] = reply[q]
  BY <1>1, <1>2 DEF DomainInv, callVars, None
<1>4. /\ lock' \in [Home -> Replica \cup {None}]
      /\ \A h \in Home : lock'[h] = IF h = b.role THEN None ELSE lock[h]
  BY <1>1, <1>2 DEF AfterCommit, DomainInv
<1>5. \A h \in Home : h = b.role => lock[h] = r
  BY <1>1 DEF CallInv, LockInv
<1>6. /\ recorded' \in [OnceStep -> Nat] /\ ran' \in [OnceStep -> Nat]
      /\ \A s \in OnceStep :
            \/ recorded'[s] = recorded[s] /\ ran'[s] = ran[s]
            \/ /\ b.role = "step" /\ recorded[s] = 0
               /\ recorded'[s] = Digest[r] /\ ran'[s] = ran[s] + 1
  <2>1. CASE UNCHANGED <<recorded, ran>>
    BY <1>1, <2>1 DEF DomainInv
  <2>2. CASE Apply(r, b)
    <3>1. /\ recorded' = [s \in OnceStep |-> IF b.role = "step" /\ s \in b.of
                                         THEN Digest[r] ELSE recorded[s]]
          /\ ran' = [s \in OnceStep |-> IF b.role = "step" /\ s \in b.of
                                    THEN ran[s] + 1 ELSE ran[s]]
      BY <2>2 DEF Apply
    <3>2. \A s \in OnceStep : b.role = "step" /\ s \in b.of => recorded[s] = 0
      BY <1>1 DEF CallInv, OnceInv
    <3> HIDE DEF b
    <3> QED
      BY <1>1, <3>1, <3>2 DEF DomainInv
  <2> QED
    BY <1>2, <2>1, <2>2
<1> HIDE DEF b
<1>7. DomainInv'
  BY <1>1, <1>3, <1>4, <1>6 DEF DomainInv
<1>8. OnceIsOnce'
  <2>1. ASSUME NEW s \in OnceStep
        PROVE  ran'[s] = IF recorded'[s] = 0 THEN 0 ELSE 1
    BY <1>1, <1>6 DEF OnceIsOnce, DomainInv
  <2> QED
    BY <2>1 DEF OnceIsOnce
<1>9. CallInv(r)'
  <2>1. pc[r] = "idle" => reply'[r] = None
    BY <1>1, <1>3 DEF CallInv, FlightInv
  <2>2. pc[r] \in Home \cup {"run", "idle"}
    BY <1>1 DEF CallInv, FlightInv, b
  <2>3. pc[r] = "run" => b.role \notin Home
    BY <1>1 DEF CallInv, FlightInv, b
  <2>4. LockInv(r)'
    <3>1. pc[r] = "run" => lock'["schema"] = r
      BY <1>1, <1>4, <2>3 DEF CallInv, LockInv, Held, Home
    <3> QED
      BY <1>1, <1>3, <2>2, <3>1 DEF CallInv, LockInv, Held, Home
  <2>5. FlightInv(r)'
    BY <1>1, <1>3, <2>1, <2>2 DEF CallInv, FlightInv, Home
  <2>6. OnceInv(r)'
    <3>1. ~OnceChanged(r) => ~OnceChanged(r)'
      BY <1>6 DEF OnceChanged, Recorded
    <3>2. flight'[r].role # "step"
      BY <1>3 DEF None
    <3> QED
      BY <1>1, <1>3, <3>1, <3>2 DEF CallInv, OnceInv
  <2> QED
    BY <2>4, <2>5, <2>6 DEF CallInv
<1>10. ASSUME NEW q \in Replica, q # r PROVE CallInv(q)'
  <2>1. /\ flight'[q] = flight[q] /\ reply'[q] = reply[q]
        /\ CallInv(q)
    BY <1>1, <1>3, <1>10
  <2>2. \A h \in Home : lock[h] = q => lock'[h] = q
    BY <1>4, <1>5, <1>10
  <2>3. LockInv(q)'
    BY <1>3, <2>1, <2>2 DEF CallInv, LockInv
  <2>4. FlightInv(q)'
    BY <1>3, <2>1 DEF CallInv, FlightInv
  <2>5. OnceInv(q)'
    <3>1. CASE recorded' = recorded
      BY <1>3, <2>1, <3>1 DEF CallInv, OnceInv, OnceChanged, Recorded
    <3>2. CASE recorded' # recorded
      <4>1. b.role = "step"
        BY <1>1, <1>6, <3>2 DEF DomainInv
      <4>2. lock["schema"] = r
        BY <1>1, <4>1 DEF CallInv, LockInv, Work, b
      <4>3. pc[q] \notin {"own", "run"} /\ flight[q].role # "step"
        BY <1>10, <2>1, <4>2 DEF CallInv, LockInv, Held, Work
      <4> QED
        BY <1>3, <2>1, <4>3 DEF CallInv, OnceInv
    <3> QED
      BY <3>1, <3>2
  <2> QED
    BY <2>3, <2>4, <2>5 DEF CallInv
<1> QED
  BY <1>7, <1>8, <1>9, <1>10 DEF IInv

(* What others do, to the catalogue and with their claims.                 *)
LEMMA Intervening ==
    ASSUME IInv, Somebody PROVE IInv'
<1> USE Constants
<1>1. DomainInv /\ OnceIsOnce /\ \A q \in Replica : CallInv(q)
  BY DEF IInv
<1>2. CASE \/ \E x \in Item : \/ SomebodyCreates(x) \/ SomebodyDrops(x)
                             \/ SomebodyReplaces(x) \/ SomebodyAlters(x)
           \/ \E s \in AssertStep : SomebodyBreaks(s)
  <2>1. UNCHANGED <<ledgerVars, callVars, serverVars>>
    BY <1>2 DEF SomebodyCreates, SomebodyDrops, SomebodyReplaces,
                SomebodyAlters, SomebodyBreaks, Intervene
  <2>2. /\ DomainInv' /\ OnceIsOnce' /\ recorded' = recorded
        /\ claim' = claim /\ lock' = lock
        /\ \A q \in Replica : Keeps(q)
    BY <1>1, <2>1 DEF DomainInv, OnceIsOnce, Keeps, ledgerVars, callVars,
                      serverVars
  <2> QED
    BY <1>1, <2>2, Kept DEF IInv
<1>3. CASE WriterClaims \/ WriterStops \/ ClaimEnds
  <2>1. /\ DomainInv' /\ OnceIsOnce' /\ recorded' = recorded /\ lock' = lock
        /\ \A q \in Replica : Keeps(q)
        /\ claim' = None \/ claim # None \/ lock["schema"] = None
    BY <1>1, <1>3 DEF WriterClaims, WriterStops, ClaimEnds, None, DomainInv,
                      OnceIsOnce, Keeps, callVars, serverVars
  <2>2. ASSUME NEW q \in Replica PROVE CallInv(q)'
    BY <1>1, <2>1, Kept
  <2> QED
    BY <2>1, <2>2 DEF IInv
<1> QED
  BY <1>2, <1>3 DEF Somebody

-----------------------------------------------------------------------------
(* The results.                                                            *)

LEMMA Steps == IInv /\ [Next]_vars => IInv'
<1> SUFFICES ASSUME IInv, [Next]_vars PROVE IInv'
  OBVIOUS
<1>1. ASSUME NEW r \in Replica, Call(r) PROVE IInv'
  BY <1>1, Starting, Initializing, Admitting, Planning, Executing, Answered
     DEF Call
<1>2. ASSUME NEW r \in Replica, Server(r) \/ Fails(r) \/ LoseSession(r)
      PROVE  IInv'
  BY <1>2, CommitEnding, SessionEnds, Answered DEF Server
<1>3. CASE Somebody
  BY <1>3, Intervening
<1>4. CASE UNCHANGED vars
  <2>1. /\ DomainInv' /\ OnceIsOnce' /\ recorded' = recorded
        /\ claim' = claim /\ lock' = lock
        /\ \A q \in Replica : Keeps(q) /\ CallInv(q)
    BY <1>4 DEF IInv, DomainInv, OnceIsOnce, Keeps, vars, ledgerVars, callVars,
                serverVars
  <2> QED
    BY <2>1, Kept DEF IInv
<1> QED
  BY <1>1, <1>2, <1>3, <1>4 DEF Next

(* Whatever replicas, their servers and everybody else do, the locks, what *)
(* is on its way to the server and the once steps fit together.            *)
THEOREM ConvergeInductiveInvariant == Spec => []IInv
BY Initially, Steps, PTL DEF Spec

(* No call of converge works over the open claim of another writer: from   *)
(* its admission until its last COMMIT has ended on the server, it has the *)
(* ledger lock and no claim is open.                                       *)
THEOREM NeverOverAClaimHolds == Spec => []NeverOverAClaim
<1>1. IInv => NeverOverAClaim
  BY DEF IInv, CallInv, LockInv, NeverOverAClaim, Held, Work
<1> QED
  BY <1>1, ConvergeInductiveInvariant, PTL

(* The work of a `once` step is committed once and recorded with it,       *)
(* however many replicas start at the same time, whichever answers are     *)
(* lost and wherever processes die.                                        *)
THEOREM OncesAreOnce == Spec => []OnceIsOnce
<1>1. IInv => OnceIsOnce
  BY DEF IInv
<1> QED
  BY <1>1, ConvergeInductiveInvariant, PTL

-----------------------------------------------------------------------------
(* What a call answers, and what it may take over.  The second inductive   *)
(* invariant follows the transactions of a call: those before the current  *)
(* one have landed, the current one has when its COMMIT did, nothing later *)
(* has; and what is still to be adopted is unknown to the ledger.          *)

(* What a transaction of a plan looks like.                                *)
Shaped(b) ==
    /\ b \in Transaction
    /\ b.role \in Work \cup {"preflight"}
    /\ b.of # {}
    /\ b.of \subseteq IF b.role = "step" THEN Step ELSE Item

(* An item is adopted once, and after none was created.                    *)
AdoptsApart(s) ==
    \A i, j \in DOMAIN s :
        i < j /\ s[j].role = "adopt" =>
            /\ s[i].role # "create"
            /\ s[i].role = "adopt" => s[i].of \cap s[j].of = {}

WellFormed(s) ==
    /\ s \in Seq({s[i] : i \in DOMAIN s})
    /\ \A i \in DOMAIN s : Shaped(s[i])
    /\ AdoptsApart(s)

(* How far a call is.  Its plan starts when it runs.                       *)
PlaceInv(r) ==
    /\ pc[r] \notin {"run", "idle"} => at[r] = 1 /\ landed[r] = {}
    /\ pc[r] = "run" => at[r] \in 1..(Len(plan[r]) + 1)
    /\ pc[r] = "run" /\ reply[r] # None => at[r] <= Len(plan[r])
    /\ flight[r].role \in Work =>
           /\ at[r] \in DOMAIN plan[r] /\ flight[r] = Current(r)
           /\ pc[r] = "run" \/ told[r] \in {"transport-ambiguous", "died"}

(* Which of its transactions have landed.                                  *)
LandedInv(r) ==
    /\ Completed(r) \subseteq landed[r]
    /\ landed[r] \subseteq 1..at[r]
    /\ pc[r] = "run" /\ reply[r] = "committed" => at[r] \in landed[r]
    /\ at[r] \in landed[r] =>
           /\ flight[r].role \notin Work
           /\ IF pc[r] = "idle"
              THEN told[r] \in {"transport-ambiguous", "died"}
              ELSE pc[r] = "run" /\ reply[r] = "committed"

(* What the answer says of that.                                           *)
ToldInv(r) ==
    /\ pc[r] # "idle" => told[r] = None
    /\ told[r] = None /\ pc[r] = "idle" => landed[r] = {}
    /\ told[r] \in {"busy", "refused", "no-drift", "error"} => landed[r] = {}
    /\ told[r] = "applied" => at[r] > Len(plan[r])
    /\ told[r] = "partially-applied" => Completed(r) # {}

(* What a call has created in its open transaction.                        *)
WorkedInv(r) ==
    /\ worked[r] # {} =>
           /\ pc[r] = "run" /\ at[r] \in DOMAIN plan[r]
           /\ Current(r).role = "create" /\ worked[r] \subseteq Current(r).of
    /\ pc[r] = "run" /\ at[r] \in DOMAIN plan[r] =>
           \/ flight[r] # Nothing \/ reply[r] # None
           \/ Current(r).of \ worked[r] # {}

(* What a call adopts is unknown to the ledger until it does.              *)
MayAdopt(r, b) ==
    b.role = "adopt" =>
        /\ Initialize[r] = "adopt-existing"
        /\ \A x \in b.of : record[x] = Unknown

AdoptInv(r) ==
    /\ WellFormed(plan[r])
    /\ pc[r] \in {"steps", "own", "run"} =>
           \A i \in DOMAIN plan[r] :
               i < at[r] \/ i \in landed[r] \/ MayAdopt(r, plan[r][i])
    /\ MayAdopt(r, flight[r])

WorkInv(r) ==
    PlaceInv(r) /\ LandedInv(r) /\ ToldInv(r) /\ WorkedInv(r) /\ AdoptInv(r)

WInv == TypeOK /\ \A r \in Replica : WorkInv(r)

-----------------------------------------------------------------------------
(* Sets in order.  A set of natural numbers has a least member; members    *)
(* that can be told apart by a number can be put in the order of it.       *)

LEMMA LeastNumber ==
    ASSUME NEW T, T \subseteq Nat, T # {}
    PROVE  \E n \in T : \A m \in T : n <= m
<1>1. PICK n \in T : \A m \in T : <<m, n>> \notin OpToRel(<, Nat)
  BY NatLessThanWellFounded, WFMin
<1>2. \A m \in T : ~(m < n)
  BY <1>1 DEF OpToRel
<1> QED
  BY <1>2

(* A finite set of numbers is bounded.                                     *)
LEMMA Bounded ==
    ASSUME NEW S, IsFiniteSet(S), NEW key \in [S -> Nat]
    PROVE  \E n \in Nat : \A x \in S : key[x] <= n
<1>1. PICK f \in Bijection(1..Cardinality(S), S) : TRUE
  BY FS_CardinalityType DEF ExistsBijection
<1>2. Cardinality(S) \in Nat
  BY FS_CardinalityType
<1> DEFINE c == Cardinality(S)
<1> HIDE DEF c
<1>3. c \in Nat /\ f \in [1..c -> S] /\ \A x \in S : \E i \in 1..c : f[i] = x
  BY <1>1, <1>2 DEF Bijection, Surjection, Injection, c
<1> DEFINE Bound(k, n) == \A i \in 1..c : i <= k => key[f[i]] <= n
<1> DEFINE Unbounded == {k \in 0..c : \A n \in Nat : ~Bound(k, n)}
<1>4. /\ Unbounded \subseteq Nat
      /\ \A k : k \in Unbounded <=> k \in 0..c /\ \A n \in Nat : ~Bound(k, n)
  BY <1>3
<1> HIDE DEF Unbounded
<1>5. Unbounded = {}
  <2> SUFFICES ASSUME Unbounded # {} PROVE FALSE
    OBVIOUS
  <2>1. PICK k \in Unbounded : \A m \in Unbounded : k <= m
    BY <1>4, LeastNumber
  <2>2. Bound(0, 0) /\ k \in 0..c
    BY <1>3, <1>4, <2>1
  <2>3. k # 0
    BY <1>4, <2>1, <2>2
  <2>4. k - 1 \in 0..c /\ k \in 1..c
    BY <1>3, <2>2, <2>3
  <2>5. k - 1 \notin Unbounded
    BY <1>4, <2>1, <2>4
  <2>6. PICK n \in Nat : Bound(k - 1, n)
    BY <1>4, <2>4, <2>5
  <2>7. f[k] \in S /\ key[f[k]] \in Nat
    BY <1>3, <2>4
  <2> DEFINE m == n + key[f[k]]
  <2>8. m \in Nat /\ n <= m /\ key[f[k]] <= m
    BY <2>6, <2>7
  <2>9. ASSUME NEW i \in 1..c, i <= k PROVE key[f[i]] <= m
    <3>1. key[f[i]] \in Nat /\ i \in Nat /\ k \in Nat
      BY <1>3, <2>4
    <3>2. i = k \/ i <= k - 1
      BY <2>9, <3>1
    <3>3. i # k => key[f[i]] <= n
      BY <2>6, <3>2
    <3> HIDE DEF m
    <3> QED
      BY <2>6, <2>8, <3>1, <3>3
  <2> HIDE DEF m
  <2>10. Bound(k, m)
    BY <2>9
  <2> QED
    BY <1>4, <2>1, <2>8, <2>10
<1>6. c \notin Unbounded /\ c \in 0..c
  BY <1>3, <1>5
<1>7. PICK n \in Nat : Bound(c, n)
  BY <1>4, <1>6
<1>8. \A x \in S : key[x] <= n
  <2> SUFFICES ASSUME NEW x \in S PROVE key[x] <= n
    OBVIOUS
  <2>1. PICK i \in 1..c : f[i] = x
    BY <1>3
  <2> QED
    BY <1>3, <1>7, <2>1
<1> QED
  BY <1>7, <1>8

(* The i-th member of a set.                                               *)
LEMMA Nth ==
    ASSUME NEW S, IsFiniteSet(S), NEW key \in [S -> Nat],
           \A x, y \in S : key[x] = key[y] => x = y,
           NEW i \in 1..Cardinality(S)
    PROVE  \E x \in S : Cardinality({y \in S : key[y] <= key[x]}) = i
<1> DEFINE Below(n) == {y \in S : key[y] <= n}
<1> DEFINE T == {n \in Nat : Cardinality(Below(n)) >= i}
<1>1. \A n \in Nat : IsFiniteSet(Below(n)) /\ Cardinality(Below(n)) \in Nat
  BY FS_Subset, FS_CardinalityType
<1>2. Cardinality(S) \in Nat
  BY FS_CardinalityType
<1>3. T # {}
  <2>1. PICK n \in Nat : \A x \in S : key[x] <= n
    BY Bounded
  <2>2. Below(n) = S
    BY <2>1
  <2> QED
    BY <1>2, <2>2
<1>4. PICK n \in T : \A m \in T : n <= m
  BY <1>3, LeastNumber
<1>5. \E x \in S : key[x] = n
  <2> SUFFICES ASSUME ~\E x \in S : key[x] = n PROVE FALSE
    OBVIOUS
  <2>1. CASE n = 0
    <3>1. Below(n) = {}
      BY <2>1
    <3> QED
      BY <1>4, <3>1, FS_EmptySet
  <2>2. CASE n # 0
    <3>1. n - 1 \in Nat /\ Below(n - 1) = Below(n)
      BY <1>4, <2>2
    <3>2. Cardinality(Below(n)) >= i
      BY <1>4
    <3>3. Cardinality(Below(n - 1)) >= i
      BY <3>1, <3>2
    <3>4. n - 1 \in T
      BY <3>1, <3>3
    <3>5. n <= n - 1 /\ n \in Nat
      BY <1>4, <3>4
    <3> QED
      BY <3>5
  <2> QED
    BY <2>1, <2>2
<1>6. PICK x \in S : key[x] = n
  BY <1>5
<1>7. Cardinality(Below(n)) = i
  <2>1. CASE n = 0
    <3>1. Below(n) = {x}
      BY <1>6, <2>1
    <3> QED
      BY <1>4, <3>1, FS_Singleton
  <2>2. CASE n # 0
    <3>1. n - 1 \in Nat /\ n - 1 \notin T
      BY <1>4, <2>2
    <3>2. Below(n) = Below(n - 1) \cup {x} /\ x \notin Below(n - 1)
      BY <1>4, <1>6, <2>2
    <3>3. Cardinality(Below(n)) = Cardinality(Below(n - 1)) + 1
      BY <1>1, <3>1, <3>2, FS_AddElement
    <3>4. /\ Cardinality(Below(n - 1)) \in Nat /\ i \in Nat
          /\ Cardinality(Below(n)) \in Nat
      BY <1>1, <1>2, <1>4, <3>1
    <3>5. ~(Cardinality(Below(n - 1)) >= i) /\ Cardinality(Below(n)) >= i
      BY <1>4, <3>1
    <3> HIDE DEF Below
    <3> QED
      BY <3>3, <3>4, <3>5
  <2> QED
    BY <2>1, <2>2
<1> QED
  BY <1>6, <1>7

(* The members of a set, in the order of a number each of them has.        *)
LEMMA InKeyOrder ==
    ASSUME NEW S, IsFiniteSet(S), NEW key \in [S -> Nat],
           \A x, y \in S : key[x] = key[y] => x = y
    PROVE  \E q \in [1..Cardinality(S) -> S] :
               \A i, j \in 1..Cardinality(S) : i < j => key[q[i]] < key[q[j]]
<1> DEFINE Upto(x) == {y \in S : key[y] <= key[x]}
<1> DEFINE q == [i \in 1..Cardinality(S) |->
                     CHOOSE x \in S : Cardinality(Upto(x)) = i]
<1>1. \A i \in 1..Cardinality(S) :
          q[i] \in S /\ Cardinality(Upto(q[i])) = i
  <2> SUFFICES ASSUME NEW i \in 1..Cardinality(S)
               PROVE  q[i] \in S /\ Cardinality(Upto(q[i])) = i
    OBVIOUS
  <2>1. \E x \in S : Cardinality(Upto(x)) = i
    BY Nth
  <2> HIDE DEF Upto
  <2> QED
    BY <2>1
<1>2. ASSUME NEW i \in 1..Cardinality(S), NEW j \in 1..Cardinality(S), i < j
      PROVE  key[q[i]] < key[q[j]]
  <2> SUFFICES ASSUME ~(key[q[i]] < key[q[j]]) PROVE FALSE
    OBVIOUS
  <2>1. /\ q[i] \in S /\ q[j] \in S
        /\ Cardinality(Upto(q[i])) = i /\ Cardinality(Upto(q[j])) = j
    BY <1>1
  <2> HIDE DEF q
  <2>2. Upto(q[j]) \subseteq Upto(q[i]) /\ IsFiniteSet(Upto(q[i]))
    <3>1. IsFiniteSet(Upto(q[i]))
      BY FS_Subset
    <3> QED
      BY <2>1, <3>1
  <2>3. Cardinality(Upto(q[j])) <= Cardinality(Upto(q[i]))
    BY <2>2, FS_Subset
  <2> HIDE DEF Upto
  <2> QED
    BY <1>2, <2>1, <2>3, FS_CardinalityType
<1>3. q \in [1..Cardinality(S) -> S]
  BY <1>1
<1> HIDE DEF q
<1> QED
  BY <1>2, <1>3

(* InOrder puts numbers in ascending order.                                *)
LEMMA Ascending ==
    ASSUME NEW S, S \subseteq Nat, IsFiniteSet(S)
    PROVE  /\ InOrder(S, Smaller(S)) \in [1..Cardinality(S) -> S]
           /\ \A i, j \in 1..Cardinality(S) :
                  i < j =>
                    InOrder(S, Smaller(S))[i] < InOrder(S, Smaller(S))[j]
<1> DEFINE key == [x \in S |-> x]
<1>1. key \in [S -> Nat] /\ \A x, y \in S : key[x] = key[y] => x = y
  OBVIOUS
<1> HIDE DEF key
<1>2. PICK q \in [1..Cardinality(S) -> S] :
          \A i, j \in 1..Cardinality(S) : i < j => key[q[i]] < key[q[j]]
  BY <1>1, InKeyOrder
<1>3. \A i, j \in 1..Cardinality(S) : i < j => <<q[i], q[j]>> \in Smaller(S)
  BY <1>2 DEF key, Smaller
<1> DEFINE o == InOrder(S, Smaller(S))
<1>4. /\ o \in [1..Cardinality(S) -> S]
      /\ \A i, j \in 1..Cardinality(S) :
            i < j => <<o[i], o[j]>> \in Smaller(S)
  BY <1>3 DEF InOrder
<1>5. \A i, j \in 1..Cardinality(S) : i < j => o[i] < o[j]
  BY <1>4 DEF Smaller
<1> QED
  BY <1>4, <1>5

-----------------------------------------------------------------------------
(* The plans of a call are well formed.                                    *)

Values(s) == {s[i] : i \in DOMAIN s}

(* The transactions of two plans, one after the other.                     *)
LEMMA Joined ==
    ASSUME NEW s, NEW t, s \in Seq(Values(s)), t \in Seq(Values(t))
    PROVE  /\ s \o t \in Seq(Values(s \o t))
           /\ Values(s \o t) = Values(s) \cup Values(t)
           /\ Len(s) \in Nat /\ Len(t) \in Nat
           /\ DOMAIN s = 1..Len(s) /\ DOMAIN t = 1..Len(t)
           /\ DOMAIN (s \o t) = 1..(Len(s) + Len(t))
           /\ \A i \in 1..(Len(s) + Len(t)) :
                 (s \o t)[i] = IF i <= Len(s) THEN s[i] ELSE t[i - Len(s)]
<1> DEFINE V == Values(s) \cup Values(t)
<1>1. s \in Seq(V) /\ t \in Seq(V)
  BY DEF Values
<1>2. /\ s \o t \in Seq(V)
      /\ Len(s) \in Nat /\ Len(t) \in Nat
      /\ DOMAIN s = 1..Len(s) /\ DOMAIN t = 1..Len(t)
      /\ Len(s \o t) = Len(s) + Len(t)
      /\ \A i \in 1..(Len(s) + Len(t)) :
            (s \o t)[i] = IF i <= Len(s) THEN s[i] ELSE t[i - Len(s)]
  BY <1>1
<1> HIDE DEF V
<1>3. DOMAIN (s \o t) = 1..(Len(s) + Len(t))
  BY <1>2
<1>4. s \o t \in Seq(Values(s \o t))
  <2> DEFINE u == s \o t
  <2>1. u \in Seq(V)
    BY <1>2
  <2> HIDE DEF u
  <2>2. u \in Seq(Values(u))
    BY <2>1, OwnValues DEF Values
  <2> QED
    BY <2>2 DEF u
<1>5. Values(s \o t) \subseteq Values(s) \cup Values(t)
  <2> SUFFICES ASSUME NEW i \in DOMAIN (s \o t)
               PROVE  (s \o t)[i] \in Values(s) \cup Values(t)
    BY DEF Values
  <2>1. CASE i <= Len(s)
    BY <1>2, <1>3, <2>1 DEF Values
  <2>2. CASE ~(i <= Len(s))
    <3>1. i - Len(s) \in DOMAIN t /\ (s \o t)[i] = t[i - Len(s)]
      BY <1>2, <1>3, <2>2
    <3> QED
      BY <3>1 DEF Values
  <2> QED
    BY <2>1, <2>2
<1>6. Values(s) \subseteq Values(s \o t)
  <2> SUFFICES ASSUME NEW i \in DOMAIN s PROVE s[i] \in Values(s \o t)
    BY DEF Values
  <2>1. i \in DOMAIN (s \o t) /\ (s \o t)[i] = s[i]
    BY <1>2, <1>3
  <2> QED
    BY <2>1 DEF Values
<1>7. Values(t) \subseteq Values(s \o t)
  <2> SUFFICES ASSUME NEW i \in DOMAIN t PROVE t[i] \in Values(s \o t)
    BY DEF Values
  <2>1. i + Len(s) \in 1..(Len(s) + Len(t)) /\ ~(i + Len(s) <= Len(s))
        /\ (i + Len(s)) - Len(s) = i
    BY <1>2
  <2>2. i + Len(s) \in DOMAIN (s \o t) /\ (s \o t)[i + Len(s)] = t[i]
    BY <1>2, <1>3, <2>1
  <2> QED
    BY <2>2 DEF Values
<1> QED
  BY <1>2, <1>3, <1>4, <1>5, <1>6, <1>7

NoneOf(s, roles) == \A b \in Values(s) : b.role \notin roles

LEMMA WellFormedJoined ==
    ASSUME NEW s, NEW t, WellFormed(s), WellFormed(t),
           NoneOf(t, {"adopt"}) \/ NoneOf(s, {"adopt", "create"})
    PROVE  WellFormed(s \o t) /\ Values(s \o t) = Values(s) \cup Values(t)
<1>1. s \in Seq(Values(s)) /\ t \in Seq(Values(t))
  BY DEF WellFormed, Values
<1>2. /\ s \o t \in Seq(Values(s \o t))
      /\ Values(s \o t) = Values(s) \cup Values(t)
      /\ Len(s) \in Nat /\ Len(t) \in Nat
      /\ DOMAIN s = 1..Len(s) /\ DOMAIN t = 1..Len(t)
      /\ DOMAIN (s \o t) = 1..(Len(s) + Len(t))
      /\ \A i \in 1..(Len(s) + Len(t)) :
            (s \o t)[i] = IF i <= Len(s) THEN s[i] ELSE t[i - Len(s)]
  BY <1>1, Joined
<1>3. \A i \in DOMAIN (s \o t) : Shaped((s \o t)[i])
  <2>1. \A b \in Values(s) \cup Values(t) : Shaped(b)
    BY DEF WellFormed, Values
  <2>2. \A i \in DOMAIN (s \o t) : (s \o t)[i] \in Values(s \o t)
    BY DEF Values
  <2> QED
    BY <1>2, <2>1, <2>2
<1>4. ASSUME NEW i \in DOMAIN (s \o t), NEW j \in DOMAIN (s \o t),
             i < j, (s \o t)[j].role = "adopt"
      PROVE  /\ (s \o t)[i].role # "create"
             /\ (s \o t)[i].role = "adopt" =>
                    (s \o t)[i].of \cap (s \o t)[j].of = {}
  <2>1. CASE j <= Len(s)
    <3>1. /\ i \in DOMAIN s /\ j \in DOMAIN s
          /\ (s \o t)[i] = s[i] /\ (s \o t)[j] = s[j]
      BY <1>2, <1>4, <2>1
    <3> QED
      BY <1>4, <3>1 DEF WellFormed, AdoptsApart
  <2>2. CASE ~(i <= Len(s))
    <3>1. /\ i - Len(s) \in DOMAIN t /\ j - Len(s) \in DOMAIN t
          /\ i - Len(s) < j - Len(s)
          /\ (s \o t)[i] = t[i - Len(s)] /\ (s \o t)[j] = t[j - Len(s)]
      BY <1>2, <1>4, <2>2
    <3> QED
      BY <1>4, <3>1 DEF WellFormed, AdoptsApart
  <2>3. CASE i <= Len(s) /\ ~(j <= Len(s))
    <3>1. /\ i \in DOMAIN s /\ j - Len(s) \in DOMAIN t
          /\ (s \o t)[i] = s[i] /\ (s \o t)[j] = t[j - Len(s)]
      BY <1>2, <1>4, <2>3
    <3>2. s[i] \in Values(s) /\ t[j - Len(s)] \in Values(t)
      BY <3>1 DEF Values
    <3> QED
      BY <1>4, <3>1, <3>2 DEF NoneOf
  <2> QED
    BY <2>1, <2>2, <2>3
<1> QED
  BY <1>2, <1>3, <1>4 DEF WellFormed, AdoptsApart, Values

(* A part of a plan that adopts nothing.                                   *)
LEMMA PartWellFormed ==
    ASSUME NEW n \in Nat, NEW V, NEW s \in [1..n -> V],
           \A b \in V : Shaped(b) /\ b.role # "adopt"
    PROVE  WellFormed(s) /\ Values(s) \subseteq V /\ NoneOf(s, {"adopt"})
<1>1. s \in Seq(V)
  BY FunctionIsSequence
<1>2. s \in Seq({s[i] : i \in DOMAIN s})
  BY <1>1, OwnValues
<1>3. Values(s) \subseteq V
  BY DEF Values
<1>4. \A i \in DOMAIN s : Shaped(s[i]) /\ s[i].role # "adopt"
  OBVIOUS
<1> QED
  BY <1>2, <1>3, <1>4 DEF WellFormed, AdoptsApart, NoneOf

LEMMA EmptyWellFormed ==
    WellFormed(<<>>) /\ Values(<<>>) = {}
BY DEF WellFormed, AdoptsApart, Values

(* The members a part of a plan takes one by one.                          *)
LEMMA MembersInOrder ==
    ASSUME NEW S, S \subseteq Item \/ S \subseteq Step
    PROVE  /\ Cardinality(S) \in Nat
           /\ \A i \in 1..Cardinality(S) : InOrder(S, Smaller(S))[i] \in S
           /\ \A i, j \in 1..Cardinality(S) :
                  i < j =>
                    InOrder(S, Smaller(S))[i] # InOrder(S, Smaller(S))[j]
<1>1. S \subseteq Nat /\ IsFiniteSet(S)
  BY FS_Subset, ItemAssumption
<1>2. Cardinality(S) \in Nat
  BY <1>1, FS_CardinalityType
<1> DEFINE q == InOrder(S, Smaller(S))
<1>3. /\ q \in [1..Cardinality(S) -> S]
      /\ \A i, j \in 1..Cardinality(S) : i < j => q[i] < q[j]
  BY <1>1, Ascending
<1> HIDE DEF q
<1>4. \A i \in 1..Cardinality(S) : q[i] \in S
  BY <1>3
<1>5. ASSUME NEW i \in 1..Cardinality(S), NEW j \in 1..Cardinality(S), i < j
      PROVE  q[i] # q[j]
  <2>1. q[i] < q[j] /\ q[i] \in Nat
    BY <1>1, <1>3, <1>4, <1>5
  <2> QED
    BY <2>1
<1> QED
  BY <1>2, <1>4, <1>5 DEF q

LEMMA StepsWellFormed ==
    ASSUME NEW S, S \subseteq Step
    PROVE  /\ WellFormed(Each("step", S))
           /\ NoneOf(Each("step", S), {"adopt", "create"})
<1> DEFINE q == InOrder(S, Smaller(S))
<1> DEFINE e(i) == [role |-> "step", of |-> {q[i]}, as |-> 0]
<1> DEFINE V == {e(i) : i \in 1..Cardinality(S)}
<1>1. Each("step", S) \in [1..Cardinality(S) -> V]
  BY DEF Each
<1>2. Cardinality(S) \in Nat /\ \A i \in 1..Cardinality(S) : q[i] \in S
  BY MembersInOrder
<1> HIDE DEF q
<1>3. ASSUME NEW b \in V PROVE Shaped(b) /\ b.role = "step"
  <2>1. PICK i \in 1..Cardinality(S) : b = e(i)
    OBVIOUS
  <2>2. /\ b.role = "step" /\ b.of \subseteq Step /\ b.of # {}
        /\ b \in Transaction
    BY <1>2, <2>1 DEF Transaction
  <2> QED
    BY <2>2 DEF Shaped, Work
<1> HIDE DEF V
<1> QED
  BY <1>1, <1>2, <1>3, PartWellFormed DEF NoneOf

LEMMA NewSequencesWellFormed ==
    ASSUME NEW r \in Replica
    PROVE  WellFormed(NewSequences(r)) /\ NoneOf(NewSequences(r), {"adopt"})
<1> DEFINE S == Fresh(r) \cap Sequence
<1> DEFINE q == InOrder(S, Smaller(S))
<1> DEFINE e(i) == [role |-> "create", of |-> {q[i]}, as |-> 1]
<1> DEFINE V == {e(i) : i \in 1..Cardinality(S)}
<1>1. NewSequences(r) \in [1..Cardinality(S) -> V]
  BY DEF NewSequences
<1>2. S \subseteq Item
  BY DEF Fresh
<1> HIDE DEF S
<1>3. Cardinality(S) \in Nat /\ \A i \in 1..Cardinality(S) : q[i] \in S
  BY <1>2, MembersInOrder
<1> HIDE DEF q
<1>4. ASSUME NEW b \in V PROVE Shaped(b) /\ b.role = "create"
  <2>1. PICK i \in 1..Cardinality(S) : b = e(i)
    OBVIOUS
  <2>2. b.role = "create" /\ b.of \subseteq Item /\ b.of # {}
        /\ b \in Transaction
    BY <1>2, <1>3, <2>1 DEF Transaction, Changes
  <2> QED
    BY <2>2 DEF Shaped, Work, Changes
<1> HIDE DEF V
<1> QED
  BY <1>1, <1>3, <1>4, PartWellFormed

LEMMA SmallPartsWellFormed ==
    ASSUME NEW r \in Replica
    PROVE  /\ WellFormed(Preflight(r)) /\ WellFormed(Group(r))
           /\ NoneOf(Preflight(r), {"adopt", "create"})
           /\ NoneOf(Group(r), {"adopt"})
<1>1. ASSUME NEW b, Shaped(b), b.role # "adopt"
      PROVE  WellFormed(<<b>>) /\ Values(<<b>>) \subseteq {b}
  <2> DEFINE s == <<b>>
  <2> DEFINE V == {b}
  <2>1. s \in [1..1 -> V] /\ 1 \in Nat
    OBVIOUS
  <2>2. \A c \in V : Shaped(c) /\ c.role # "adopt"
    BY <1>1
  <2> HIDE DEF s, V
  <2>3. WellFormed(s) /\ Values(s) \subseteq V
    BY <2>1, <2>2, PartWellFormed
  <2> QED
    BY <2>3 DEF s, V
<1>2. WellFormed(Preflight(r)) /\ NoneOf(Preflight(r), {"adopt", "create"})
  <2>1. CASE Adopted(r) = {}
    BY <2>1, EmptyWellFormed DEF Preflight, NoneOf
  <2>2. CASE Adopted(r) # {}
    <3> DEFINE b == [role |-> "preflight", of |-> Adopted(r), as |-> 0]
    <3>1. Preflight(r) = <<b>>
      BY <2>2 DEF Preflight
    <3>2. Adopted(r) \subseteq Item
      BY DEF Adopted, Standing
    <3>3. Shaped(b)
      BY <2>2, <3>2 DEF Shaped, Transaction
    <3> QED
      BY <1>1, <3>1, <3>3 DEF NoneOf
  <2> QED
    BY <2>1, <2>2
<1>3. WellFormed(Group(r)) /\ NoneOf(Group(r), {"adopt"})
  <2>1. CASE NewTables(r) = {}
    BY <2>1, EmptyWellFormed DEF Group, NoneOf
  <2>2. CASE NewTables(r) # {}
    <3> DEFINE b == [role |-> "create", of |-> NewTables(r),
                     as |-> Version[r]]
    <3>1. Group(r) = <<b>>
      BY <2>2 DEF Group
    <3>2. NewTables(r) \subseteq Item /\ Version[r] \in Nat
      BY ReplicaAssumption DEF NewTables, Fresh
    <3>3. Shaped(b)
      BY <2>2, <3>2 DEF Shaped, Transaction, Work, Changes
    <3> QED
      BY <1>1, <3>1, <3>3 DEF NoneOf
  <2> QED
    BY <2>1, <2>2
<1> QED
  BY <1>2, <1>3

LEMMA Rows ==
    ASSUME NEW W \in Nat, NEW a \in Nat, NEW b \in Nat, a < b
    PROVE  a * W + W <= b * W
<1> DEFINE d == b - a - 1
<1>1. d \in Nat /\ b = a + 1 + d
  OBVIOUS
<1> HIDE DEF d
<1>2. b * W = a * W + W + d * W /\ d * W \in Nat /\ a * W \in Nat
  BY <1>1
<1> QED
  BY <1>2

LEMMA NewColumnsWellFormed ==
    ASSUME NEW r \in Replica
    PROVE  WellFormed(NewColumns(r)) /\ NoneOf(NewColumns(r), {"adopt"})
<1> DEFINE columns == {p \in Table \X (1..Version[r]) :
                        seen[r][p[1]] # Absent /\ seen[r][p[1]].shape < p[2]}
<1> DEFINE Earlier == {p \in columns \X columns :
                        \/ p[1][1] < p[2][1]
                        \/ p[1][1] = p[2][1] /\ p[1][2] < p[2][2]}
<1> DEFINE ordered == InOrder(columns, Earlier)
<1> DEFINE e(i) == [role |-> "extend", of |-> {ordered[i][1]},
                    as |-> ordered[i][2]]
<1> DEFINE V == {e(i) : i \in 1..Cardinality(columns)}
<1>1. IsFiniteSet(columns) /\ Cardinality(columns) \in Nat
  <2>1. IsFiniteSet(Table)
    BY ItemAssumption, FS_Subset DEF Item
  <2>2. IsFiniteSet(1..Version[r])
    BY ReplicaAssumption, FS_Interval
  <2>3. IsFiniteSet(Table \X (1..Version[r]))
    BY <2>1, <2>2, FS_Product
  <2>4. IsFiniteSet(columns)
    BY <2>3, FS_Subset
  <2> QED
    BY <2>4, FS_CardinalityType
<1>2. NewColumns(r) = [i \in 1..Cardinality(columns) |-> e(i)]
  BY DEF NewColumns
<1>3. NewColumns(r) \in [1..Cardinality(columns) -> V]
  BY <1>2
<1>4. columns \subseteq Table \X (1..Version[r])
  OBVIOUS
<1> DEFINE W == Version[r] + 1
<1>5. W \in Nat /\ \A p \in columns : p[1] \in Item /\ p[1] \in Nat
                                 /\ p[2] \in 1..Version[r] /\ p[2] < W
                                 /\ p = <<p[1], p[2]>>
  <2>1. Version[r] \in Nat /\ Table \subseteq Nat /\ Table \subseteq Item
    BY ReplicaAssumption, ItemAssumption DEF Item
  <2> HIDE DEF columns
  <2>2. ASSUME NEW p \in columns
        PROVE  /\ p[1] \in Table /\ p[2] \in 1..Version[r]
               /\ p = <<p[1], p[2]>>
    BY <1>4
  <2> QED
    BY <2>1, <2>2
<1> HIDE DEF columns
<1>6. ordered \in [1..Cardinality(columns) -> columns]
  <2> DEFINE key == [p \in columns |-> p[1] * W + p[2]]
  <2> DEFINE Ahead(p, q) == \/ p[1] < q[1]
                            \/ p[1] = q[1] /\ p[2] < q[2]
  <2>0. ASSUME NEW p \in columns, NEW q \in columns
        PROVE  <<p, q>> \in Earlier <=> Ahead(p, q)
    <3> DEFINE both == <<p, q>>
    <3>1. /\ both \in columns \X columns /\ both[1] = p /\ both[2] = q
      OBVIOUS
    <3> HIDE DEF both
    <3>2. both \in Earlier <=> Ahead(p, q)
      BY <3>1
    <3> QED
      BY <3>2 DEF both
  <2> HIDE DEF W, Earlier
  <2>1. key \in [columns -> Nat]
    <3>1. \A p \in columns : p[1] * W + p[2] \in Nat
      BY <1>5
    <3> QED
      BY <3>1
  <2>2. ASSUME NEW p \in columns, NEW q \in columns, p[1] < q[1]
        PROVE  key[p] < key[q]
    <3>1. /\ p[1] \in Nat /\ q[1] \in Nat /\ p[2] < W /\ p[2] \in Nat
          /\ q[2] \in Nat
      BY <1>5
    <3>2. p[1] * W + W <= q[1] * W
      BY <1>5, <2>2, <3>1, Rows
    <3>3. p[1] * W \in Nat /\ q[1] * W \in Nat
      BY <1>5, <3>1
    <3> QED
      BY <1>5, <3>1, <3>2, <3>3
  <2>3. ASSUME NEW p \in columns, NEW q \in columns, <<p, q>> \notin Earlier
        PROVE  p = q \/ key[q] < key[p]
    <3>1. /\ p[1] \in Nat /\ q[1] \in Nat /\ p[2] \in Nat /\ q[2] \in Nat
          /\ p = <<p[1], p[2]>> /\ q = <<q[1], q[2]>>
      BY <1>5
    <3>2. CASE q[1] < p[1]
      BY <2>2, <3>2
    <3>3. CASE p[1] = q[1] /\ q[2] < p[2]
      <4>1. p[1] * W \in Nat
        BY <1>5, <3>1
      <4> QED
        BY <3>1, <3>3, <4>1
    <3>4. CASE p[1] = q[1] /\ p[2] = q[2]
      BY <3>1, <3>4
    <3> QED
      BY <2>0, <2>3, <3>1, <3>2, <3>3, <3>4
  <2>4. ASSUME NEW p \in columns, NEW q \in columns, key[p] = key[q]
        PROVE  p = q
    <3>1. key[p] \in Nat
      BY <2>1
    <3>2. <<p, q>> \in Earlier => key[p] < key[q]
      <4>1. /\ p[1] \in Nat /\ q[1] \in Nat /\ p[2] \in Nat /\ q[2] \in Nat
            /\ p[1] * W \in Nat
        BY <1>5
      <4>2. CASE p[1] < q[1]
        BY <2>2, <4>2
      <4>3. CASE p[1] = q[1] /\ p[2] < q[2]
        BY <4>1, <4>3
      <4> QED
        BY <2>0, <4>2, <4>3
    <3> QED
      BY <2>3, <2>4, <3>1, <3>2
  <2> HIDE DEF key
  <2>5. PICK s \in [1..Cardinality(columns) -> columns] :
            \A i, j \in 1..Cardinality(columns) :
                i < j => key[s[i]] < key[s[j]]
    BY <1>1, <2>1, <2>4, InKeyOrder
  <2>6. ASSUME NEW i \in 1..Cardinality(columns),
               NEW j \in 1..Cardinality(columns), i < j
        PROVE  <<s[i], s[j]>> \in Earlier
    <3> SUFFICES ASSUME <<s[i], s[j]>> \notin Earlier PROVE FALSE
      OBVIOUS
    <3>1. s[i] \in columns /\ s[j] \in columns /\ key[s[i]] < key[s[j]]
      BY <2>5, <2>6
    <3>2. key[s[i]] \in Nat /\ key[s[j]] \in Nat
      BY <2>1, <3>1
    <3>3. s[i] = s[j] \/ key[s[j]] < key[s[i]]
      BY <2>3, <3>1
    <3> QED
      BY <3>1, <3>2, <3>3
  <2> QED
    BY <2>6 DEF InOrder
<1> HIDE DEF ordered, W
<1>7. ASSUME NEW b \in V PROVE Shaped(b) /\ b.role = "extend"
  <2>1. PICK i \in 1..Cardinality(columns) : b = e(i)
    OBVIOUS
  <2>2. ordered[i] \in columns
    BY <1>6
  <2>3. ordered[i][1] \in Item /\ ordered[i][2] \in Nat
    BY <1>5, <2>2
  <2>4. b.role = "extend" /\ b.of \subseteq Item /\ b.of # {}
        /\ b \in Transaction
    BY <2>1, <2>3 DEF Transaction, Changes
  <2> QED
    BY <2>4 DEF Shaped, Work, Changes
<1> HIDE DEF V
<1> QED
  BY <1>1, <1>3, <1>7, PartWellFormed

(* The adoptions of a plan are those of items unknown to the ledger.       *)
LEMMA AdoptionsWellFormed ==
    ASSUME TypeOK, NEW r \in Replica
    PROVE  /\ WellFormed(Adoptions(r))
           /\ \A b \in Values(Adoptions(r)) : MayAdopt(r, b)
<1> DEFINE S == Adopted(r)
<1> DEFINE q == InOrder(S, Smaller(S))
<1> DEFINE e(i) == LET x == q[i]
                   IN  [role |-> "adopt", of |-> {x}, as |-> live[x].id]
<1> DEFINE V == {e(i) : i \in 1..Cardinality(S)}
<1>1. Adoptions(r) = [i \in 1..Cardinality(S) |-> e(i)]
  BY DEF Adoptions
<1>2. /\ S \subseteq Item
      /\ \A x \in S : record[x] = Unknown /\ Initialize[r] = "adopt-existing"
  BY DEF Adopted, Standing
<1> HIDE DEF S
<1>3. /\ Cardinality(S) \in Nat /\ \A i \in 1..Cardinality(S) : q[i] \in S
      /\ \A i, j \in 1..Cardinality(S) : i < j => q[i] # q[j]
  BY <1>2, MembersInOrder
<1> HIDE DEF q
<1>4. ASSUME NEW i \in 1..Cardinality(S)
      PROVE  Shaped(e(i)) /\ MayAdopt(r, e(i))
  <2>1. q[i] \in S /\ q[i] \in Item /\ live[q[i]].id \in Nat
    BY <1>2, <1>3 DEF TypeOK
  <2>2. e(i).role = "adopt" /\ e(i).of = {q[i]} /\ e(i) \in Transaction
    BY <2>1 DEF Transaction, Changes
  <2> HIDE DEF e
  <2> QED
    BY <1>2, <2>1, <2>2 DEF Shaped, Work, Changes, MayAdopt
<1>5. Adoptions(r) \in [1..Cardinality(S) -> V]
  BY <1>1
<1>6. \A i \in 1..Cardinality(S) : Adoptions(r)[i] = e(i) /\ e(i).of = {q[i]}
  BY <1>1
<1>7. DOMAIN Adoptions(r) = 1..Cardinality(S)
  BY <1>1
<1> HIDE DEF V, e
<1>8. Adoptions(r) \in Seq(Values(Adoptions(r)))
  <2>1. Adoptions(r) \in Seq(V)
    BY <1>3, <1>5, FunctionIsSequence
  <2> QED
    BY <2>1, OwnValues DEF Values
<1>9. AdoptsApart(Adoptions(r))
  <2>1. ASSUME NEW i \in 1..Cardinality(S)
        PROVE  Adoptions(r)[i].role = "adopt"
    <3>1. Adoptions(r)[i] = e(i)
      BY <1>6
    <3> QED
      BY <3>1 DEF e
  <2>2. ASSUME NEW i \in 1..Cardinality(S), NEW j \in 1..Cardinality(S), i < j
        PROVE  Adoptions(r)[i].of \cap Adoptions(r)[j].of = {}
    BY <1>3, <1>6, <2>2
  <2> QED
    BY <1>7, <2>1, <2>2 DEF AdoptsApart
<1> QED
  BY <1>4, <1>6, <1>7, <1>8, <1>9 DEF WellFormed, Values

LEMMA GeneratedWellFormed ==
    ASSUME TypeOK, NEW r \in Replica
    PROVE  /\ WellFormed(Generated(r))
           /\ \A b \in Values(Generated(r)) : MayAdopt(r, b)
<1> DEFINE s1 == Preflight(r) \o Adoptions(r)
<1> DEFINE s2 == s1 \o NewSequences(r)
<1> DEFINE s3 == s2 \o Group(r)
<1>1. /\ WellFormed(s1)
      /\ Values(s1) = Values(Preflight(r)) \cup Values(Adoptions(r))
  BY SmallPartsWellFormed, AdoptionsWellFormed, WellFormedJoined
<1> HIDE DEF s1
<1>2. WellFormed(s2) /\ Values(s2) = Values(s1) \cup Values(NewSequences(r))
  BY <1>1, NewSequencesWellFormed, WellFormedJoined
<1> HIDE DEF s2
<1>3. WellFormed(s3) /\ Values(s3) = Values(s2) \cup Values(Group(r))
  BY <1>2, SmallPartsWellFormed, WellFormedJoined
<1> HIDE DEF s3
<1>4. /\ WellFormed(s3 \o NewColumns(r))
      /\ Values(s3 \o NewColumns(r)) = Values(s3) \cup Values(NewColumns(r))
  BY <1>3, NewColumnsWellFormed, WellFormedJoined
<1>5. Generated(r) = s3 \o NewColumns(r)
  BY DEF Generated, s1, s2, s3
<1>6. ASSUME NEW b \in Values(Generated(r)) PROVE MayAdopt(r, b)
  <2>1. \/ b \in Values(Adoptions(r))
        \/ b.role # "adopt"
    BY <1>1, <1>2, <1>3, <1>4, <1>5, <1>6, SmallPartsWellFormed,
       NewSequencesWellFormed, NewColumnsWellFormed DEF NoneOf
  <2> QED
    BY <2>1, AdoptionsWellFormed DEF MayAdopt
<1> QED
  BY <1>4, <1>5, <1>6

LEMMA WholeWellFormed ==
    ASSUME NEW r, NEW s, WellFormed(s), \A b \in Values(s) : MayAdopt(r, b)
    PROVE  /\ WellFormed(Whole(s))
           /\ \A b \in Values(Whole(s)) : MayAdopt(r, b)
<1> DEFINE before == Each("step", Before)
<1> DEFINE after == Each("step", Step \ Before)
<1>1. /\ WellFormed(before) /\ NoneOf(before, {"adopt", "create"})
      /\ WellFormed(after) /\ NoneOf(after, {"adopt", "create"})
  BY StepsWellFormed, ItemAssumption
<1> HIDE DEF before, after
<1>2. /\ WellFormed(before \o s)
      /\ Values(before \o s) = Values(before) \cup Values(s)
  BY <1>1, WellFormedJoined
<1>3. NoneOf(after, {"adopt"})
  BY <1>1 DEF NoneOf
<1> DEFINE t == before \o s
<1> HIDE DEF t
<1>4. /\ WellFormed(t \o after)
      /\ Values(t \o after) = Values(t) \cup Values(after)
  BY <1>2, <1>1, <1>3, WellFormedJoined DEF t
<1>5. Whole(s) = t \o after
  BY DEF Whole, t, before, after
<1>6. ASSUME NEW b \in Values(Whole(s)) PROVE MayAdopt(r, b)
  <2>1. b \in Values(s) \/ b.role # "adopt"
    BY <1>1, <1>2, <1>4, <1>5, <1>6 DEF NoneOf, t
  <2> QED
    BY <2>1 DEF MayAdopt
<1> QED
  BY <1>4, <1>5, <1>6

-----------------------------------------------------------------------------
(* The steps, once more: the types of the state and the work of a call.    *)

LEMMA WorkInitially == Init => WInv
<1> SUFFICES ASSUME Init PROVE WInv
  OBVIOUS
<1> USE DEF Init
<1>1. TypeOK
  <2>1. /\ live \in [Item -> [id : Nat, shape : Nat]]
        /\ seen \in [Replica -> [Item -> [id : Nat, shape : Nat]]]
    BY DEF Absent
  <2>2. plan \in [Replica -> Seq(Transaction)]
    OBVIOUS
  <2>3. flight \in [Replica -> Transaction]
    BY DEF Transaction, Nothing
  <2> QED
    BY <2>1, <2>2, <2>3, BoundAssumption DEF TypeOK, Answers, Unknown, Home
<1>2. ASSUME NEW r \in Replica PROVE WorkInv(r)
  <2>1. Completed(r) = {}
    BY DEF Completed
  <2>2. PlaceInv(r) /\ LandedInv(r) /\ ToldInv(r)
    BY <2>1, Constants DEF PlaceInv, LandedInv, ToldInv, None, Nothing
  <2>3. WorkedInv(r) /\ AdoptInv(r)
    BY EmptyWellFormed DEF WorkedInv, AdoptInv, MayAdopt, Nothing, None
  <2> QED
    BY <2>2, <2>3 DEF WorkInv
<1> QED
  BY <1>1, <1>2 DEF WInv

(* What is left alone for the call of q.                                   *)
Rests(q) ==
    /\ Keeps(q)
    /\ landed'[q] = landed[q] /\ told'[q] = told[q] /\ worked'[q] = worked[q]

(* A call goes by what the ledger records only while it has the lock.      *)
LEMMA Undisturbed ==
    ASSUME NEW q \in Replica, CallInv(q), WorkInv(q), Rests(q),
           record' = record \/ lock["schema"] # q
    PROVE  WorkInv(q)'
<1>1. /\ pc'[q] = pc[q] /\ conn'[q] = conn[q] /\ flight'[q] = flight[q]
      /\ reply'[q] = reply[q] /\ plan'[q] = plan[q] /\ at'[q] = at[q]
      /\ landed'[q] = landed[q] /\ told'[q] = told[q] /\ worked'[q] = worked[q]
  BY DEF Rests, Keeps
<1>2. Completed(q)' = Completed(q) /\ Current(q)' = Current(q)
  BY <1>1 DEF Completed, Current
<1>3. PlaceInv(q)' /\ LandedInv(q)' /\ ToldInv(q)' /\ WorkedInv(q)'
  BY <1>1, <1>2 DEF WorkInv, PlaceInv, LandedInv, ToldInv, WorkedInv
<1>4. AdoptInv(q)'
  <2>1. CASE record' = record
    <3>1. \A b : MayAdopt(q, b)' <=> MayAdopt(q, b)
      BY <2>1 DEF MayAdopt
    <3> QED
      BY <1>1, <3>1 DEF WorkInv, AdoptInv
  <2>2. CASE lock["schema"] # q
    <3>1. pc[q] \notin {"steps", "own", "run"} /\ flight[q].role # "adopt"
      BY <2>2 DEF CallInv, LockInv, Held, Work, Changes
    <3> QED
      BY <1>1, <3>1 DEF WorkInv, AdoptInv, MayAdopt
  <2> QED
    BY <2>1, <2>2
<1> QED
  BY <1>3, <1>4 DEF WorkInv

(* A step of one call, seen from the others.                               *)
LEMMA OneCallWorks ==
    ASSUME IInv, WInv, NEW r \in Replica, TypeOK', WorkInv(r)',
           \A q \in Replica \ {r} : Rests(q),
           record' = record \/ lock["schema"] = r
    PROVE  WInv'
<1>1. ASSUME NEW q \in Replica, q # r PROVE WorkInv(q)'
  <2>1. CallInv(q) /\ WorkInv(q) /\ Rests(q)
    BY <1>1 DEF IInv, WInv
  <2> QED
    BY <1>1, <2>1, Undisturbed
<1> QED
  BY <1>1 DEF WInv

(* What an answer is told for.                                             *)
Truthful(r, answer) ==
    /\ answer \in Answers \ {None}
    /\ answer \in {"busy", "refused", "no-drift", "error"} => landed[r] = {}
    /\ answer = "applied" => at[r] > Len(plan[r])
    /\ answer = "partially-applied" => Completed(r) # {}

LEMMA AnsweringTruly ==
    ASSUME IInv, IInv', WInv, NEW r \in Replica, NEW answer, Answer(r, answer),
           Truthful(r, answer), flight[r] = Nothing, at[r] \notin landed[r],
           faults' \in 0..MaxFault, others' \in 0..MaxOther
    PROVE  WInv'
<1>1. TypeOK /\ WorkInv(r) /\ CallInv(r) /\ CallInv(r)'
  BY DEF WInv, IInv
<1>2. /\ pc'[r] = "idle" /\ told'[r] = answer /\ worked'[r] = {}
      /\ plan'[r] = plan[r] /\ at'[r] = at[r] /\ landed'[r] = landed[r]
      /\ flight'[r] = Nothing /\ reply'[r] = None /\ record' = record
  BY <1>1 DEF Answer, Ended, TypeOK
<1>3. TypeOK'
  <2>1. /\ pc' \in [Replica -> Home \cup {"idle", "currency", "lock", "admit",
                      "compare", "decide", "steps", "own", "run"}]
        /\ conn' \in [Replica -> {"closed", "open", "orphan"}]
        /\ worked' \in [Replica -> SUBSET Item]
        /\ reply' \in [Replica -> {None, "committed", "rolled-back"}]
        /\ told' \in [Replica -> Answers]
    BY <1>1 DEF Answer, Ended, TypeOK, Truthful
  <2>2. seen' \in [Replica -> [Item -> [id : Nat, shape : Nat]]]
    <3>1. [x \in Item |-> Absent] \in [Item -> [id : Nat, shape : Nat]]
      BY DEF Absent
    <3> QED
      BY <1>1, <3>1 DEF Answer, Ended, TypeOK
  <2>3. lock' \in [Home -> Replica \cup {None}]
    BY <1>1 DEF Answer, Unlocked, TypeOK
  <2>4. \A q \in Replica : pc'[q] # "idle" <=> conn'[q] = "open"
    BY DEF IInv, CallInv, FlightInv
  <2> QED
    BY <1>1, <2>1, <2>2, <2>3, <2>4 DEF Answer, TypeOK, catalogueVars
<1>4. \A q \in Replica \ {r} : Rests(q)
  BY <1>1 DEF Answer, Ended, TypeOK, Rests, Keeps
<1>5. WorkInv(r)'
  <2>1. Completed(r)' = Completed(r)
    BY <1>2 DEF Completed
  <2>2. flight'[r].role \notin Work /\ flight'[r].role # "adopt"
    BY <1>2, Constants DEF Work, Changes
  <2>3. PlaceInv(r)'
    BY <1>2, <2>2 DEF PlaceInv
  <2>4. LandedInv(r)'
    BY <1>1, <1>2, <2>1, <2>2 DEF WorkInv, LandedInv
  <2>5. ToldInv(r)'
    BY <1>2, <2>1 DEF ToldInv, Truthful
  <2>6. WorkedInv(r)' /\ AdoptInv(r)'
    BY <1>1, <1>2, <2>2 DEF WorkInv, WorkedInv, AdoptInv, MayAdopt
  <2> QED
    BY <2>3, <2>4, <2>5, <2>6 DEF WorkInv
<1> QED
  BY <1>2, <1>3, <1>4, <1>5, OneCallWorks

(* A call that is not running yet has done nothing.                        *)
LEMMA NothingYet ==
    ASSUME WInv, NEW r \in Replica, pc[r] \notin {"run", "idle"}
    PROVE  /\ at[r] = 1 /\ landed[r] = {} /\ at[r] \notin landed[r]
           /\ \A answer \in {"busy", "refused", "no-drift", "error"} :
                  Truthful(r, answer)
BY DEF WInv, WorkInv, PlaceInv, Truthful, Answers, None

(* A call whose transaction fails has not committed it.                    *)
LEMMA FailingTruly ==
    ASSUME WInv, NEW r \in Replica, pc[r] = "run", reply[r] # "committed"
    PROVE  /\ at[r] \notin landed[r]
           /\ Truthful(r, Failure(r)) /\ Truthful(r, "adoption-refused")
           /\ at[r] > Len(plan[r]) => Truthful(r, "applied")
<1>1. at[r] \notin landed[r]
  BY DEF WInv, WorkInv, LandedInv
<1>2. /\ Failure(r) \in {"application-step-failed", "execution-refused",
                         "partially-applied"}
      /\ Failure(r) = "partially-applied" => Completed(r) # {}
  BY DEF Failure
<1> QED
  BY <1>1, <1>2 DEF Truthful, Answers, None

(* A call that moves on before it runs.                                    *)
LEMMA Moving ==
    ASSUME IInv, IInv', WInv, NEW r \in Replica, TypeOK',
           pc[r] \notin {"run", "idle"},
           pc'[r] # "idle",
           at'[r] = at[r], landed'[r] = landed[r], told'[r] = told[r],
           worked'[r] = {}, record' = record, flight'[r].role \notin Work,
           pc'[r] = "run" => reply'[r] = None,
           WellFormed(plan'[r]),
           pc'[r] \in {"steps", "own", "run"} =>
               \A b \in Values(plan'[r]) : MayAdopt(r, b),
           \A q \in Replica \ {r} : Rests(q)
    PROVE  WInv'
<1>1. /\ at'[r] = 1 /\ landed'[r] = {} /\ told'[r] = None
  BY DEF WInv, WorkInv, PlaceInv, ToldInv
<1>2. Completed(r)' = {}
  BY <1>1 DEF Completed
<1>3. /\ Len(plan'[r]) \in Nat /\ DOMAIN plan'[r] = 1..Len(plan'[r])
      /\ \A i \in DOMAIN plan'[r] : plan'[r][i].of # {}
  BY DEF WellFormed, Shaped
<1>4. PlaceInv(r)'
  BY <1>1, <1>3 DEF PlaceInv
<1>5. LandedInv(r)' /\ ToldInv(r)'
  BY <1>1, <1>2 DEF LandedInv, ToldInv, None
<1>6. WorkedInv(r)'
  BY <1>1, <1>3 DEF WorkedInv, Current
<1>7. AdoptInv(r)'
  <2>1. \A b : MayAdopt(r, b)' <=> MayAdopt(r, b)
    BY DEF MayAdopt
  <2>2. MayAdopt(r, flight[r])' /\ flight'[r].role # "adopt"
    BY DEF MayAdopt, WInv, WorkInv, AdoptInv, Work, Changes
  <2>3. \A i \in DOMAIN plan'[r] : plan'[r][i] \in Values(plan'[r])
    BY DEF Values
  <2> QED
    BY <2>1, <2>2, <2>3 DEF AdoptInv, MayAdopt
<1> QED
  BY <1>4, <1>5, <1>6, <1>7, OneCallWorks DEF WorkInv

LEMMA UnstartedWork ==
    ASSUME WInv, NEW r \in Replica, pc[r] \notin {"run"}
    PROVE  worked[r] = {} /\ WellFormed(plan[r])
BY DEF WInv, WorkInv, WorkedInv, AdoptInv

(* A call starts.                                                          *)
LEMMA StartingWork ==
    ASSUME IInv, IInv', WInv, NEW r \in Replica, Start(r)
    PROVE  WInv'
<1>1. TypeOK /\ WorkInv(r) /\ CallInv(r)
  BY DEF WInv, IInv
<1>2. /\ flight[r] = Nothing /\ reply[r] = None /\ worked[r] = {}
      /\ pc'[r] \in {"lock", "currency"}
      /\ plan'[r] = <<>> /\ at'[r] = 1 /\ landed'[r] = {} /\ told'[r] = None
      /\ flight'[r] = Nothing /\ reply'[r] = None /\ worked'[r] = {}
      /\ record' = record
  BY <1>1 DEF Start, TypeOK, WorkInv, WorkedInv, CallInv, FlightInv,
              ledgerVars
<1>3. TypeOK'
  <2>1. /\ pc' \in [Replica -> Home \cup {"idle", "currency", "lock", "admit",
                      "compare", "decide", "steps", "own", "run"}]
        /\ conn' \in [Replica -> {"closed", "open", "orphan"}]
        /\ told' \in [Replica -> Answers]
        /\ at' \in [Replica -> Nat \ {0}]
        /\ landed' \in [Replica -> SUBSET Nat]
    BY <1>1 DEF Start, TypeOK, Answers
  <2>2. plan' \in [Replica -> Seq(Transaction)]
    <3>1. <<>> \in Seq(Transaction)
      OBVIOUS
    <3> QED
      BY <1>1, <3>1 DEF Start, TypeOK
  <2>3. \A q \in Replica : pc'[q] # "idle" <=> conn'[q] = "open"
    BY DEF IInv, CallInv, FlightInv
  <2> QED
    BY <1>1, <2>1, <2>2, <2>3
       DEF Start, TypeOK, catalogueVars, ledgerVars
<1>4. \A q \in Replica \ {r} : Rests(q)
  BY <1>1 DEF Start, TypeOK, Rests, Keeps
<1>5. WorkInv(r)'
  <2>1. Completed(r)' = {}
    BY <1>2 DEF Completed
  <2>2. flight'[r].role \notin Work /\ flight'[r].role # "adopt"
    BY <1>2, Constants DEF Work, Changes
  <2>3. PlaceInv(r)' /\ LandedInv(r)' /\ ToldInv(r)'
    BY <1>2, <2>1, <2>2 DEF PlaceInv, LandedInv, ToldInv, None
  <2>4. WorkedInv(r)' /\ AdoptInv(r)'
    BY <1>2, <2>2, EmptyWellFormed DEF WorkedInv, AdoptInv, MayAdopt
  <2> QED
    BY <2>3, <2>4 DEF WorkInv
<1> QED
  BY <1>2, <1>3, <1>4, <1>5, OneCallWorks

(* A step to another place, the rest of the state as it was.               *)
LEMMA PlacesAreTypes ==
    ASSUME TypeOK, IInv', NEW r \in Replica, NEW place,
           place \in Home \cup {"currency", "lock", "admit", "compare",
                                "decide", "steps", "own", "run"},
           Goto(r, place)
    PROVE  /\ pc' \in [Replica -> Home \cup {"idle", "currency", "lock",
                   "admit", "compare", "decide", "steps", "own", "run"}]
           /\ conn' = conn /\ worked' = worked /\ told' = told
           /\ pc'[r] = place /\ \A q \in Replica \ {r} : pc'[q] = pc[q]
           /\ \A q \in Replica : pc'[q] # "idle" <=> conn'[q] = "open"
<1>1. \A q \in Replica : pc'[q] # "idle" <=> conn'[q] = "open"
  BY DEF IInv, CallInv, FlightInv
<1> QED
  BY <1>1 DEF Goto, TypeOK

LEMMA GoingOn ==
    ASSUME IInv, IInv', WInv, NEW r \in Replica, NEW place,
           pc[r] \notin {"run", "idle"},
           place \in Home \cup {"currency", "lock", "admit", "compare",
                                "decide", "own"},
           place = "own" => pc[r] = "steps",
           Goto(r, place), flight[r].role \notin Work,
           reply' \in [Replica -> {None, "committed", "rolled-back"}],
           \A q \in Replica \ {r} : reply'[q] = reply[q],
           lock' \in [Home -> Replica \cup {None}],
           seen' \in [Replica -> [Item -> [id : Nat, shape : Nat]]],
           UNCHANGED <<catalogueVars, record, ledger, claim, recorded, ran,
                       healthy, plan, at, flight, landed, faults, others>>
    PROVE  WInv'
<1>1. TypeOK /\ WorkInv(r) /\ worked[r] = {} /\ WellFormed(plan[r])
  BY UnstartedWork DEF WInv
<1>2. /\ pc' \in [Replica -> Home \cup {"idle", "currency", "lock",
                   "admit", "compare", "decide", "steps", "own", "run"}]
      /\ conn' = conn /\ worked' = worked /\ told' = told
      /\ pc'[r] = place /\ \A q \in Replica \ {r} : pc'[q] = pc[q]
      /\ \A q \in Replica : pc'[q] # "idle" <=> conn'[q] = "open"
  BY <1>1, PlacesAreTypes
<1>3. TypeOK'
  BY <1>1, <1>2 DEF TypeOK, catalogueVars
<1>4. \A q \in Replica \ {r} : Rests(q)
  BY <1>2 DEF Rests, Keeps
<1>5. place # "idle" /\ place # "run"
  BY DEF Home
<1>6. pc'[r] \in {"steps", "own", "run"} =>
          \A b \in Values(plan'[r]) : MayAdopt(r, b)
  <2> SUFFICES ASSUME place = "own"
               PROVE  \A b \in Values(plan[r]) : MayAdopt(r, b)
    BY <1>2 DEF Home
  <2>1. pc[r] = "steps" /\ at[r] = 1 /\ landed[r] = {}
    BY <1>1 DEF WorkInv, PlaceInv
  <2>2. DOMAIN plan[r] \subseteq Nat \ {0}
    BY <1>1 DEF WellFormed
  <2>3. ASSUME NEW i \in DOMAIN plan[r] PROVE MayAdopt(r, plan[r][i])
    <3>1. ~(i < at[r]) /\ i \notin landed[r]
      BY <2>1, <2>2
    <3> QED
      BY <1>1, <2>1, <3>1 DEF WorkInv, AdoptInv
  <2> QED
    BY <2>3 DEF Values
<1> QED
  BY <1>1, <1>2, <1>3, <1>4, <1>5, <1>6, Moving

(* What is on its way before a call runs.                                  *)
LEMMA OnItsWay ==
    ASSUME IInv, NEW r \in Replica
    PROVE  /\ pc[r] \in Home => flight[r].role \notin Work
           /\ pc[r] \notin Home \cup {"run", "idle"} =>
                  flight[r] = Nothing /\ reply[r] = None
           /\ reply[r] # None => flight[r] = Nothing
           /\ Nothing.role \notin Work
<1>1. CallInv(r)
  BY DEF IInv
<1> QED
  BY <1>1, Constants DEF CallInv, FlightInv

(* The ledger is initialized, its lock taken, the call admitted.           *)
LEMMA BeginningWork ==
    ASSUME IInv, IInv', WInv, NEW r \in Replica,
           \/ ReadCurrency(r) \/ LockLedger(r) \/ LedgerBusy(r) \/ Admit(r)
           \/ Compare(r)
    PROVE  WInv'
<1> USE OnItsWay
<1>1. /\ TypeOK /\ pc[r] \notin Home \cup {"run", "idle"}
      /\ flight[r] = Nothing /\ reply[r] = None
  BY DEF WInv, ReadCurrency, LockLedger, LedgerBusy, Admit, Compare, Home
<1>2. faults \in 0..MaxFault /\ others \in 0..MaxOther
  BY <1>1 DEF TypeOK
<1>3. ASSUME NEW answer \in {"busy", "refused"}, Answer(r, answer),
             UNCHANGED <<faults, others>>
      PROVE  WInv'
  <2>1. Truthful(r, answer) /\ at[r] \notin landed[r]
    BY <1>1, NothingYet
  <2> QED
    BY <1>1, <1>2, <1>3, <2>1, AnsweringTruly
<1>4. /\ reply \in [Replica -> {None, "committed", "rolled-back"}]
      /\ lock \in [Home -> Replica \cup {None}]
      /\ seen \in [Replica -> [Item -> [id : Nat, shape : Nat]]]
      /\ live \in [Item -> [id : Nat, shape : Nat]]
  BY <1>1 DEF TypeOK
<1>5. CASE ReadCurrency(r)
  <2>1. PICK place \in {"lock", "meta"} : Goto(r, place)
    BY <1>5 DEF ReadCurrency
  <2>2. UNCHANGED <<catalogueVars, ledgerVars, healthy, seen, plan, at,
                    serverVars, faults, others>>
    BY <1>5 DEF ReadCurrency
  <2> QED
    BY <1>1, <1>4, <2>1, <2>2, GoingOn DEF ledgerVars, serverVars, Home
<1>6. CASE LockLedger(r)
  <2>1. lock' \in [Home -> Replica \cup {None}]
    BY <1>4, <1>6 DEF LockLedger
  <2> QED
    BY <1>1, <1>4, <1>6, <2>1, GoingOn DEF LockLedger, serverVars
<1>7. CASE LedgerBusy(r)
  BY <1>3, <1>7 DEF LedgerBusy
<1>8. CASE Admit(r)
  <2>1. CASE /\ Goto(r, "compare")
             /\ UNCHANGED <<catalogueVars, ledgerVars, healthy, seen, plan, at,
                            serverVars>>
    BY <1>1, <1>4, <1>8, <2>1, GoingOn DEF Admit, ledgerVars, serverVars
  <2> QED
    BY <1>3, <1>8, <2>1 DEF Admit
<1>9. CASE Compare(r)
  <2>1. seen' \in [Replica -> [Item -> [id : Nat, shape : Nat]]]
    BY <1>4, <1>9 DEF Compare
  <2> QED
    BY <1>1, <1>4, <1>9, <2>1, GoingOn DEF Compare, ledgerVars, serverVars
<1> QED
  BY <1>5, <1>6, <1>7, <1>8, <1>9

LEMMA InitializingWork ==
    ASSUME IInv, IInv', WInv, NEW r \in Replica, InitializeHome(r)
    PROVE  WInv'
<1> USE OnItsWay
<1> DEFINE home == pc[r]
<1>1. /\ TypeOK /\ home \in Home
      /\ flight[r] = Nothing /\ reply[r] = None
      /\ home \notin {"run", "idle"}
  BY DEF WInv, InitializeHome, Home
<1>2. /\ faults \in 0..MaxFault /\ others \in 0..MaxOther
      /\ UNCHANGED <<faults, others>>
  BY <1>1 DEF TypeOK, InitializeHome
<1>3. ASSUME NEW answer \in {"busy", "refused"}, Answer(r, answer)
      PROVE  WInv'
  <2>1. Truthful(r, answer) /\ at[r] \notin landed[r]
    BY <1>1, NothingYet
  <2> QED
    BY <1>1, <1>2, <1>3, <2>1, AnsweringTruly
<1>4. /\ reply \in [Replica -> {None, "committed", "rolled-back"}]
      /\ lock \in [Home -> Replica \cup {None}]
      /\ seen \in [Replica -> [Item -> [id : Nat, shape : Nat]]]
  BY <1>1 DEF TypeOK
<1>5. CASE /\ Goto(r, NextHome(home))
           /\ UNCHANGED <<catalogueVars, ledgerVars, healthy, seen, plan, at,
                          serverVars>>
  <2>1. NextHome(home) \in {"schema", "lock"}
    BY DEF NextHome
  <2> QED
    BY <1>1, <1>2, <1>4, <1>5, <2>1, GoingOn DEF ledgerVars, serverVars, Home
<1>6. CASE /\ lock[home] = None
           /\ lock' = [lock EXCEPT ![home] = r]
           /\ flight' = [flight EXCEPT ![r] =
                  [role |-> home, of |-> {}, as |-> 0]]
           /\ UNCHANGED <<catalogueVars, record, ledger, claim, recorded, ran,
                          healthy, callVars, reply, landed>>
  <2>1. TypeOK'
    <3>1. [role |-> home, of |-> {}, as |-> 0] \in Transaction
      BY <1>1 DEF Transaction
    <3>2. flight' \in [Replica -> Transaction]
      BY <1>1, <1>6, <3>1 DEF TypeOK
    <3>3. lock' \in [Home -> Replica \cup {None}]
      BY <1>1, <1>4, <1>6
    <3> QED
      BY <1>1, <1>2, <1>6, <3>2, <3>3 DEF TypeOK, catalogueVars, callVars
  <2>2. \A q \in Replica \ {r} : Rests(q)
    BY <1>1, <1>6 DEF TypeOK, Rests, Keeps, callVars
  <2>3. flight'[r].role = home /\ home \notin Work
    BY <1>1, <1>6, Constants DEF TypeOK
  <2>4. worked[r] = {} /\ WellFormed(plan[r])
    BY <1>1, UnstartedWork
  <2>5. /\ pc' = pc /\ worked' = worked /\ plan' = plan /\ at' = at
        /\ landed' = landed /\ told' = told /\ record' = record
    BY <1>6 DEF callVars
  <2>6. pc[r] \notin {"steps", "own", "run", "idle"}
    BY <1>1 DEF Home
  <2> HIDE DEF home
  <2> QED
    BY <1>1, <2>1, <2>2, <2>3, <2>4, <2>5, <2>6, Moving
<1> QED
  BY <1>3, <1>5, <1>6 DEF InitializeHome

(* The plan is made.                                                       *)
LEMMA PlanningWork ==
    ASSUME IInv, IInv', WInv, NEW r \in Replica,
           Decide(r) \/ PlanSteps(r) \/ Own(r)
    PROVE  WInv'
<1> USE OnItsWay
<1>1. /\ TypeOK /\ pc[r] \notin Home \cup {"run", "idle"}
      /\ flight[r] = Nothing /\ reply[r] = None
      /\ worked[r] = {} /\ WellFormed(plan[r])
  BY UnstartedWork DEF WInv, Decide, PlanSteps, Own, Home
<1>2. /\ faults \in 0..MaxFault /\ others \in 0..MaxOther
      /\ UNCHANGED <<faults, others>>
  BY <1>1 DEF TypeOK, Decide, PlanSteps, Own
<1>3. ASSUME NEW answer \in {"refused", "no-drift"}, Answer(r, answer)
      PROVE  WInv'
  <2>1. Truthful(r, answer) /\ at[r] \notin landed[r]
    BY <1>1, NothingYet
  <2> QED
    BY <1>1, <1>2, <1>3, <2>1, AnsweringTruly
<1>4. /\ reply \in [Replica -> {None, "committed", "rolled-back"}]
      /\ lock \in [Home -> Replica \cup {None}]
      /\ seen \in [Replica -> [Item -> [id : Nat, shape : Nat]]]
      /\ [x \in Item |-> Absent] \in [Item -> [id : Nat, shape : Nat]]
  BY <1>1 DEF TypeOK, Absent
<1>5. ASSUME NEW place \in {"steps", "run"}, NEW s,
             Goto(r, place), plan' = [plan EXCEPT ![r] = s],
             WellFormed(s), \A b \in Values(s) : MayAdopt(r, b),
             seen' \in [Replica -> [Item -> [id : Nat, shape : Nat]]],
             UNCHANGED <<catalogueVars, ledgerVars, healthy, at, serverVars>>
      PROVE  WInv'
  <2>1. s \in Seq(Transaction)
    BY <1>5 DEF WellFormed, Shaped
  <2>2. plan' \in [Replica -> Seq(Transaction)] /\ plan'[r] = s
    BY <1>1, <1>5, <2>1 DEF TypeOK
  <2>3. /\ pc' \in [Replica -> Home \cup {"idle", "currency", "lock",
                   "admit", "compare", "decide", "steps", "own", "run"}]
        /\ conn' = conn /\ worked' = worked /\ told' = told
        /\ pc'[r] = place /\ \A q \in Replica \ {r} : pc'[q] = pc[q]
        /\ \A q \in Replica : pc'[q] # "idle" <=> conn'[q] = "open"
    BY <1>1, <1>5, PlacesAreTypes
  <2>4. TypeOK'
    BY <1>1, <1>2, <1>5, <2>2, <2>3
       DEF TypeOK, catalogueVars, ledgerVars, serverVars
  <2>5. \A q \in Replica \ {r} : Rests(q)
    BY <1>1, <1>5, <2>3 DEF TypeOK, Rests, Keeps, serverVars
  <2>6. /\ at' = at /\ landed' = landed /\ flight' = flight /\ reply' = reply
        /\ record' = record
    BY <1>5 DEF serverVars, ledgerVars
  <2> QED
    BY <1>1, <1>5, <2>2, <2>3, <2>4, <2>5, <2>6, Moving
<1>6. CASE Decide(r)
  <2>1. CASE /\ plan' = [plan EXCEPT ![r] = Generated(r)]
             /\ Goto(r, "steps")
             /\ UNCHANGED <<catalogueVars, ledgerVars, healthy, seen, at,
                            serverVars>>
    <3>1. /\ WellFormed(Generated(r))
          /\ \A b \in Values(Generated(r)) : MayAdopt(r, b)
      BY <1>1, GeneratedWellFormed
    <3> QED
      BY <1>4, <1>5, <2>1, <3>1
  <2> QED
    BY <1>3, <1>6, <2>1 DEF Decide
<1>7. CASE PlanSteps(r)
  <2>1. CASE /\ Goto(r, "own")
             /\ UNCHANGED <<catalogueVars, ledgerVars, healthy, seen, plan, at,
                            serverVars>>
    <3>1. pc[r] = "steps"
      BY <1>7 DEF PlanSteps
    <3> QED
      BY <1>1, <1>2, <1>4, <2>1, <3>1, GoingOn DEF ledgerVars, serverVars
  <2> QED
    BY <1>3, <1>7, <2>1 DEF PlanSteps
<1>8. CASE Own(r)
  <2>1. CASE /\ plan' = [plan EXCEPT ![r] = Whole(plan[r])]
             /\ Goto(r, "run")
             /\ seen' = [seen EXCEPT ![r] = [x \in Item |-> Absent]]
             /\ UNCHANGED <<catalogueVars, ledgerVars, healthy, at,
                            serverVars>>
    <3>1. pc[r] = "own" /\ at[r] = 1 /\ landed[r] = {}
      BY <1>1, <1>8, NothingYet DEF Own
    <3>2. DOMAIN plan[r] \subseteq Nat \ {0}
      BY <1>1 DEF WellFormed
    <3>3. \A b \in Values(plan[r]) : MayAdopt(r, b)
      <4>1. ASSUME NEW i \in DOMAIN plan[r] PROVE MayAdopt(r, plan[r][i])
        <5>1. ~(i < at[r]) /\ i \notin landed[r]
          BY <3>1, <3>2
        <5> QED
          BY <3>1, <5>1 DEF WInv, WorkInv, AdoptInv
      <4> QED
        BY <4>1 DEF Values
    <3>4. /\ WellFormed(Whole(plan[r]))
          /\ \A b \in Values(Whole(plan[r])) : MayAdopt(r, b)
      BY <1>1, <3>3, WholeWellFormed
    <3>5. seen' \in [Replica -> [Item -> [id : Nat, shape : Nat]]]
      BY <1>4, <2>1
    <3> QED
      BY <1>5, <2>1, <3>4, <3>5
  <2> QED
    BY <1>3, <1>8, <2>1 DEF Own
<1> QED
  BY <1>6, <1>7, <1>8

(* The transaction a running call is at.                                   *)
LEMMA TheCurrentOne ==
    ASSUME WInv, NEW r \in Replica, pc[r] = "run", at[r] <= Len(plan[r])
    PROVE  /\ at[r] \in DOMAIN plan[r] /\ Shaped(Current(r))
           /\ at[r] \in Nat \ {0} /\ Len(plan[r]) \in Nat
           /\ DOMAIN plan[r] = 1..Len(plan[r])
<1>1. WellFormed(plan[r]) /\ at[r] \in Nat \ {0}
  BY DEF WInv, WorkInv, AdoptInv, TypeOK
<1>2. Len(plan[r]) \in Nat /\ DOMAIN plan[r] = 1..Len(plan[r])
  BY <1>1 DEF WellFormed
<1> QED
  BY <1>1, <1>2 DEF WellFormed, Current

(* The call goes on to its next transaction.                               *)
LEMMA AdvancingWork ==
    ASSUME IInv, IInv', WInv, NEW r \in Replica, pc[r] = "run",
           flight[r] = Nothing, at[r] <= Len(plan[r]), Advance(r),
           Current(r).role \in Changes => at[r] \in landed[r],
           reply' \in [Replica -> {None, "committed", "rolled-back"}],
           reply'[r] = None,
           \A q \in Replica \ {r} : reply'[q] = reply[q],
           UNCHANGED <<catalogueVars, ledgerVars, healthy, pc, conn, seen,
                       plan, told, flight, landed, faults, others>>
    PROVE  WInv'
<1>1. /\ TypeOK /\ WorkInv(r)
      /\ at[r] \in DOMAIN plan[r] /\ at[r] \in Nat \ {0}
      /\ Len(plan[r]) \in Nat /\ DOMAIN plan[r] = 1..Len(plan[r])
  BY TheCurrentOne DEF WInv
<1>2. /\ at'[r] = at[r] + 1 /\ worked'[r] = {}
      /\ \A q \in Replica \ {r} : Rests(q)
  BY <1>1 DEF Advance, TypeOK, Rests, Keeps
<1>3. TypeOK'
  <2>1. at' \in [Replica -> Nat \ {0}] /\ worked' \in [Replica -> SUBSET Item]
    BY <1>1 DEF Advance, TypeOK
  <2> QED
    BY <1>1, <2>1 DEF TypeOK, catalogueVars, ledgerVars
<1>4. WorkInv(r)'
  <2>1. Completed(r)' = Completed(r) \cup
            (IF Current(r).role \in Changes THEN {at[r]} ELSE {})
    <3>1. 1..(at'[r] - 1) = (1..(at[r] - 1)) \cup {at[r]}
      BY <1>1, <1>2
    <3>2. Completed(r)' = {i \in (1..(at[r] - 1)) \cup {at[r]} :
                               plan[r][i].role \in Changes}
      BY <3>1 DEF Completed, Changes
    <3> QED
      BY <3>2 DEF Completed, Current
  <2>2. /\ pc'[r] = "run" /\ plan'[r] = plan[r] /\ landed'[r] = landed[r]
        /\ flight'[r] = Nothing /\ told'[r] = told[r] /\ record' = record
    BY DEF ledgerVars
  <2>3. flight'[r].role \notin Work /\ flight'[r].role # "adopt"
    BY <2>2, Constants DEF Work, Changes
  <2>4. PlaceInv(r)'
    <3>1. at[r] + 1 \in 1..(Len(plan[r]) + 1)
      BY <1>1
    <3> QED
      BY <1>2, <2>2, <2>3, <3>1 DEF PlaceInv
  <2>5. LandedInv(r)'
    <3>1. /\ Completed(r) \subseteq landed[r] /\ landed[r] \subseteq 1..at[r]
      BY <1>1 DEF WorkInv, LandedInv
    <3>2. /\ landed[r] \subseteq 1..(at[r] + 1) /\ at[r] + 1 \notin landed[r]
      BY <1>1, <3>1
    <3> QED
      BY <1>2, <2>1, <2>2, <3>1, <3>2 DEF LandedInv, None
  <2>6. ToldInv(r)'
    BY <1>1, <2>2 DEF WorkInv, ToldInv, None
  <2>7. WorkedInv(r)'
    <3>1. at[r] + 1 \in DOMAIN plan[r] => plan[r][at[r] + 1].of # {}
      BY <1>1 DEF WorkInv, AdoptInv, WellFormed, Shaped
    <3> QED
      BY <1>2, <2>2, <3>1 DEF WorkedInv, Current
  <2>8. AdoptInv(r)'
    <3>1. \A b : MayAdopt(r, b)' <=> MayAdopt(r, b)
      BY <2>2 DEF MayAdopt
    <3>2. \A i \in DOMAIN plan[r] : i < at[r] => i < at[r] + 1
      BY <1>1
    <3>3. MayAdopt(r, flight[r])'
      BY <2>3 DEF MayAdopt
    <3> QED
      BY <1>1, <1>2, <2>2, <3>1, <3>2, <3>3 DEF WorkInv, AdoptInv
  <2> QED
    BY <2>4, <2>5, <2>6, <2>7, <2>8 DEF WorkInv
<1> QED
  BY <1>2, <1>3, <1>4, OneCallWorks DEF ledgerVars

(* The call sends its COMMIT.                                              *)
LEMMA CommittingWork ==
    ASSUME IInv, IInv', WInv, NEW r \in Replica, Running(r), Commit(r),
           Current(r).role \in Work,
           worked' \in [Replica -> SUBSET Item],
           \A q \in Replica \ {r} : worked'[q] = worked[q],
           \/ worked'[r] = {}
           \/ /\ Current(r).role = "create"
              /\ worked'[r] \subseteq Current(r).of,
           UNCHANGED <<faults, others>>
    PROVE  WInv'
<1>1. /\ TypeOK /\ WorkInv(r) /\ pc[r] = "run"
      /\ at[r] \in DOMAIN plan[r] /\ Shaped(Current(r))
      /\ flight[r] = Nothing /\ reply[r] = None
  BY TheCurrentOne DEF WInv, Running
<1>2. /\ flight' = [flight EXCEPT ![r] = Current(r)]
      /\ UNCHANGED <<catalogueVars, ledgerVars, healthy, pc, conn, seen, plan,
                     at, told, reply, landed>>
  BY DEF Commit
<1>3. TypeOK'
  <2>1. flight' \in [Replica -> Transaction]
    BY <1>1, <1>2 DEF TypeOK, Shaped
  <2> QED
    BY <1>1, <1>2, <2>1 DEF TypeOK, catalogueVars, ledgerVars
<1>4. flight'[r] = Current(r) /\ \A q \in Replica \ {r} : Rests(q)
  BY <1>1, <1>2 DEF TypeOK, Rests, Keeps
<1>5. WorkInv(r)'
  <2>1. Completed(r)' = Completed(r) /\ Current(r)' = Current(r)
    BY <1>2 DEF Completed, Current
  <2>2. Current(r) # Nothing
    BY Constants
  <2>3. PlaceInv(r)'
    BY <1>1, <1>2, <1>4, <2>1 DEF WorkInv, PlaceInv
  <2>4. LandedInv(r)'
    BY <1>1, <1>2, <2>1 DEF WorkInv, LandedInv, None
  <2>5. ToldInv(r)'
    BY <1>1, <1>2, <2>1 DEF WorkInv, ToldInv
  <2>6. WorkedInv(r)'
    BY <1>1, <1>2, <1>4, <2>1, <2>2 DEF WorkedInv
  <2>7. AdoptInv(r)'
    <3>1. \A b : MayAdopt(r, b)' <=> MayAdopt(r, b)
      BY <1>2 DEF MayAdopt, ledgerVars
    <3>2. MayAdopt(r, Current(r))
      <4>1. ~(at[r] < at[r]) /\ at[r] \notin landed[r]
        BY <1>1 DEF WorkInv, LandedInv, None, TypeOK
      <4> QED
        BY <1>1, <4>1 DEF WorkInv, AdoptInv, Current
    <3> QED
      BY <1>1, <1>2, <1>4, <3>1, <3>2 DEF WorkInv, AdoptInv
  <2> QED
    BY <2>3, <2>4, <2>5, <2>6, <2>7 DEF WorkInv
<1> QED
  BY <1>2, <1>3, <1>4, <1>5, OneCallWorks DEF ledgerVars

(* The first of the items that are left.                                   *)
LEMMA FirstLeft ==
    ASSUME NEW S, S \subseteq Item, S # {}
    PROVE  (CHOOSE x \in S : \A y \in S : x <= y) \in S
<1>1. \E x \in S : \A y \in S : x <= y
  BY LeastNumber, ItemAssumption
<1> QED
  BY <1>1

(* The call executes the transactions of its plan.                         *)
LEMMA ExecutingWork ==
    ASSUME IInv, IInv', WInv, NEW r \in Replica,
           \/ RunStep(r) \/ InspectAdoptions(r) \/ Adopt(r) \/ Create(r)
           \/ Extend(r)
    PROVE  WInv'
<1>1. /\ TypeOK /\ Running(r) /\ WorkInv(r)
      /\ pc[r] = "run" /\ flight[r] = Nothing /\ reply[r] = None
      /\ at[r] <= Len(plan[r])
      /\ at[r] \in DOMAIN plan[r] /\ Shaped(Current(r))
  BY TheCurrentOne
     DEF WInv, RunStep, InspectAdoptions, Adopt, Create, Extend, Running
<1>2. /\ faults \in 0..MaxFault /\ others \in 0..MaxOther
      /\ UNCHANGED <<faults, others>>
  BY <1>1 DEF TypeOK, RunStep, InspectAdoptions, Adopt, Create, Extend
<1>3. ASSUME NEW answer \in {Failure(r), "adoption-refused"},
             Answer(r, answer)
      PROVE  WInv'
  <2>1. Truthful(r, answer) /\ at[r] \notin landed[r]
    BY <1>1, FailingTruly DEF None
  <2> QED
    BY <1>1, <1>2, <1>3, <2>1, AnsweringTruly
<1>4. ASSUME Advance(r), Current(r).role \notin Changes,
             UNCHANGED <<catalogueVars, ledgerVars, healthy, pc, conn, seen,
                         plan, told, serverVars>>
      PROVE  WInv'
  BY <1>1, <1>2, <1>4, AdvancingWork DEF serverVars, TypeOK
<1>5. ASSUME Commit(r), UNCHANGED worked, Current(r).role \in Work,
             Current(r).role # "create"
      PROVE  WInv'
  <2>1. worked[r] = {}
    BY <1>1, <1>5 DEF WorkInv, WorkedInv
  <2> QED
    BY <1>1, <1>2, <1>5, <2>1, CommittingWork DEF TypeOK
<1>6. CASE RunStep(r)
  BY <1>4, <1>5, <1>6 DEF RunStep, Work, Changes
<1>7. CASE InspectAdoptions(r)
  BY <1>3, <1>4, <1>7 DEF InspectAdoptions, Changes
<1>8. CASE Adopt(r)
  BY <1>3, <1>5, <1>8 DEF Adopt, Work, Changes
<1>9. CASE Extend(r)
  BY <1>3, <1>5, <1>9 DEF Extend, Work, Changes
<1>10. CASE Create(r)
  <2> DEFINE rest == Current(r).of \ worked[r]
  <2> DEFINE x == CHOOSE x \in rest : \A y \in rest : x <= y
  <2>1. /\ Current(r).role = "create"
        /\ \/ Answer(r, Failure(r))
           \/ /\ worked' = [worked EXCEPT ![r] = @ \cup {x}]
              /\ IF rest = {x}
                 THEN Commit(r)
                 ELSE UNCHANGED <<catalogueVars, ledgerVars, healthy, pc, conn,
                                  seen, plan, at, told, serverVars>>
    BY <1>10 DEF Create
  <2>2. x \in rest /\ Current(r).of \subseteq Item
    <3>1. Current(r).of \subseteq Item
      BY <1>1, <2>1 DEF Shaped
    <3>2. rest # {}
      BY <1>1 DEF WorkInv, WorkedInv
    <3> QED
      BY <3>1, <3>2, FirstLeft
  <2> HIDE DEF x
  <2>3. CASE Answer(r, Failure(r))
    BY <1>3, <2>3
  <2>4. CASE worked' = [worked EXCEPT ![r] = @ \cup {x}]
    <3>1. /\ worked' \in [Replica -> SUBSET Item]
          /\ \A q \in Replica \ {r} : worked'[q] = worked[q]
          /\ worked'[r] = worked[r] \cup {x}
          /\ worked'[r] \subseteq Current(r).of
      BY <1>1, <2>1, <2>2, <2>4 DEF TypeOK, WorkInv, WorkedInv
    <3>2. CASE Commit(r)
      BY <1>1, <1>2, <2>1, <3>1, <3>2, CommittingWork DEF Work, Changes
    <3>3. CASE /\ rest # {x}
               /\ UNCHANGED <<catalogueVars, ledgerVars, healthy, pc, conn,
                              seen, plan, at, told, serverVars>>
      <4>1. TypeOK'
        BY <1>1, <1>2, <3>1, <3>3
           DEF TypeOK, catalogueVars, ledgerVars, serverVars
      <4>2. /\ \A q \in Replica \ {r} : Rests(q)
            /\ record' = record
        BY <3>1, <3>3 DEF Rests, Keeps, ledgerVars, serverVars
      <4>3. Completed(r)' = Completed(r) /\ Current(r)' = Current(r)
        BY <3>3 DEF Completed, Current
      <4>4. PlaceInv(r)' /\ LandedInv(r)' /\ ToldInv(r)'
        BY <1>1, <3>3, <4>3
           DEF WorkInv, PlaceInv, LandedInv, ToldInv, serverVars
      <4>5. WorkedInv(r)'
        <5>1. Current(r).of \ worked'[r] # {}
          BY <2>2, <3>1, <3>3
        <5> QED
          BY <1>1, <2>1, <3>1, <3>3, <4>3, <5>1 DEF WorkedInv
      <4>6. AdoptInv(r)'
        <5>1. \A b : MayAdopt(r, b)' <=> MayAdopt(r, b)
          BY <3>3 DEF MayAdopt, ledgerVars
        <5> QED
          BY <1>1, <3>3, <5>1 DEF WorkInv, AdoptInv, serverVars
      <4> QED
        BY <4>1, <4>2, <4>4, <4>5, <4>6, OneCallWorks DEF WorkInv
    <3> QED
      BY <2>1, <2>3, <3>2, <3>3
  <2> QED
    BY <2>1, <2>3, <2>4
<1> QED
  BY <1>6, <1>7, <1>8, <1>9, <1>10

(* The call ends, gets an answer to its COMMIT, or fails at a statement.   *)
LEMMA AnsweredWork ==
    ASSUME IInv, IInv', WInv, NEW r \in Replica,
           Finish(r) \/ Receive(r) \/ Fails(r)
    PROVE  WInv'
<1>1. TypeOK /\ WorkInv(r) /\ CallInv(r)
  BY DEF WInv, IInv
<1>2. faults \in 0..MaxFault /\ others \in 0..MaxOther
  BY <1>1 DEF TypeOK
<1>3. CASE Finish(r)
  <2>1. WellFormed(plan[r]) /\ Len(plan[r]) \in Nat /\ at[r] \in Nat
    BY <1>1 DEF WorkInv, AdoptInv, TypeOK
  <2>2. flight[r] = Nothing /\ reply[r] = None
    BY <1>1, <1>3, <2>1
       DEF Finish, CallInv, FlightInv, WorkInv, PlaceInv
  <2>3. Truthful(r, "applied") /\ at[r] \notin landed[r]
    BY <1>3, <2>2, FailingTruly DEF Finish, None
  <2> QED
    BY <1>2, <1>3, <2>2, <2>3, AnsweringTruly DEF Finish
<1>4. CASE Fails(r)
  <2>1. /\ flight[r] = Nothing /\ reply[r] = None /\ pc[r] # "idle"
        /\ others' \in 0..MaxOther
    BY <1>2, <1>4 DEF Fails
  <2>2. faults' \in 0..MaxFault
    BY <1>2, <1>4, BoundAssumption DEF Fails
  <2>3. CASE pc[r] = "run"
    <3>1. Truthful(r, Failure(r)) /\ at[r] \notin landed[r]
      BY <2>1, <2>3, FailingTruly DEF None
    <3>2. Answer(r, Failure(r))
      BY <1>4, <2>3 DEF Fails
    <3> QED
      BY <2>1, <2>2, <3>1, <3>2, AnsweringTruly
  <2>4. CASE pc[r] # "run"
    <3>1. PICK answer \in {"refused", "error"} : Answer(r, answer)
      BY <1>4, <2>4 DEF Fails
    <3>2. Truthful(r, answer) /\ at[r] \notin landed[r]
      BY <2>1, <2>4, NothingYet
    <3> QED
      BY <2>1, <2>2, <3>1, <3>2, AnsweringTruly
  <2> QED
    BY <2>3, <2>4
<1>5. CASE Receive(r)
  <2>1. /\ pc[r] \in Home \cup {"run"} /\ flight[r] = Nothing
        /\ UNCHANGED <<faults, others>>
    BY <1>1, <1>5 DEF Receive, CallInv, FlightInv, None
  <2>2. CASE reply[r] = "rolled-back"
    <3>1. CASE pc[r] = "run"
      <4>1. Truthful(r, Failure(r)) /\ at[r] \notin landed[r]
        BY <2>2, <3>1, FailingTruly
      <4>2. Answer(r, Failure(r))
        BY <1>5, <2>2, <3>1 DEF Receive
      <4> QED
        BY <1>2, <2>1, <4>1, <4>2, AnsweringTruly
    <3>2. CASE pc[r] # "run"
      <4>1. Truthful(r, "refused") /\ at[r] \notin landed[r]
        BY <2>1, <3>2, NothingYet DEF Home
      <4>2. Answer(r, "refused")
        BY <1>5, <2>2, <3>2 DEF Receive
      <4> QED
        BY <1>2, <2>1, <4>1, <4>2, AnsweringTruly
    <3> QED
      BY <3>1, <3>2
  <2>3. CASE reply[r] = "committed"
    <3>1. /\ reply' = [reply EXCEPT ![r] = None]
          /\ UNCHANGED <<catalogueVars, ledgerVars, healthy, seen, plan,
                         flight, landed>>
      BY <1>5, <2>3 DEF Receive
    <3>2. /\ reply' \in [Replica -> {None, "committed", "rolled-back"}]
          /\ reply'[r] = None
          /\ \A q \in Replica \ {r} : reply'[q] = reply[q]
      BY <1>1, <3>1 DEF TypeOK
    <3>3. CASE pc[r] = "run"
      <4>1. Advance(r) /\ UNCHANGED <<pc, conn, told>>
        BY <1>5, <2>3, <3>3 DEF Receive
      <4>2. at[r] <= Len(plan[r]) /\ at[r] \in landed[r]
        BY <1>1, <2>3, <3>3 DEF WorkInv, PlaceInv, LandedInv, None
      <4> QED
        BY <2>1, <3>1, <3>2, <3>3, <4>1, <4>2, AdvancingWork
    <3>4. CASE pc[r] # "run"
      <4>1. Goto(r, NextHome(pc[r])) /\ UNCHANGED at
        BY <1>5, <2>3, <3>4 DEF Receive
      <4>2. NextHome(pc[r]) \in {"schema", "lock"} /\ pc[r] # "idle"
        BY <2>1, <3>4 DEF NextHome, Home
      <4>3. /\ lock \in [Home -> Replica \cup {None}]
            /\ seen \in [Replica -> [Item -> [id : Nat, shape : Nat]]]
            /\ flight[r].role \notin Work
        BY <1>1, <2>1, OnItsWay DEF TypeOK
      <4> QED
        BY <2>1, <3>1, <3>2, <3>4, <4>1, <4>2, <4>3, GoingOn
           DEF ledgerVars, Home
    <3> QED
      BY <3>3, <3>4
  <2> QED
    BY <1>5, <2>2, <2>3 DEF Receive
<1> QED
  BY <1>3, <1>4, <1>5

(* The session of a call is lost, or the server ends it.                   *)
LEMMA SessionEndsWork ==
    ASSUME IInv, IInv', WInv, NEW r \in Replica,
           LoseSession(r) \/ BackendEnds(r)
    PROVE  WInv'
<1>1. /\ TypeOK /\ WorkInv(r) /\ CallInv(r)
      /\ \A q \in Replica : pc'[q] # "idle" <=> conn'[q] = "open"
  BY DEF WInv, IInv, CallInv, FlightInv
<1>2. CASE BackendEnds(r)
  <2>1. TypeOK'
    <3>1. /\ conn' \in [Replica -> {"closed", "open", "orphan"}]
          /\ lock' \in [Home -> Replica \cup {None}]
      BY <1>1, <1>2 DEF BackendEnds, Unlocked, TypeOK
    <3> QED
      BY <1>1, <1>2, <3>1 DEF BackendEnds, TypeOK, catalogueVars, serverVars
  <2>2. \A q \in Replica \ {r} : Rests(q)
    BY <1>1, <1>2 DEF BackendEnds, TypeOK, Rests, Keeps, serverVars
  <2>3. UNCHANGED <<record, pc, plan, at, worked, told, flight, reply, landed>>
    BY <1>2 DEF BackendEnds, serverVars
  <2>4. /\ Completed(r)' = Completed(r) /\ Current(r)' = Current(r)
        /\ \A b : MayAdopt(r, b)' <=> MayAdopt(r, b)
    BY <2>3 DEF Completed, Current, MayAdopt
  <2>5. WorkInv(r)'
    BY <1>1, <2>3, <2>4 DEF WorkInv, PlaceInv, LandedInv, ToldInv, WorkedInv,
                            AdoptInv
  <2> QED
    BY <2>1, <2>2, <2>3, <2>5, OneCallWorks
<1>3. CASE LoseSession(r)
  <2>1. PICK answer \in {Lost(r), "died"} : Ended(r, answer)
    BY <1>3 DEF LoseSession
  <2>2. /\ pc[r] # "idle" /\ told[r] = None
        /\ pc'[r] = "idle" /\ told'[r] = answer /\ worked'[r] = {}
        /\ plan'[r] = plan[r] /\ at'[r] = at[r] /\ landed'[r] = landed[r]
        /\ flight' = flight /\ reply'[r] = None /\ record' = record
    BY <1>1, <1>3, <2>1
       DEF LoseSession, Ended, TypeOK, ledgerVars, WorkInv, ToldInv
  <2>3. pc[r] = "run" => /\ at[r] \in Nat /\ Len(plan[r]) \in Nat
                         /\ DOMAIN plan[r] = 1..Len(plan[r])
    BY <1>1 DEF WorkInv, AdoptInv, WellFormed, TypeOK
  <2>4. /\ Truthful(r, answer)
        /\ flight[r].role \in Work \/ at[r] \in landed[r] =>
               answer \in {"transport-ambiguous", "died"}
    <3>1. CASE answer = "died"
      BY <3>1 DEF Truthful, Answers, None
    <3>2. CASE answer = Lost(r) /\ pc[r] # "run"
      <4>1. answer = "error" /\ at[r] \notin landed[r]
        BY <2>2, <3>2, NothingYet DEF Lost
      <4>2. flight[r].role \notin Work
        BY <1>1, <2>2, <3>2 DEF WorkInv, PlaceInv, None
      <4> QED
        BY <2>2, <3>2, <4>1, <4>2, NothingYet
    <3>3. CASE answer = Lost(r) /\ pc[r] = "run" /\ at[r] > Len(plan[r])
      <4>1. answer = "applied" /\ reply[r] = None
        BY <1>1, <2>3, <3>3 DEF Lost, WorkInv, PlaceInv
      <4>2. flight[r].role \notin Work
        BY <1>1, <2>3, <3>3 DEF WorkInv, PlaceInv
      <4> QED
        BY <3>3, <4>1, <4>2, FailingTruly DEF None
    <3>4. CASE answer = Lost(r) /\ pc[r] = "run" /\ ~(at[r] > Len(plan[r]))
      <4>1. CASE flight[r] # Nothing \/ reply[r] # None
        <5>1. answer = "transport-ambiguous"
          BY <3>4, <4>1 DEF Lost
        <5> QED
          BY <5>1 DEF Truthful, Answers, None
      <4>2. CASE flight[r] = Nothing /\ reply[r] = None
        <5>1. answer = Failure(r)
          BY <3>4, <4>2 DEF Lost
        <5> QED
          BY <3>4, <4>2, <5>1, FailingTruly, OnItsWay DEF None
      <4> QED
        BY <4>1, <4>2
    <3> QED
      BY <2>1, <3>1, <3>2, <3>3, <3>4
  <2>5. TypeOK'
    <3>1. /\ pc' \in [Replica -> Home \cup {"idle", "currency", "lock",
                   "admit", "compare", "decide", "steps", "own", "run"}]
          /\ conn' \in [Replica -> {"closed", "open", "orphan"}]
          /\ worked' \in [Replica -> SUBSET Item]
          /\ reply' \in [Replica -> {None, "committed", "rolled-back"}]
          /\ told' \in [Replica -> Answers]
      BY <1>1, <1>3, <2>1, <2>4 DEF LoseSession, Ended, TypeOK, Truthful
    <3>2. seen' \in [Replica -> [Item -> [id : Nat, shape : Nat]]]
      <4>1. [x \in Item |-> Absent] \in [Item -> [id : Nat, shape : Nat]]
        BY DEF Absent
      <4> QED
        BY <1>1, <2>1, <4>1 DEF Ended, TypeOK
    <3>3. faults' \in 0..MaxFault
      BY <1>1, <1>3, BoundAssumption DEF LoseSession, TypeOK
    <3> QED
      BY <1>1, <1>3, <3>1, <3>2, <3>3
         DEF LoseSession, TypeOK, catalogueVars, ledgerVars
  <2>6. \A q \in Replica \ {r} : Rests(q)
    BY <1>1, <1>3, <2>1 DEF LoseSession, Ended, TypeOK, Rests, Keeps
  <2>7. /\ Completed(r)' = Completed(r) /\ Current(r)' = Current(r)
        /\ \A b : MayAdopt(r, b)' <=> MayAdopt(r, b)
    BY <2>2 DEF Completed, Current, MayAdopt
  <2>8. PlaceInv(r)'
    BY <1>1, <2>2, <2>4, <2>7 DEF WorkInv, PlaceInv
  <2>9. LandedInv(r)'
    <3>1. at[r] \in landed[r] => flight[r].role \notin Work
      BY <1>1 DEF WorkInv, LandedInv
    <3> QED
      BY <1>1, <2>2, <2>4, <2>7, <3>1 DEF WorkInv, LandedInv
  <2>10. ToldInv(r)'
    BY <2>2, <2>4, <2>7 DEF ToldInv, Truthful
  <2>11. WorkedInv(r)' /\ AdoptInv(r)'
    BY <1>1, <2>2, <2>7 DEF WorkInv, WorkedInv, AdoptInv
  <2> QED
    BY <2>2, <2>5, <2>6, <2>8, <2>9, <2>10, <2>11, OneCallWorks DEF WorkInv
<1> QED
  BY <1>2, <1>3

(* Objects get new identities, in the order of their items.                *)
LEMMA Ranks ==
    ASSUME NEW S, S \subseteq Item, NEW x \in S
    PROVE  Rank(x, S) \in Nat /\ Rank(x, S) > 0
<1> DEFINE T == {y \in S : y <= x}
<1>1. IsFiniteSet(T) /\ Cardinality(T) \in Nat
  BY FS_Subset, FS_CardinalityType, ItemAssumption
<1>2. x \in T
  BY ItemAssumption
<1>3. Cardinality(T) # 0
  BY <1>1, <1>2, FS_EmptySet
<1> QED
  BY <1>1, <1>3 DEF Rank

(* What a COMMIT of a call does to the ledger's records.                   *)
LEMMA Recording ==
    ASSUME IInv, WInv, NEW r \in Replica, CommitEnds(r)
    PROVE  /\ record' = record \/ /\ flight[r].role \in {"adopt", "create"}
                                  /\ Apply(r, flight[r])
                                  /\ flight[r].of \subseteq Item
                                  /\ lock["schema"] = r
           /\ record' \in [Item -> Nat]
           /\ \A x \in Item \ flight[r].of : record'[x] = record[x]
<1> DEFINE b == flight[r]
<1>1. TypeOK /\ WorkInv(r) /\ CallInv(r)
  BY DEF IInv, WInv
<1>2. b.role \in Work => Shaped(b)
  BY <1>1 DEF WorkInv, PlaceInv, AdoptInv, WellFormed, Current
<1>3. CASE UNCHANGED record
  BY <1>1, <1>3 DEF TypeOK
<1>4. CASE Apply(r, b) /\ b.role \notin Changes
  <2>1. record' = record
    BY <1>4 DEF Apply
  <2> QED
    BY <1>3, <2>1
<1>5. CASE Apply(r, b) /\ b.role \in Changes
  <2>1. record' = [x \in Item |-> RecordedBy(b, x)]
    BY <1>5 DEF Apply
  <2>2. /\ Shaped(b) /\ b.of \subseteq Item /\ b.as \in Nat
        /\ lock["schema"] = r
    BY <1>1, <1>2, <1>5
       DEF Work, Changes, Shaped, Transaction, CallInv, LockInv
  <2>3. \A x \in Item : /\ RecordedBy(b, x) \in Nat
                        /\ x \notin b.of => RecordedBy(b, x) = record[x]
    <3> SUFFICES ASSUME NEW x \in Item
                 PROVE  /\ RecordedBy(b, x) \in Nat
                        /\ x \notin b.of => RecordedBy(b, x) = record[x]
      OBVIOUS
    <3>1. record[x] \in Nat /\ minted \in Nat
      BY <1>1 DEF TypeOK
    <3>2. x \in b.of => Created(b, x).id \in Nat
      BY <2>2, <3>1, Ranks DEF Created
    <3> HIDE DEF b
    <3> QED
      BY <2>2, <3>1, <3>2 DEF RecordedBy
  <2>4. b.role = "extend" => record' = record
    <3> SUFFICES ASSUME b.role = "extend" PROVE record' = record
      OBVIOUS
    <3>1. \A x \in Item : RecordedBy(b, x) = record[x]
      BY DEF RecordedBy
    <3> QED
      BY <1>1, <2>1, <3>1 DEF TypeOK
  <2> HIDE DEF b
  <2> QED
    BY <1>5, <2>1, <2>2, <2>3, <2>4 DEF b, Changes
<1> QED
  BY <1>3, <1>4, <1>5 DEF CommitEnds

LEMMA CommittedTypes ==
    ASSUME IInv, IInv', WInv, NEW r \in Replica, CommitEnds(r)
    PROVE  TypeOK'
<1> DEFINE b == flight[r]
<1>1. /\ TypeOK /\ b \in Transaction /\ b.of \subseteq Item \cup Step
      /\ b.as \in Nat /\ at[r] \in Nat
  BY DEF WInv, TypeOK, Transaction
<1>2. b.role \in Changes => b.of \subseteq Item
  <2>1. b.role \in Work => Shaped(b)
    BY DEF WInv, WorkInv, PlaceInv, AdoptInv, WellFormed, Current
  <2> QED
    BY <2>1 DEF Shaped, Work, Changes
<1>3. /\ flight' = [flight EXCEPT ![r] = Nothing] /\ lock' = AfterCommit(r, b)
      /\ UNCHANGED <<claim, callVars, others>>
      /\ reply' \in {[reply EXCEPT ![r] =
                          IF conn[r] = "open" THEN "committed" ELSE None],
                     [reply EXCEPT ![r] =
                          IF conn[r] = "open" THEN "rolled-back" ELSE None]}
      /\ \/ Apply(r, b) /\ UNCHANGED faults
         \/ /\ faults' \in 0..MaxFault
            /\ UNCHANGED <<catalogueVars, record, ledger, recorded, ran,
                           healthy, landed>>
  BY <1>1, BoundAssumption DEF CommitEnds, TypeOK
<1>4. /\ flight' \in [Replica -> Transaction]
      /\ lock' \in [Home -> Replica \cup {None}]
      /\ reply' \in [Replica -> {None, "committed", "rolled-back"}]
      /\ faults' \in 0..MaxFault
      /\ record' \in [Item -> Nat]
  <2>1. Nothing \in Transaction
    BY DEF Nothing, Transaction
  <2> QED
    BY <1>1, <1>3, <2>1, Recording DEF TypeOK, AfterCommit
<1>5. /\ live' \in [Item -> [id : Nat, shape : Nat]] /\ minted' \in Nat
      /\ recorded' \in [OnceStep -> Nat] /\ ran' \in [OnceStep -> Nat]
      /\ healthy' \subseteq AssertStep /\ ledger' \subseteq Home
      /\ landed' \in [Replica -> SUBSET Nat]
  <2>1. CASE UNCHANGED <<catalogueVars, record, ledger, recorded, ran,
                         healthy, landed>>
    BY <1>1, <2>1 DEF TypeOK, catalogueVars
  <2>2. CASE Apply(r, b)
    <3> HIDE DEF b
    <3>1. live' \in [Item -> [id : Nat, shape : Nat]] /\ minted' \in Nat
      <4>1. CASE b.role = "create"
        <5>1. b.of \subseteq Item /\ minted \in Nat
          BY <1>1, <1>2, <4>1 DEF Changes, TypeOK
        <5>2. \A x \in Item : Created(b, x) \in [id : Nat, shape : Nat]
          <6> SUFFICES ASSUME NEW x \in Item
                       PROVE  Created(b, x) \in [id : Nat, shape : Nat]
            OBVIOUS
          <6>1. x \in b.of => minted + Rank(x, b.of) \in Nat
            BY <5>1, Ranks
          <6>2. live[x] \in [id : Nat, shape : Nat]
            BY <1>1 DEF TypeOK
          <6> QED
            BY <1>1, <6>1, <6>2 DEF Created
        <5>3. Cardinality(b.of) \in Nat
          BY <5>1, FS_Subset, FS_CardinalityType, ItemAssumption
        <5> QED
          BY <2>2, <4>1, <5>1, <5>2, <5>3 DEF Apply
      <4>2. CASE b.role = "extend"
        <5>1. ASSUME NEW x \in Item
              PROVE  Extended(b, x) \in [id : Nat, shape : Nat]
          <6>1. live[x] \in [id : Nat, shape : Nat]
            BY <1>1 DEF TypeOK
          <6> QED
            BY <1>1, <6>1 DEF Extended
        <5> QED
          BY <1>1, <2>2, <4>2, <5>1 DEF Apply, TypeOK
      <4>3. CASE b.role \notin {"create", "extend"}
        <5>1. live' = live /\ minted' = minted
          BY <2>2, <4>3 DEF Apply
        <5> QED
          BY <1>1, <5>1 DEF TypeOK
      <4> QED
        BY <4>1, <4>2, <4>3
    <3>2. recorded' \in [OnceStep -> Nat] /\ ran' \in [OnceStep -> Nat]
      <4>1. /\ Digest[r] \in Nat
            /\ recorded \in [OnceStep -> Nat] /\ ran \in [OnceStep -> Nat]
        BY <1>1, ReplicaAssumption DEF TypeOK
      <4>2. /\ recorded' = [s \in OnceStep |->
                   IF b.role = "step" /\ s \in b.of
                   THEN Digest[r] ELSE recorded[s]]
            /\ ran' = [s \in OnceStep |-> IF b.role = "step" /\ s \in b.of
                                       THEN ran[s] + 1 ELSE ran[s]]
        BY <2>2 DEF Apply
      <4>3. recorded' \in [OnceStep -> Nat]
        BY <4>1, <4>2
      <4>4. ran' \in [OnceStep -> Nat]
        BY <4>1, <4>2
      <4> QED
        BY <4>3, <4>4
    <3>3. healthy' \subseteq AssertStep /\ ledger' \subseteq Home
      BY <1>1, <2>2 DEF Apply, TypeOK
    <3>4. landed' \in [Replica -> SUBSET Nat]
      BY <1>1, <2>2 DEF Apply, TypeOK
    <3> QED
      BY <3>1, <3>2, <3>3, <3>4
  <2> QED
    BY <1>3, <2>1, <2>2
<1>6. \A q \in Replica : pc'[q] # "idle" <=> conn'[q] = "open"
  BY DEF IInv, CallInv, FlightInv
<1> QED
  BY <1>1, <1>3, <1>4, <1>5, <1>6 DEF TypeOK, callVars

(* A COMMIT ends.  What it adopts is recorded, and what is still to be     *)
(* adopted is something else.                                              *)
LEMMA CommitEndingWork ==
    ASSUME IInv, IInv', WInv, NEW r \in Replica, CommitEnds(r)
    PROVE  WInv'
<1> DEFINE b == flight[r]
<1>1. /\ TypeOK /\ WorkInv(r) /\ CallInv(r) /\ b # Nothing
      /\ b.role \in Home \cup Work
  BY DEF WInv, IInv, CommitEnds, CallInv, FlightInv
<1>2. /\ flight'[r] = Nothing
      /\ UNCHANGED <<pc, conn, plan, at, worked, told>>
      /\ \A q \in Replica \ {r} : Rests(q)
      /\ \/ /\ landed'[r] = IF b.role \in Home THEN landed[r]
                            ELSE landed[r] \cup {at[r]}
            /\ reply'[r] = IF conn[r] = "open" THEN "committed" ELSE None
         \/ /\ landed' = landed /\ record' = record
            /\ reply'[r] = IF conn[r] = "open" THEN "rolled-back" ELSE None
  BY <1>1 DEF CommitEnds, Apply, TypeOK, Rests, Keeps, callVars
<1>3. record' = record \/ lock["schema"] = r
  BY Recording
<1>4. /\ Completed(r)' = Completed(r) /\ Current(r)' = Current(r)
  BY <1>2 DEF Completed, Current
<1>5. /\ flight'[r].role \notin Work /\ flight'[r].role # "adopt"
      /\ conn[r] = "open" <=> pc[r] # "idle"
      /\ pc[r] \in Home \cup {"run", "idle"}
      /\ pc[r] = "run" => b.role \in Work
      /\ b.role \in Work => b.role \notin Home
  BY <1>1, <1>2, Constants DEF CallInv, FlightInv, Work, Changes
<1>6. CASE b.role \notin Work
  <2>1. landed'[r] = landed[r] /\ record' = record
    BY <1>1, <1>2, <1>6, Recording DEF Work, Changes
  <2>2. pc[r] \in Home \cup {"idle"}
    BY <1>5, <1>6
  <2>3. pc[r] # "run" /\ pc[r] \notin {"steps", "own", "run"}
    BY <2>2 DEF Home
  <2>4. PlaceInv(r)' /\ LandedInv(r)' /\ ToldInv(r)' /\ WorkedInv(r)'
    BY <1>1, <1>2, <1>4, <1>5, <2>1, <2>3
       DEF WorkInv, PlaceInv, LandedInv, ToldInv, WorkedInv
  <2>5. AdoptInv(r)'
    BY <1>1, <1>2, <1>5, <2>3 DEF WorkInv, AdoptInv, MayAdopt
  <2> QED
    BY <1>2, <1>3, <2>4, <2>5, OneCallWorks, CommittedTypes DEF WorkInv
<1>7. CASE b.role \in Work
  <2>1. /\ at[r] \in DOMAIN plan[r] /\ b = Current(r)
        /\ at[r] \notin landed[r]
        /\ pc[r] = "run" \/ told[r] \in {"transport-ambiguous", "died"}
        /\ WellFormed(plan[r]) /\ at[r] \in Nat /\ 1 <= at[r]
        /\ Len(plan[r]) \in Nat /\ DOMAIN plan[r] = 1..Len(plan[r])
    BY <1>1, <1>7
       DEF WorkInv, PlaceInv, LandedInv, AdoptInv, WellFormed, TypeOK
  <2>2. pc[r] = "idle" <=> pc[r] # "run"
    BY <1>5, <2>1, <1>1, <1>7, Constants DEF WorkInv, ToldInv, None
  <2>3. PlaceInv(r)'
    BY <1>1, <1>2, <1>5, <2>1, <2>2 DEF WorkInv, PlaceInv
  <2>4. LandedInv(r)'
    <3>1. /\ Completed(r) \subseteq landed[r] /\ landed[r] \subseteq 1..at[r]
      BY <1>1 DEF WorkInv, LandedInv
    <3>2. at[r] \in 1..at[r]
      BY <2>1
    <3>3. CASE landed'[r] = landed[r] \cup {at[r]} /\
               reply'[r] = IF conn[r] = "open" THEN "committed" ELSE None
      BY <1>2, <1>4, <1>5, <2>1, <2>2, <3>1, <3>2, <3>3 DEF LandedInv
    <3>4. CASE landed'[r] = landed[r] /\ reply'[r] # "committed"
      BY <1>2, <1>4, <1>5, <2>1, <2>2, <3>1, <3>2, <3>4 DEF LandedInv
    <3> QED
      BY <1>2, <1>5, <1>7, <3>3, <3>4 DEF None
  <2>5. ToldInv(r)'
    BY <1>1, <1>2, <1>4, <2>1, <2>2 DEF WorkInv, ToldInv, None
  <2>6. WorkedInv(r)'
    BY <1>1, <1>2, <1>4, <1>5, <2>1, <2>2 DEF WorkInv, WorkedInv, None
  <2>7. AdoptInv(r)'
    <3>1. ASSUME pc[r] = "run", NEW i \in DOMAIN plan[r],
                 ~(i < at[r]), i \notin landed'[r],
                 plan[r][i].role = "adopt"
          PROVE  /\ Initialize[r] = "adopt-existing"
                 /\ \A x \in plan[r][i].of : record'[x] = Unknown
      <4>1. i \notin landed[r] /\ i \in Nat
        BY <1>2, <2>1, <3>1
      <4>2. /\ Initialize[r] = "adopt-existing"
            /\ \A x \in plan[r][i].of : record[x] = Unknown
        BY <1>1, <3>1, <4>1 DEF WorkInv, AdoptInv, MayAdopt
      <4>3. CASE record' = record
        BY <4>2, <4>3
      <4>4. CASE record' # record
        <5>1. /\ b.role \in {"adopt", "create"}
              /\ landed'[r] = landed[r] \cup {at[r]}
              /\ \A x \in Item \ b.of : record'[x] = record[x]
          BY <1>2, <1>5, <1>7, <4>4, Recording
        <5>2. at[r] < i
          BY <2>1, <3>1, <4>1, <5>1
        <5>3. b.of \cap plan[r][i].of = {}
          BY <2>1, <3>1, <5>1, <5>2 DEF WellFormed, AdoptsApart, Current
        <5>4. plan[r][i].of \subseteq Item
          BY <2>1, <3>1 DEF WellFormed, Shaped
        <5> QED
          BY <4>2, <5>1, <5>3, <5>4
      <4> QED
        BY <4>3, <4>4
    <3> QED
      BY <1>1, <1>2, <1>5, <2>1, <2>2, <3>1 DEF WorkInv, AdoptInv, MayAdopt
  <2> QED
    BY <1>2, <1>3, <2>3, <2>4, <2>5, <2>6, <2>7, OneCallWorks, CommittedTypes
       DEF WorkInv
<1> QED
  BY <1>6, <1>7

(* What others do leaves every call where it is.                           *)
LEMMA InterveningWork ==
    ASSUME IInv, WInv, Somebody PROVE WInv'
<1>1. TypeOK /\ \A q \in Replica : WorkInv(q) /\ CallInv(q)
  BY DEF WInv, IInv
<1>2. UNCHANGED <<record, ledger, lock, recorded, ran, callVars, serverVars>>
  BY DEF Somebody, SomebodyCreates, SomebodyDrops, SomebodyReplaces,
         SomebodyAlters, SomebodyBreaks, Intervene, WriterClaims, WriterStops,
         ClaimEnds, ledgerVars
<1>3. \A q \in Replica : Rests(q)
  BY <1>2 DEF Rests, Keeps, callVars, serverVars
<1>4. \A q \in Replica : WorkInv(q)'
  BY <1>1, <1>2, <1>3, Undisturbed
<1>5. /\ live' \in [Item -> [id : Nat, shape : Nat]] /\ minted' \in Nat
      /\ claim' \in {None, "running", "stopped"}
      /\ healthy' \subseteq AssertStep
      /\ faults' \in 0..MaxFault /\ others' \in 0..MaxOther
  <2>1. \A x \in Item : live[x] \in [id : Nat, shape : Nat]
    BY <1>1 DEF TypeOK
  <2>2. /\ MaxFault \in Nat /\ MaxOther \in Nat /\ minted \in Nat
        /\ faults \in 0..MaxFault /\ others \in 0..MaxOther
    BY <1>1, BoundAssumption DEF TypeOK
  <2>3. ASSUME NEW x \in Item, SomebodyCreates(x)
        PROVE  live' \in [Item -> [id : Nat, shape : Nat]] /\ minted' \in Nat
               /\ UNCHANGED <<claim, healthy, faults>>
               /\ others' \in 0..MaxOther
    <3>1. PICK shape \in {Foreign} \cup {Declared(r, x) : r \in Replica} :
              live' = [live EXCEPT ![x] = [id |-> minted + 1, shape |-> shape]]
      BY <2>3 DEF SomebodyCreates
    <3>2. shape \in Nat
      BY ReplicaAssumption DEF Foreign, Declared
    <3> QED
      BY <1>1, <2>2, <2>3, <3>1, <3>2
         DEF SomebodyCreates, Intervene, ledgerVars, TypeOK
  <2>4. ASSUME NEW x \in Item,
               SomebodyDrops(x) \/ SomebodyReplaces(x) \/ SomebodyAlters(x)
        PROVE  live' \in [Item -> [id : Nat, shape : Nat]] /\ minted' \in Nat
               /\ UNCHANGED <<claim, healthy, faults>>
               /\ others' \in 0..MaxOther
    <3>1. /\ UNCHANGED <<claim, healthy, faults>> /\ others' \in 0..MaxOther
          /\ minted' \in Nat
      BY <2>2, <2>4 DEF SomebodyDrops, SomebodyReplaces, SomebodyAlters,
                        Intervene, ledgerVars
    <3>2. CASE SomebodyDrops(x)
      BY <1>1, <3>1, <3>2 DEF SomebodyDrops, TypeOK, Absent
    <3>3. CASE SomebodyReplaces(x)
      <4>1. [live[x] EXCEPT !.id = minted + 1] \in [id : Nat, shape : Nat]
        BY <2>1, <2>2
      <4>2. live' = [live EXCEPT ![x] = [live[x] EXCEPT !.id = minted + 1]]
        BY <1>1, <3>3 DEF SomebodyReplaces, TypeOK
      <4> QED
        BY <1>1, <3>1, <4>1, <4>2 DEF TypeOK
    <3>4. CASE SomebodyAlters(x)
      <4>1. [live[x] EXCEPT !.shape = Foreign] \in [id : Nat, shape : Nat]
        BY <2>1 DEF Foreign
      <4>2. live' = [live EXCEPT ![x] = [live[x] EXCEPT !.shape = Foreign]]
        BY <1>1, <3>4 DEF SomebodyAlters, TypeOK
      <4> QED
        BY <1>1, <3>1, <4>1, <4>2 DEF TypeOK
    <3> QED
      BY <2>4, <3>2, <3>3, <3>4
  <2>5. ASSUME NEW s \in AssertStep, SomebodyBreaks(s)
        PROVE  /\ UNCHANGED <<catalogueVars, claim, faults>>
               /\ healthy' \subseteq AssertStep /\ others' \in 0..MaxOther
    BY <1>1, <2>2, <2>5 DEF SomebodyBreaks, Intervene, ledgerVars, TypeOK
  <2>6. ASSUME WriterClaims \/ WriterStops \/ ClaimEnds
        PROVE  /\ UNCHANGED <<catalogueVars, healthy>>
               /\ claim' \in {None, "running", "stopped"}
               /\ faults' \in 0..MaxFault /\ others' \in 0..MaxOther
    BY <2>2, <2>6 DEF WriterClaims, WriterStops, ClaimEnds
  <2> QED
    BY <1>1, <2>2, <2>3, <2>4, <2>5, <2>6 DEF Somebody, TypeOK, catalogueVars
<1>6. TypeOK'
  BY <1>1, <1>2, <1>5 DEF TypeOK, callVars, serverVars
<1> QED
  BY <1>4, <1>6 DEF WInv

LEMMA WorkSteps == IInv /\ WInv /\ [Next]_vars => WInv'
<1> SUFFICES ASSUME IInv, WInv, [Next]_vars PROVE WInv'
  OBVIOUS
<1>1. IInv'
  BY Steps
<1>2. ASSUME NEW r \in Replica, Call(r) PROVE WInv'
  BY <1>1, <1>2, StartingWork, BeginningWork, InitializingWork, PlanningWork,
     ExecutingWork, AnsweredWork DEF Call
<1>3. ASSUME NEW r \in Replica, Server(r) \/ Fails(r) \/ LoseSession(r)
      PROVE  WInv'
  BY <1>1, <1>3, CommitEndingWork, SessionEndsWork, AnsweredWork DEF Server
<1>4. CASE Somebody
  BY <1>4, InterveningWork
<1>5. CASE UNCHANGED vars
  <2>1. /\ \A q \in Replica : Rests(q) /\ CallInv(q) /\ WorkInv(q)
        /\ record' = record
    BY <1>5 DEF WInv, IInv, Rests, Keeps, vars, ledgerVars, callVars,
                serverVars
  <2>2. TypeOK'
    BY <1>5 DEF WInv, TypeOK, vars, catalogueVars, ledgerVars, callVars,
                serverVars
  <2> QED
    BY <2>1, <2>2, Undisturbed DEF WInv
<1> QED
  BY <1>2, <1>3, <1>4, <1>5 DEF Next

-----------------------------------------------------------------------------
(* The results about the work of a call.                                   *)

(* Whatever replicas, their servers and everybody else do: what has landed *)
(* of a plan is what comes before the current transaction, and what is     *)
(* still to be adopted is unknown to the ledger.                           *)
THEOREM WorkInductiveInvariant == Spec => [](IInv /\ WInv)
<1>1. Init => IInv /\ WInv
  BY Initially, WorkInitially
<1>2. (IInv /\ WInv) /\ [Next]_vars => (IInv /\ WInv)'
  BY Steps, WorkSteps
<1> QED
  BY <1>1, <1>2, PTL DEF Spec

(* Every variable of start-up keeps to its type.                           *)
THEOREM ConvergeTypes == Spec => []TypeOK
<1>1. IInv /\ WInv => TypeOK
  BY DEF WInv
<1> QED
  BY <1>1, WorkInductiveInvariant, PTL

(* What converge answers is true: a refusal while planning, `busy` and     *)
(* `no-drift` mean that nothing was done, `applied` that all of it was,    *)
(* and every other answer that what comes before the transaction it ended  *)
(* in has landed and nothing after it; only `transport-ambiguous` and a    *)
(* dead process leave that one transaction open.                           *)
THEOREM AnswersOfConvergeAreTrue == Spec => []AnswerIsTrue
<1>1. IInv /\ WInv => AnswerIsTrue
  <2> SUFFICES ASSUME IInv, WInv, NEW r \in Replica
               PROVE  /\ told[r] \in {"busy", "refused", "no-drift", "error"}
                            => landed[r] = {}
                      /\ told[r] # None
                            => /\ Completed(r) \subseteq landed[r]
                               /\ landed[r] \subseteq 1..at[r]
                               /\ at[r] \in landed[r]
                                  => told[r] \in {"transport-ambiguous",
                                                   "died"}
                      /\ told[r] = "applied" => at[r] > Len(plan[r])
                      /\ told[r] = "partially-applied" => Completed(r) # {}
    BY DEF AnswerIsTrue
  <2>1. LandedInv(r) /\ ToldInv(r)
    BY DEF WInv, WorkInv
  <2> QED
    BY <2>1 DEF LandedInv, ToldInv
<1> QED
  BY <1>1, WorkInductiveInvariant, PTL

(* Converge takes no object over: an identity comes into the ledger when   *)
(* the same transaction created the object, or when a call that adopts     *)
(* records it at an address whose state was unknown.                       *)
THEOREM ConvergeTakesNothingOver == Spec => NothingIsTakenOver
<1> DEFINE A == \A x \in Item : record'[x] # record[x] =>
                  \/ record'[x] > minted /\ record'[x] = live'[x].id
                  \/ /\ record[x] = Unknown
                     /\ \E r \in Replica : Initialize[r] = "adopt-existing"
                                             /\ landed'[r] # landed[r]
<1>1. IInv /\ WInv /\ [Next]_vars => [A]_vars
  <2> SUFFICES ASSUME IInv, WInv, Next, NEW x \in Item,
                      record'[x] # record[x]
               PROVE  \/ record'[x] > minted /\ record'[x] = live'[x].id
                      \/ /\ record[x] = Unknown
                         /\ \E r \in Replica : Initialize[r] = "adopt-existing"
                                                 /\ landed'[r] # landed[r]
    OBVIOUS
  <2>1. ASSUME NEW r \in Replica, Call(r) \/ BackendEnds(r) \/ Fails(r)
                                    \/ LoseSession(r)
        PROVE  record' = record
    BY <2>1 DEF Call, Start, ReadCurrency, InitializeHome, LockLedger,
       LedgerBusy, Admit, Compare, Decide, PlanSteps, Own, RunStep,
       InspectAdoptions, Adopt, Create, Extend, Receive, Finish, Answer,
       Commit, BackendEnds, Fails, LoseSession, ledgerVars
  <2>2. Somebody => record' = record
    BY DEF Somebody, SomebodyCreates, SomebodyDrops, SomebodyReplaces,
         SomebodyAlters, SomebodyBreaks, Intervene, WriterClaims, WriterStops,
         ClaimEnds, ledgerVars
  <2>3. PICK r \in Replica : CommitEnds(r)
    BY <2>1, <2>2 DEF Next, Server
  <2> DEFINE b == flight[r]
  <2>4. /\ b.role \in {"adopt", "create"} /\ Apply(r, b)
        /\ b.of \subseteq Item /\ x \in b.of
    BY <2>3, Recording
  <2>5. /\ TypeOK /\ WorkInv(r)
        /\ record'[x] = RecordedBy(b, x)
    BY <2>4 DEF WInv, Apply, Changes
  <2>6. CASE b.role = "create"
    <3>1. /\ record'[x] = Created(b, x).id /\ live'[x] = Created(b, x)
          /\ Created(b, x).id = minted + Rank(x, b.of)
      BY <2>4, <2>5, <2>6 DEF RecordedBy, Apply, Created
    <3>2. Rank(x, b.of) \in Nat /\ Rank(x, b.of) > 0 /\ minted \in Nat
      BY <2>4, <2>5, Ranks DEF TypeOK
    <3> HIDE DEF b
    <3> QED
      BY <3>1, <3>2
  <2>7. CASE b.role = "adopt"
    <3>1. Initialize[r] = "adopt-existing" /\ record[x] = Unknown
      BY <2>4, <2>5, <2>7 DEF WorkInv, AdoptInv, MayAdopt
    <3>2. at[r] \notin landed[r]
      BY <2>5, <2>7 DEF WorkInv, LandedInv, Work, Changes
    <3>3. at[r] \in landed'[r]
      BY <2>4, <2>5, <2>7 DEF Apply, TypeOK, Home
    <3> QED
      BY <3>1, <3>2, <3>3
  <2> QED
    BY <2>4, <2>6, <2>7
<1> QED
  BY <1>1, WorkInductiveInvariant, PTL DEF Spec, NothingIsTakenOver

=============================================================================
