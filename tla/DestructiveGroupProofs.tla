------------------------ MODULE DestructiveGroupProofs ------------------------
(***************************************************************************)
(* Proofs about DestructiveGroup, for a closure of any size and any number *)
(* of runs, identities and faults.  One inductive invariant, IInv, says    *)
(* what the chain of an address can look like and what a run has done at   *)
(* each of its places; every safety property of the module, and that the   *)
(* group implements the ledger address, follows from it.                   *)
(***************************************************************************)
EXTENDS DestructiveGroup, TLAPS

(* The chains of a group know one kind of claim, opened on a managed       *)
(* address.                                                                *)
Claim(r, p) == [kind |-> "retire-intent", id |-> r, pair |-> None,
                before |-> "managed", phase |-> p]

Closed(s) == Frame(s, NoClaim)

Claimed(r, p) == Frame("managed", Claim(r, p))

FrameOK(f) ==
    \/ \E s \in {"managed", "absent"} : f = Closed(s)
    \/ \E r \in Run, p \in Phase : f = Claimed(r, p)

(* What a step may make of the chain of an address.                        *)
FrameStep(f, g) ==
    \/ g = f
    \/ \E r \in Run : f = Closed("managed") /\ g = Claimed(r, "claimed")
    \/ \E r \in Run : f = Claimed(r, "claimed") /\ g = Claimed(r, "executing")
    \/ \E r \in Run, p \in Phase \ {"indeterminate"} :
          f = Claimed(r, p) /\ g = Claimed(r, "indeterminate")
    \/ \E r \in Run, p \in Phase, s \in {"managed", "absent"} :
          f = Claimed(r, p) /\ g = Closed(s)

(* The phase of a's claim while its executor lives.                        *)
PhaseAt(place, a) ==
    IF a = Root /\ place # "claimed" THEN "executing" ELSE "claimed"

(* Who holds the run lock, and what is left to a reconciliation.           *)
LockInv ==
    \A r \in Run :
        /\ pc[r] \in BusyPc <=> runLock[r] = "apply"
        /\ todo[r] # {} => runLock[r] = "reconcile"
        /\ \A a \in todo[r] : reservation[a] = r

(* What a run's place says of its group, its statement and its effect.     *)
RunInv ==
    \A r \in Run :
        /\ pc[r] = "idle" =>
              \A a \in Closure : reservation[a] # r /\ outcome[r][a] = None
        /\ pc[r] \in BusyPc =>
              \A a \in Closure : /\ frame[a] = Claimed(r, PhaseAt(pc[r], a))
                                 /\ reservation[a] = r
        /\ pc[r] \in {"idle", "claimed", "sending"} => stmt[r] = "none"
        /\ stmt[r] = "none" => dropped[r] = {}
        /\ frame[Root] = Claimed(r, "claimed") => stmt[r] = "none"
        /\ outcome[r][Root] = "refused" => pc[r] = "stopped" /\ stmt[r] = "none"

(* What has been seen empty.                                               *)
GoneInv ==
    \A r \in Run :
        /\ \A a \in Closure : ClaimOpen(r, a) /\ live[a] = 0 => a \in gone[r]
        /\ pc[r] = "ran" => Closure \ survivors[r] \subseteq gone[r]
        /\ \A a \in Closure : outcome[r][a] = "absent" => a \in gone[r]

ChainInv == \A a \in Closure : FrameOK(frame[a])

IInv == TypeOK /\ ChainInv /\ OpenClaimIsReserved /\ LockInv /\ RunInv /\ GoneInv

-----------------------------------------------------------------------------
(* Facts about one edge of a chain.                                        *)

(* A claim of a run is none of the other values in its place.              *)
LEMMA ClaimFacts ==
    ASSUME NEW r \in Run, NEW p \in Phase
    PROVE  /\ Claim(r, p) # NoClaim
           /\ Claimed(r, p).claim = Claim(r, p)
           /\ Claimed(r, p).claim.id = r
           /\ Claimed(r, p).claim.phase = p
           /\ Claimed(r, p).stable = "managed"
           /\ IsOpen(Claimed(r, p))
           /\ r # None
BY GroupAssumption DEF Claim, Claimed, Frame, NoClaim, IsOpen

LEMMA ClosedFacts ==
    ASSUME NEW s
    PROVE  /\ ~IsOpen(Closed(s))
           /\ Closed(s).stable = s
           /\ Closed(s).claim = NoClaim
           /\ Closed(s).claim.id = None
BY DEF Closed, Frame, NoClaim, IsOpen

(* The phase, the run and the shape of a frame can be read off it.         *)
LEMMA FrameFacts ==
    ASSUME NEW f, FrameOK(f)
    PROVE  /\ IsOpen(f) <=> \E r \in Run, p \in Phase : f = Claimed(r, p)
           /\ IsOpen(f) <=> f.claim.id \in Run
           /\ ~IsOpen(f) => \E s \in {"managed", "absent"} : f = Closed(s)
           /\ \A r \in Run : f.claim.id = r => \E p \in Phase : f = Claimed(r, p)
<1>1. CASE \E s \in {"managed", "absent"} : f = Closed(s)
  <2>1. ~IsOpen(f) /\ f.claim.id = None
    BY <1>1, ClosedFacts
  <2>2. \A r \in Run, p \in Phase : f # Claimed(r, p)
    BY <2>1, ClaimFacts
  <2> QED
    BY <1>1, <2>1, <2>2, GroupAssumption
<1>2. CASE \E r \in Run, p \in Phase : f = Claimed(r, p)
  BY <1>2, ClaimFacts
<1> QED
  BY <1>1, <1>2 DEF FrameOK

LEMMA ClaimingEdge ==
    ASSUME NEW r \in Run
    PROVE  Project(Closed("managed"), ClaimEvent(r)) = Claimed(r, "claimed")
BY DEF Project, LegalEdge, InterpretEdge, OpensClaim, OpenedFrame, ClaimEvent,
       Event, Closed, Claimed, Claim, Frame, IsOpen, OpensFrom, ClaimKind

(* What the other events of the protocol make of an open claim.            *)
LEMMA FollowingEdges ==
    ASSUME NEW r \in Run, NEW p \in Phase, NEW o \in BOOLEAN
    PROVE  /\ p = "claimed" =>
                Project(Claimed(r, p), Closing("executing")) = Claimed(r, "executing")
           /\ p # "indeterminate" =>
                /\ Project(Claimed(r, p), Closing("indeterminate"))
                     = Claimed(r, "indeterminate")
                /\ Project(Claimed(r, p), Event("absent", None, None, o))
                     = Closed("absent")
                /\ Project(Claimed(r, p), Event("refused", None, None, o))
                     = Closed("managed")
<1> DEFINE f == Claimed(r, p)
<1>1. /\ IsOpen(f)
      /\ f.claim = Claim(r, p)
      /\ f.stable = "managed"
  BY ClaimFacts
<1>2. ASSUME NEW k \in {"executing", "indeterminate", "absent", "refused"},
             NEW b \in BOOLEAN, p # "indeterminate",
             k = "executing" => p = "claimed"
      PROVE  Project(f, Event(k, None, None, b)) = ResolvedFrame(f, Event(k, None, None, b))
  <2>1. ResolvingEdge(Claim(r, p), Event(k, None, None, b))
    BY <1>2 DEF ResolvingEdge, ResolvesThrough, ClaimKind, Event, Claim
  <2>2. LegalEdge(f, Event(k, None, None, b))
    BY <1>1, <2>1 DEF LegalEdge
  <2> HIDE DEF f
  <2> QED
    BY <1>1, <2>2 DEF Project, InterpretEdge
<1>3. \A k \in {"executing", "indeterminate"} :
         /\ ResolvedFrame(f, Event(k, None, None, FALSE))
              = Frame("managed", [Claim(r, p) EXCEPT !.phase = k])
         /\ [Claim(r, p) EXCEPT !.phase = k] = Claim(r, k)
  BY <1>1 DEF ResolvedFrame, Event, Claim
<1>4. /\ ResolvedFrame(f, Event("absent", None, None, o)) = Closed("absent")
      /\ ResolvedFrame(f, Event("refused", None, None, o)) = Closed("managed")
  BY <1>1 DEF ResolvedFrame, Event, Closed
<1>5. p = "claimed" => Project(f, Closing("executing")) = Claimed(r, "executing")
  BY <1>2, <1>3 DEF Closing, Claimed
<1>6. p # "indeterminate" =>
         Project(f, Closing("indeterminate")) = Claimed(r, "indeterminate")
  BY <1>2, <1>3 DEF Closing, Claimed
<1>7. p # "indeterminate" =>
         /\ Project(f, Event("absent", None, None, o)) = Closed("absent")
         /\ Project(f, Event("refused", None, None, o)) = Closed("managed")
  BY <1>2, <1>4
<1> QED
  BY <1>5, <1>6, <1>7

(* What recovery appends: nothing to an indeterminate claim, and `absent`  *)
(* only when it finds nothing.                                             *)
LEMMA RecoveryFacts ==
    ASSUME NEW a \in Closure, NEW r \in Run, NEW p \in Phase,
           frame[a] = Claimed(r, p), Appends(Recovery(a))
    PROVE  /\ p # "indeterminate"
           /\ \/ Recovery(a) = "refused" /\ p = "claimed"
              \/ Recovery(a) = "absent" /\ live[a] = 0
<1>1. /\ frame[a].claim.phase = p
      /\ frame[a].claim.kind = "retire-intent"
  BY DEF Claimed, Claim, Frame
<1>2. None # "applied"
  BY DEF None
<1> QED
  BY <1>1, <1>2 DEF Appends, Recovery, ClassifyRecovery, ClassifyIndeterminate, Phase

-----------------------------------------------------------------------------
(* What the four actions that write the ledger do to the chains.           *)

LEMMA OpenWrites ==
    ASSUME IInv, NEW r \in Run, OpenGroup(r), \A a \in Closure : Admitted(r, a)
    PROVE  /\ \A a \in Closure : frame[a] = Closed("managed") /\ live[a] # 0
           /\ frame' = [a \in Closure |-> Claimed(r, "claimed")]
           /\ reservation' = [a \in Closure |-> r]
           /\ \A a \in Closure : reservation[a] = None
<1>1. ASSUME NEW a \in Closure PROVE frame[a] = Closed("managed")
  <2>1. ~IsOpen(frame[a]) /\ LegalEdge(frame[a], ClaimEvent(r))
    BY DEF Admitted
  <2>2. PICK s \in {"managed", "absent"} : frame[a] = Closed(s)
    BY <2>1, FrameFacts DEF IInv, ChainInv
  <2>3. s \in OpensFrom["retire-intent"]
    BY <2>1, <2>2, ClosedFacts DEF LegalEdge, OpensClaim, ClaimEvent, Event
  <2> QED
    BY <2>2, <2>3 DEF OpensFrom, ClaimKind
<1>2. \A a \in Closure : Project(frame[a], ClaimEvent(r)) = Claimed(r, "claimed")
  BY <1>1, ClaimingEdge
<1> QED
  BY <1>1, <1>2 DEF OpenGroup, Admitted

LEMMA MarkWrites ==
    ASSUME IInv, NEW r \in Run, Mark(r)
    PROVE  /\ \A a \in Closure : frame[a] = Claimed(r, "claimed")
           /\ frame' = [frame EXCEPT ![Root] = Claimed(r, "executing")]
<1>1. \A a \in Closure : frame[a] = Claimed(r, "claimed")
  BY DEF IInv, RunInv, Mark, BusyPc, PhaseAt
<1>2. Project(frame[Root], Closing("executing")) = Claimed(r, "executing")
  BY <1>1, FollowingEdges DEF Phase, Closure
<1> QED
  BY <1>1, <1>2 DEF Mark

LEMMA RecordWrites ==
    ASSUME IInv, NEW r \in Run, Record(r)
    PROVE  /\ \A a \in Closure : /\ frame[a] = Claimed(r, PhaseAt("ran", a))
                                  /\ reservation[a] = r
           /\ \/ /\ frame' = [a \in Closure |-> Claimed(r, "indeterminate")]
                 /\ recorded' = [a \in Closure |-> 0]
                 /\ UNCHANGED <<reservation, outcome>>
              \/ /\ survivors[r] = {}
                 /\ frame' = [a \in Closure |-> Closed("absent")]
                 /\ recorded' = [a \in Closure |-> 0]
                 /\ reservation' = [a \in Closure |-> None]
                 /\ outcome' = [outcome EXCEPT ![r] = [a \in Closure |-> "absent"]]
<1>1. \A a \in Closure : /\ frame[a] = Claimed(r, PhaseAt("ran", a))
                         /\ reservation[a] = r
  BY DEF IInv, RunInv, Record, BusyPc
<1>2. \A a \in Closure : PhaseAt("ran", a) \in Phase \ {"indeterminate"}
  BY DEF PhaseAt, Phase
<1>3. \A a \in Closure : Project(frame[a], Closing("indeterminate")) = Claimed(r, "indeterminate")
  BY <1>1, <1>2, FollowingEdges
<1>4. \A a \in Closure : Project(frame[a], Closing("absent")) = Closed("absent")
  BY <1>1, <1>2, FollowingEdges DEF Closing
<1> QED
  BY <1>1, <1>3, <1>4 DEF Record

LEMMA RowWrites ==
    ASSUME IInv, NEW r \in Run, NEW a \in Closure, RecoverRow(r, a)
    PROVE  \/ UNCHANGED <<ledgerVars, outcome>>
           \/ /\ \E p \in Phase, s \in {"managed", "absent"} :
                   /\ frame[a] = Claimed(r, p)
                   /\ frame' = [frame EXCEPT ![a] = Closed(s)]
                   /\ Recovery(a) = "refused" => p = "claimed"
              /\ recorded' = [recorded EXCEPT ![a] = live[a]]
              /\ \/ Recovery(a) = "refused"
                 \/ Recovery(a) = "absent" /\ live[a] = 0
              /\ outcome' = [outcome EXCEPT ![r][a] = Recovery(a)]
              /\ ReleaseRow(r, a)
<1>1. CASE ~(IsOpen(frame[a]) /\ Appends(Recovery(a)))
  BY <1>1 DEF RecoverRow
<1>2. CASE IsOpen(frame[a]) /\ Appends(Recovery(a))
  <2>1. reservation[a] = r /\ a \in todo[r]
    BY DEF IInv, LockInv, RecoverRow
  <2>2. frame[a].claim.id = r
    BY <1>2, <2>1 DEF IInv, OpenClaimIsReserved
  <2>3. PICK p \in Phase : frame[a] = Claimed(r, p)
    BY <2>2, FrameFacts DEF IInv, ChainInv
  <2>4. /\ p # "indeterminate"
        /\ \/ Recovery(a) = "refused" /\ p = "claimed"
           \/ Recovery(a) = "absent" /\ live[a] = 0
    BY <1>2, <2>3, RecoveryFacts
  <2>5. \E s \in {"managed", "absent"} :
           Project(frame[a], Event(Recovery(a), None, None, live[a] # 0)) = Closed(s)
    <3> DEFINE o == live[a] # 0
    <3>1. o \in BOOLEAN
      OBVIOUS
    <3> HIDE DEF o
    <3>2. /\ Project(Claimed(r, p), Event("absent", None, None, o)) = Closed("absent")
          /\ Project(Claimed(r, p), Event("refused", None, None, o)) = Closed("managed")
      BY <2>4, <3>1, FollowingEdges
    <3>3. \E s \in {"managed", "absent"} :
             Project(frame[a], Event(Recovery(a), None, None, o)) = Closed(s)
      BY <2>3, <2>4, <3>2
    <3> QED
      BY <3>3 DEF o
  <2> QED
    BY <1>2, <2>3, <2>4, <2>5 DEF RecoverRow
<1> QED
  BY <1>1, <1>2

(* The steps that leave the ledger alone.                                  *)
LEMMA OtherSteps ==
    ASSUME [Next]_vars
    PROVE  \/ UNCHANGED <<ledgerVars, outcome>>
           \/ \E r \in Run : \/ OpenGroup(r) /\ \A a \in Closure : Admitted(r, a)
                             \/ Mark(r) \/ Record(r)
                             \/ \E a \in Closure : RecoverRow(r, a)
BY DEF Next, ApplyStep, ReconcileStep, OpenGroup, Send, ReadBack, ApplyFails,
       StatementEnds, Select, ReconcileFails, SkipRow, ExternalCreate,
       ExternalDrop, vars, ledgerVars, historyVars

(* Every step adds at most one event to the chain of an address.           *)
LEMMA FramesStep ==
    ASSUME IInv, [Next]_vars, NEW a \in Closure
    PROVE  FrameStep(frame[a], frame'[a])
<1> USE DEF FrameStep
<1>0. frame = [b \in Closure |-> frame[b]]
  BY DEF IInv, TypeOK
<1>1. CASE UNCHANGED <<ledgerVars, outcome>>
  BY <1>1 DEF ledgerVars
<1>2. ASSUME NEW r \in Run, OpenGroup(r), \A b \in Closure : Admitted(r, b)
      PROVE  FrameStep(frame[a], frame'[a])
  BY <1>2, OpenWrites
<1>3. ASSUME NEW r \in Run, Mark(r) PROVE FrameStep(frame[a], frame'[a])
  BY <1>0, <1>3, MarkWrites DEF Closure
<1>4. ASSUME NEW r \in Run, Record(r) PROVE FrameStep(frame[a], frame'[a])
  <2>1. PhaseAt("ran", a) \in Phase \ {"indeterminate"}
    BY DEF PhaseAt, Phase
  <2>2. frame[a] = Claimed(r, PhaseAt("ran", a))
    BY <1>4, RecordWrites
  <2>3. frame'[a] = Claimed(r, "indeterminate") \/ frame'[a] = Closed("absent")
    BY <1>4, RecordWrites
  <2> HIDE DEF FrameStep
  <2>4. CASE frame'[a] = Claimed(r, "indeterminate")
    BY <2>1, <2>2, <2>4 DEF FrameStep
  <2>5. CASE frame'[a] = Closed("absent")
    BY <2>1, <2>2, <2>5 DEF FrameStep
  <2> QED
    BY <2>3, <2>4, <2>5
<1>5. ASSUME NEW r \in Run, NEW b \in Closure, RecoverRow(r, b)
      PROVE  FrameStep(frame[a], frame'[a])
  BY <1>0, <1>5, RowWrites DEF ledgerVars
<1> QED
  BY <1>1, <1>2, <1>3, <1>4, <1>5, OtherSteps

LEMMA FrameStepKeeps ==
    ASSUME NEW f, NEW g, FrameOK(f), FrameStep(f, g) PROVE FrameOK(g)
BY DEF FrameStep, FrameOK, Phase

LEMMA ChainInvStep == IInv /\ [Next]_vars => ChainInv'
BY FramesStep, FrameStepKeeps DEF IInv, ChainInv

-----------------------------------------------------------------------------
(* Type correctness.                                                       *)

FrameType ==
    [stable : StableState, claim : ClaimRecord \cup {NoClaim}] \cup {Malformed}

LEMMA FrameOKType == ASSUME NEW f, FrameOK(f) PROVE f \in FrameType
<1>1. CASE \E s \in {"managed", "absent"} : f = Closed(s)
  BY <1>1 DEF Closed, Frame, FrameType, StableState
<1>2. ASSUME NEW r \in Run, NEW p \in Phase, f = Claimed(r, p) PROVE f \in FrameType
  <2>1. Claim(r, p) \in ClaimRecord
    BY DEF Claim, ClaimRecord
  <2> QED
    BY <1>2, <2>1 DEF Claimed, Frame, FrameType, StableState
<1> QED
  BY <1>1, <1>2 DEF FrameOK

LEMMA LedgerTypes ==
    ASSUME IInv, [Next]_vars
    PROVE  /\ frame' \in [Closure -> FrameType]
           /\ recorded' \in [Closure -> 0 .. MaxIdentity]
           /\ reservation' \in [Closure -> Run \cup {None}]
           /\ outcome' \in [Run -> [Closure -> {None, "refused", "absent", "resolved"}]]
<1> DEFINE Goal ==
      /\ frame' = [a \in Closure |-> frame'[a]]
      /\ recorded' \in [Closure -> 0 .. MaxIdentity]
      /\ reservation' \in [Closure -> Run \cup {None}]
      /\ outcome' \in [Run -> [Closure -> {None, "refused", "absent", "resolved"}]]
<1>0. /\ frame = [a \in Closure |-> frame[a]]
      /\ recorded \in [Closure -> 0 .. MaxIdentity]
      /\ reservation \in [Closure -> Run \cup {None}]
      /\ outcome \in [Run -> [Closure -> {None, "refused", "absent", "resolved"}]]
      /\ live \in [Closure -> 0 .. MaxIdentity]
      /\ 0 \in 0 .. MaxIdentity
  BY GroupAssumption DEF IInv, TypeOK
<1>1. ASSUME UNCHANGED <<ledgerVars, outcome>> PROVE Goal
  <2>1. /\ frame' = frame /\ recorded' = recorded
        /\ reservation' = reservation /\ outcome' = outcome
    BY <1>1 DEF ledgerVars
  <2> QED
    BY <1>0, <2>1
<1>2. ASSUME NEW r \in Run, OpenGroup(r), \A a \in Closure : Admitted(r, a) PROVE Goal
  <2>1. /\ frame' = [a \in Closure |-> Claimed(r, "claimed")]
        /\ reservation' = [a \in Closure |-> r]
    BY <1>2, OpenWrites
  <2>2. recorded' = [a \in Closure |-> 0] /\ outcome' = outcome
    BY <1>2 DEF OpenGroup
  <2> QED
    BY <1>0, <2>1, <2>2
<1>3. ASSUME NEW r \in Run, Mark(r) PROVE Goal
  BY <1>0, <1>3, MarkWrites DEF Mark
<1>4. ASSUME NEW r \in Run, Record(r) PROVE Goal
  <2>1. CASE /\ frame' = [a \in Closure |-> Claimed(r, "indeterminate")]
             /\ recorded' = [a \in Closure |-> 0]
             /\ UNCHANGED <<reservation, outcome>>
    BY <1>0, <2>1
  <2>2. CASE /\ frame' = [a \in Closure |-> Closed("absent")]
             /\ recorded' = [a \in Closure |-> 0]
             /\ reservation' = [a \in Closure |-> None]
             /\ outcome' = [outcome EXCEPT ![r] = [a \in Closure |-> "absent"]]
    BY <1>0, <2>2
  <2> QED
    BY <1>4, <2>1, <2>2, RecordWrites
<1>5. ASSUME NEW r \in Run, NEW b \in Closure, RecoverRow(r, b) PROVE Goal
  <2>1. CASE UNCHANGED <<ledgerVars, outcome>>
    BY <1>0, <2>1 DEF ledgerVars
  <2>2. CASE /\ \E p \in Phase, s \in {"managed", "absent"} :
                   /\ frame[b] = Claimed(r, p)
                   /\ frame' = [frame EXCEPT ![b] = Closed(s)]
             /\ recorded' = [recorded EXCEPT ![b] = live[b]]
             /\ Recovery(b) \in {"refused", "absent"}
             /\ outcome' = [outcome EXCEPT ![r][b] = Recovery(b)]
             /\ ReleaseRow(r, b)
    <3>1. reservation' \in [Closure -> Run \cup {None}]
      BY <1>0, <2>2 DEF ReleaseRow
    <3>2. recorded' \in [Closure -> 0 .. MaxIdentity]
      BY <1>0, <2>2
    <3>3. frame' = [a \in Closure |-> frame'[a]]
      BY <1>0, <2>2
    <3>4. outcome' \in [Run -> [Closure -> {None, "refused", "absent", "resolved"}]]
      BY <1>0, <2>2
    <3> QED
      BY <3>1, <3>2, <3>3, <3>4
  <2> QED
    BY <1>5, <2>1, <2>2, RowWrites
<1>6. Goal
  BY <1>1, <1>2, <1>3, <1>4, <1>5, OtherSteps
<1>7. \A a \in Closure : frame'[a] \in FrameType
  BY ChainInvStep, FrameOKType DEF ChainInv
<1> HIDE DEF FrameType
<1> QED
  BY <1>6, <1>7

LEMMA TypeOKStep == IInv /\ [Next]_vars => TypeOK'
<1> SUFFICES ASSUME IInv, [Next]_vars PROVE TypeOK'
  OBVIOUS
<1> DEFINE Rest ==
      /\ live' \in [Closure -> 0 .. MaxIdentity]
      /\ minted' \in [Closure -> 1 .. MaxIdentity]
      /\ runLock' \in [Run -> {"free", "apply", "reconcile"}]
      /\ pc' \in [Run -> BusyPc \cup {"idle", "stopped"}]
      /\ stmt' \in [Run -> {"none", "running", "done", "failed"}]
      /\ survivors' \in [Run -> SUBSET Closure]
      /\ todo' \in [Run -> SUBSET Closure]
      /\ faults' \in 0 .. MaxFaults
      /\ dropped' \in [Run -> SUBSET Closure]
      /\ gone' \in [Run -> SUBSET Closure]
<1>0. TypeOK
  BY DEF IInv
<1> USE GroupAssumption DEF BusyPc
<1>W. Witness => gone' \in [Run -> SUBSET Closure]
  BY <1>0 DEF Witness, TypeOK
<1>1. ASSUME NEW r \in Run, OpenGroup(r) PROVE Rest
  BY <1>0, <1>1, <1>W DEF OpenGroup, TypeOK, Stop, catalogueVars
<1>2. ASSUME NEW r \in Run, Mark(r) PROVE Rest
  BY <1>0, <1>2, <1>W DEF Mark, TypeOK, Goto, catalogueVars
<1>3. ASSUME NEW r \in Run, Send(r) PROVE Rest
  BY <1>0, <1>3 DEF Send, TypeOK, Goto, Stop, catalogueVars, historyVars
<1>4. ASSUME NEW r \in Run, ReadBack(r) PROVE Rest
  <2>1. \/ UNCHANGED survivors
        \/ survivors' = [survivors EXCEPT ![r] = {a \in Closure : live[a] # 0}]
    BY <1>4 DEF ReadBack
  <2>2. survivors' \in [Run -> SUBSET Closure]
    <3> DEFINE found == {a \in Closure : live[a] # 0}
    <3>1. found \in SUBSET Closure /\ survivors \in [Run -> SUBSET Closure]
      BY <1>0 DEF TypeOK
    <3>2. survivors' = survivors \/ survivors' = [survivors EXCEPT ![r] = found]
      BY <2>1
    <3> HIDE DEF found
    <3> QED
      BY <3>1, <3>2
  <2>3. \/ pc' = [pc EXCEPT ![r] = "stopped"] /\ runLock' = [runLock EXCEPT ![r] = "free"]
        \/ pc' = [pc EXCEPT ![r] = "ran"] /\ UNCHANGED runLock
    BY <1>4 DEF ReadBack, Goto, Stop
  <2>4. /\ pc' \in [Run -> BusyPc \cup {"idle", "stopped"}]
        /\ runLock' \in [Run -> {"free", "apply", "reconcile"}]
    BY <1>0, <2>3 DEF TypeOK
  <2>5. UNCHANGED <<catalogueVars, stmt, todo, faults, historyVars>>
    BY <1>4 DEF ReadBack
  <2> QED
    BY <1>0, <2>2, <2>4, <2>5 DEF TypeOK, catalogueVars, historyVars
<1>5. ASSUME NEW r \in Run, Record(r) PROVE Rest
  BY <1>0, <1>5, <1>W DEF Record, TypeOK, Stop, catalogueVars
<1>6. ASSUME NEW r \in Run, ApplyFails(r) PROVE Rest
  BY <1>0, <1>6 DEF ApplyFails, TypeOK, Stop, catalogueVars, historyVars
<1>7. ASSUME NEW r \in Run, StatementEnds(r) PROVE Rest
  <2>1. CASE UNCHANGED <<live, dropped>>
    BY <1>0, <1>7, <1>W, <2>1 DEF StatementEnds, TypeOK
  <2>2. CASE ~UNCHANGED <<live, dropped>>
    <3>1. PICK kept \in SUBSET Members :
             /\ live' = [a \in Closure |-> IF a \in kept THEN live[a] ELSE 0]
             /\ dropped' = [dropped EXCEPT ![r] = {a \in Closure \ kept : live[a] # 0}]
      BY <1>7, <2>2 DEF StatementEnds
    <3>2. live' \in [Closure -> 0 .. MaxIdentity]
      BY <1>0, <3>1 DEF TypeOK
    <3>3. dropped' \in [Run -> SUBSET Closure]
      BY <1>0, <3>1 DEF TypeOK
    <3> QED
      BY <1>0, <1>7, <1>W, <3>2, <3>3 DEF StatementEnds, TypeOK
  <2> QED
    BY <2>1, <2>2
<1>8. ASSUME NEW r \in Run, Select(r) PROVE Rest
  BY <1>0, <1>8 DEF Select, Rows, TypeOK, catalogueVars, historyVars
<1>9. ASSUME NEW r \in Run, ReconcileFails(r) PROVE Rest
  BY <1>0, <1>9 DEF ReconcileFails, TypeOK, catalogueVars, historyVars
<1>10. ASSUME NEW r \in Run, NEW a \in Closure, RecoverRow(r, a) PROVE Rest
  BY <1>0, <1>10, <1>W DEF RecoverRow, RowDone, TypeOK, catalogueVars
<1>11. ASSUME NEW r \in Run, NEW a \in Closure, SkipRow(r, a) PROVE Rest
  BY <1>0, <1>11 DEF SkipRow, RowDone, TypeOK, catalogueVars, historyVars
<1>12. ASSUME NEW a \in Closure, ExternalCreate(a) PROVE Rest
  BY <1>0, <1>12 DEF ExternalCreate, TypeOK, historyVars
<1>13. ASSUME NEW a \in Closure, ExternalDrop(a) PROVE Rest
  BY <1>0, <1>13, <1>W DEF ExternalDrop, TypeOK
<1>14. ASSUME UNCHANGED vars PROVE Rest
  <2>1. UNCHANGED <<catalogueVars, runLock, pc, stmt, survivors, todo, faults, historyVars>>
    BY <1>14 DEF vars
  <2> QED
    BY <1>0, <2>1 DEF TypeOK, catalogueVars, historyVars
<1> HIDE DEF Rest
<1>15. Rest
  BY <1>1, <1>2, <1>3, <1>4, <1>5, <1>6, <1>7, <1>8, <1>9, <1>10, <1>11,
     <1>12, <1>13, <1>14 DEF Next, ApplyStep, ReconcileStep
<1> QED
  BY <1>15, LedgerTypes DEF Rest, TypeOK, FrameType

-----------------------------------------------------------------------------
(* The other conjuncts of the invariant.                                   *)

LEMMA LockInvStep == IInv /\ [Next]_vars => LockInv'
<1> SUFFICES ASSUME IInv, [Next]_vars PROVE LockInv'
  OBVIOUS
<1>0. TypeOK /\ LockInv /\ RunInv
  BY DEF IInv
<1> USE GroupAssumption DEF BusyPc, LockInv
<1>1. ASSUME NEW r \in Run, OpenGroup(r) PROVE LockInv'
  <2>1. CASE \A a \in Closure : Admitted(r, a)
    <3>1. \A a \in Closure : reservation[a] = None
      BY <1>1, <2>1, OpenWrites
    <3>2. \A q \in Run : todo[q] = {}
      BY <1>0, <3>1 DEF TypeOK
    <3>3. /\ pc' = [pc EXCEPT ![r] = "claimed"]
          /\ runLock' = [runLock EXCEPT ![r] = "apply"]
          /\ todo' = todo
      BY <1>1, <2>1 DEF OpenGroup
    <3> QED
      BY <1>0, <3>2, <3>3 DEF TypeOK
  <2>2. CASE ~\A a \in Closure : Admitted(r, a)
    BY <1>0, <1>1, <2>2 DEF OpenGroup, Stop, TypeOK, ledgerVars
  <2> QED
    BY <2>1, <2>2
<1>2. ASSUME NEW r \in Run, Mark(r) PROVE LockInv'
  BY <1>0, <1>2 DEF Mark, TypeOK, Goto
<1>3. ASSUME NEW r \in Run, Send(r) PROVE LockInv'
  BY <1>0, <1>3 DEF Send, TypeOK, Goto, Stop, ledgerVars
<1>4. ASSUME NEW r \in Run, ReadBack(r) PROVE LockInv'
  BY <1>0, <1>4 DEF ReadBack, TypeOK, Goto, Stop, ledgerVars
<1>5. ASSUME NEW r \in Run, Record(r) PROVE LockInv'
  <2>1. todo[r] = {}
    BY <1>0, <1>5 DEF Record, TypeOK
  <2>2. \A a \in Closure : reservation[a] = r
    BY <1>5, RecordWrites
  <2>3. \A q \in Run : todo[q] = {}
    BY <1>0, <2>1, <2>2 DEF TypeOK
  <2> QED
    BY <1>0, <1>5, <2>3 DEF Record, TypeOK, Stop
<1>6. ASSUME NEW r \in Run, ApplyFails(r) PROVE LockInv'
  BY <1>0, <1>6 DEF ApplyFails, TypeOK, Stop, ledgerVars
<1>7. ASSUME NEW r \in Run, StatementEnds(r) PROVE LockInv'
  BY <1>0, <1>7 DEF StatementEnds, ledgerVars
<1>8. ASSUME NEW r \in Run, Select(r) PROVE LockInv'
  BY <1>0, <1>8 DEF Select, Rows, TypeOK, ledgerVars
<1>9. ASSUME NEW r \in Run, ReconcileFails(r) PROVE LockInv'
  BY <1>0, <1>9 DEF ReconcileFails, TypeOK, ledgerVars
<1>10. ASSUME NEW r \in Run, NEW a \in Closure, RecoverRow(r, a) PROVE LockInv'
  <2>1. /\ \A b \in Closure \ {a} : reservation'[b] = reservation[b]
        /\ RowDone(r, a) /\ pc' = pc /\ a \in todo[r] /\ reservation[a] = r
    BY <1>0, <1>10 DEF RecoverRow, ReleaseRow, ledgerVars, TypeOK
  <2>2. \A q \in Run : q # r => a \notin todo[q]
    BY <1>0, <2>1
  <2>3. \A q \in Run : todo'[q] = todo[q] \ {a}
    BY <1>0, <2>1, <2>2 DEF RowDone, TypeOK
  <2>4. \A q \in Run : \A b \in todo'[q] : reservation'[b] = q
    BY <1>0, <2>1, <2>3 DEF TypeOK
  <2>5. \A q \in Run : runLock'[q] = IF q = r /\ todo[r] = {a} THEN "free" ELSE runLock[q]
    BY <1>0, <2>1 DEF RowDone, TypeOK
  <2>6. runLock[r] = "reconcile"
    BY <1>0, <2>1
  <2> QED
    BY <1>0, <2>1, <2>3, <2>4, <2>5, <2>6
<1>11. ASSUME NEW r \in Run, NEW a \in Closure, SkipRow(r, a) PROVE LockInv'
  <2>1. runLock[r] = "reconcile"
    BY <1>0, <1>11 DEF SkipRow
  <2>2. \A q \in Run : runLock'[q] = IF q = r /\ todo[r] = {a} THEN "free" ELSE runLock[q]
    BY <1>0, <1>11 DEF SkipRow, RowDone, TypeOK
  <2>3. \A q \in Run : todo'[q] = IF q = r THEN todo[r] \ {a} ELSE todo[q]
    BY <1>0, <1>11 DEF SkipRow, RowDone, TypeOK
  <2> QED
    BY <1>0, <1>11, <2>1, <2>2, <2>3 DEF SkipRow, ledgerVars
<1>12. CASE UNCHANGED <<ledgerVars, runLock, pc, todo>>
  BY <1>0, <1>12 DEF ledgerVars
<1>13. CASE UNCHANGED vars
  BY <1>12, <1>13 DEF vars
<1>14. ASSUME NEW a \in Closure, ExternalCreate(a) \/ ExternalDrop(a) PROVE LockInv'
  BY <1>12, <1>14 DEF ExternalCreate, ExternalDrop
<1> HIDE DEF LockInv
<1> QED
  BY <1>1, <1>2, <1>3, <1>4, <1>5, <1>6, <1>7, <1>8, <1>9, <1>10, <1>11,
     <1>13, <1>14
     DEF Next, ApplyStep, ReconcileStep

(* A claim is closed before its reservation goes, and opened with it.      *)
LEMMA ReservedStep == IInv /\ [Next]_vars => OpenClaimIsReserved'
<1> SUFFICES ASSUME IInv, [Next]_vars, NEW a \in Closure, IsOpen(frame'[a])
             PROVE  reservation'[a] = frame'[a].claim.id
  BY DEF OpenClaimIsReserved
<1>0. TypeOK /\ OpenClaimIsReserved
  BY DEF IInv
<1>1. CASE UNCHANGED <<ledgerVars, outcome>>
  BY <1>0, <1>1 DEF OpenClaimIsReserved, ledgerVars
<1>2. ASSUME NEW r \in Run, OpenGroup(r), \A b \in Closure : Admitted(r, b)
      PROVE  reservation'[a] = frame'[a].claim.id
  BY <1>2, OpenWrites, ClaimFacts DEF Phase
<1>3. ASSUME NEW r \in Run, Mark(r) PROVE reservation'[a] = frame'[a].claim.id
  <2>1. /\ frame[a] = Claimed(r, "claimed") /\ reservation' = reservation
        /\ frame'[a] = Claimed(r, "claimed") \/ frame'[a] = Claimed(r, "executing")
    BY <1>0, <1>3, MarkWrites DEF Mark, TypeOK
  <2>2. IsOpen(frame[a]) /\ frame[a].claim.id = r /\ frame'[a].claim.id = r
    BY <2>1, ClaimFacts DEF Phase
  <2> QED
    BY <1>0, <2>1, <2>2 DEF OpenClaimIsReserved
<1>4. ASSUME NEW r \in Run, Record(r) PROVE reservation'[a] = frame'[a].claim.id
  <2>1. frame'[a] # Closed("absent")
    BY ClosedFacts
  <2>2. frame'[a] = Claimed(r, "indeterminate") /\ reservation'[a] = r
    BY <1>4, <2>1, RecordWrites
  <2> QED
    BY <2>2, ClaimFacts DEF Phase
<1>5. ASSUME NEW r \in Run, NEW b \in Closure, RecoverRow(r, b)
      PROVE  reservation'[a] = frame'[a].claim.id
  <2>1. CASE UNCHANGED <<ledgerVars, outcome>>
    BY <1>1, <2>1
  <2>2. CASE /\ \E s \in {"managed", "absent"} : frame' = [frame EXCEPT ![b] = Closed(s)]
             /\ ReleaseRow(r, b)
    <3>1. a # b
      BY <1>0, <2>2, ClosedFacts DEF TypeOK
    <3>2. frame'[a] = frame[a] /\ reservation'[a] = reservation[a]
      BY <1>0, <2>2, <3>1 DEF TypeOK, ReleaseRow
    <3> QED
      BY <1>0, <3>2 DEF OpenClaimIsReserved
  <2> QED
    BY <1>5, <2>1, <2>2, RowWrites
<1> QED
  BY <1>1, <1>2, <1>3, <1>4, <1>5, OtherSteps

(* While its executor lives, the group is nobody else's.                   *)
LEMMA OneOwner ==
    ASSUME IInv, NEW q \in Run, pc[q] \in BusyPc, NEW r \in Run, r # q,
           NEW a \in Closure
    PROVE  /\ \A p \in Phase : frame[a] # Claimed(r, p)
           /\ \A s : frame[a] # Closed(s)
           /\ reservation[a] = q
           /\ a \notin todo[r]
<1>1. frame[a] = Claimed(q, PhaseAt(pc[q], a)) /\ reservation[a] = q
  BY DEF IInv, RunInv
<1>2. PhaseAt(pc[q], a) \in Phase
  BY DEF PhaseAt, Phase
<1>3. frame[a].claim.id = q /\ IsOpen(frame[a])
  BY <1>1, <1>2, ClaimFacts
<1>4. a \notin todo[r]
  BY <1>1 DEF IInv, LockInv
<1> QED
  BY <1>1, <1>3, <1>4, ClaimFacts, ClosedFacts

LEMMA RunInvStep == IInv /\ [Next]_vars => RunInv'
<1> DEFINE
      Idle(q) == pc[q] = "idle" =>
                   \A a \in Closure : reservation[a] # q /\ outcome[q][a] = None
      Busy(q) == pc[q] \in BusyPc =>
                   \A a \in Closure : /\ frame[a] = Claimed(q, PhaseAt(pc[q], a))
                                      /\ reservation[a] = q
      Stmt(q) == /\ pc[q] \in {"idle", "claimed", "sending"} => stmt[q] = "none"
                 /\ stmt[q] = "none" => dropped[q] = {}
                 /\ frame[Root] = Claimed(q, "claimed") => stmt[q] = "none"
                 /\ outcome[q][Root] = "refused" =>
                       pc[q] = "stopped" /\ stmt[q] = "none"
      All(q) == Idle(q) /\ Busy(q) /\ Stmt(q)
<1> SUFFICES ASSUME IInv, [Next]_vars, NEW q \in Run PROVE All(q)'
  BY DEF RunInv
<1>0. /\ TypeOK /\ LockInv /\ All(q)
      /\ \A r \in Run : All(r)
      /\ Root \in Closure
  BY DEF IInv, RunInv, Closure
<1> USE GroupAssumption DEF BusyPc
<1>1. ASSUME NEW r \in Run, OpenGroup(r) PROVE All(q)'
  <2>1. CASE \A a \in Closure : Admitted(r, a)
    <3>1. /\ \A a \in Closure : frame[a] = Closed("managed")
          /\ frame' = [a \in Closure |-> Claimed(r, "claimed")]
          /\ reservation' = [a \in Closure |-> r]
      BY <1>1, <2>1, OpenWrites
    <3>2. /\ pc[r] = "idle" /\ pc' = [pc EXCEPT ![r] = "claimed"]
          /\ UNCHANGED <<stmt, dropped, outcome>>
      BY <1>1, <2>1 DEF OpenGroup
    <3>3. CASE q = r
      <4>1. Idle(q)' /\ Stmt(q)'
        BY <1>0, <3>2, <3>3 DEF TypeOK
      <4>2. Busy(q)'
        BY <1>0, <3>1, <3>2, <3>3 DEF TypeOK, PhaseAt
      <4> QED
        BY <4>1, <4>2
    <3>4. CASE q # r
      <4>1. pc[q] \notin BusyPc /\ pc'[q] = pc[q]
        BY <1>0, <3>1, <3>2, <3>4, OneOwner DEF TypeOK
      <4>2. frame'[Root] # Claimed(q, "claimed")
        BY <1>0, <3>1, <3>4, ClaimFacts DEF Phase
      <4> QED
        BY <1>0, <3>1, <3>2, <3>4, <4>1, <4>2
    <3> QED
      BY <3>3, <3>4
  <2>2. CASE ~\A a \in Closure : Admitted(r, a)
    BY <1>0, <1>1, <2>2 DEF OpenGroup, Stop, TypeOK, ledgerVars
  <2> QED
    BY <2>1, <2>2
<1>2. ASSUME NEW r \in Run, Mark(r) PROVE All(q)'
  <2>1. /\ \A a \in Closure : frame[a] = Claimed(r, "claimed")
        /\ frame' = [frame EXCEPT ![Root] = Claimed(r, "executing")]
    BY <1>2, MarkWrites
  <2>2. /\ pc[r] = "claimed" /\ pc' = [pc EXCEPT ![r] = "sending"]
        /\ UNCHANGED <<reservation, stmt, dropped, outcome>>
    BY <1>2 DEF Mark, Goto
  <2>3. frame'[Root] # Claimed(q, "claimed")
    <3>1. frame'[Root] = Claimed(r, "executing")
      BY <1>0, <2>1 DEF TypeOK
    <3>2. frame'[Root].claim.phase = "executing"
      BY <3>1, ClaimFacts DEF Phase
    <3> QED
      BY <3>2, ClaimFacts DEF Phase
  <2>4. CASE q = r
    BY <1>0, <2>1, <2>2, <2>3, <2>4 DEF TypeOK, PhaseAt
  <2>5. CASE q # r
    <3>1. pc[q] \notin BusyPc /\ pc'[q] = pc[q]
      BY <1>0, <2>1, <2>2, <2>5, OneOwner DEF TypeOK, Phase
    <3> QED
      BY <1>0, <2>2, <2>3, <2>5, <3>1
  <2> QED
    BY <2>4, <2>5
<1>3. ASSUME NEW r \in Run, Send(r) PROVE All(q)'
  <2>1. frame[Root] = Claimed(r, "executing")
    BY <1>0, <1>3 DEF Send, PhaseAt
  <2>2. frame[Root] # Claimed(r, "claimed")
    BY <2>1, ClaimFacts DEF Phase
  <2>3. CASE ClaimOpen(r, Root)
    BY <1>0, <1>3, <2>2, <2>3 DEF Send, Goto, TypeOK, PhaseAt, ledgerVars, historyVars
  <2>4. CASE ~ClaimOpen(r, Root)
    BY <1>0, <1>3, <2>4 DEF Send, Stop, TypeOK, ledgerVars, historyVars
  <2> QED
    BY <2>3, <2>4
<1>4. ASSUME NEW r \in Run, ReadBack(r) PROVE All(q)'
  <2>1. CASE stmt[r] = "done"
    BY <1>0, <1>4, <2>1 DEF ReadBack, Goto, TypeOK, PhaseAt, ledgerVars, historyVars
  <2>2. CASE stmt[r] # "done"
    BY <1>0, <1>4, <2>2 DEF ReadBack, Stop, TypeOK, ledgerVars, historyVars
  <2> QED
    BY <2>1, <2>2
<1>5. ASSUME NEW r \in Run, Record(r) PROVE All(q)'
  <2>1. /\ pc[r] = "ran" /\ pc' = [pc EXCEPT ![r] = "stopped"]
        /\ UNCHANGED <<stmt, dropped>>
    BY <1>5 DEF Record, Stop
  <2>2. \A a \in Closure : frame[a] = Claimed(r, PhaseAt("ran", a)) /\ reservation[a] = r
    BY <1>5, RecordWrites
  <2>3. \A a \in Closure : reservation'[a] \in {r, None}
    BY <1>5, <2>2, RecordWrites
  <2>4. \A a \in Closure : outcome'[q][a] = outcome[q][a] \/ (q = r /\ outcome'[q][a] = "absent")
    BY <1>0, <1>5, RecordWrites DEF TypeOK
  <2>5. frame'[Root] # Claimed(q, "claimed")
    BY <1>0, <1>5, RecordWrites, ClaimFacts, ClosedFacts DEF Phase
  <2>6. q # r => pc[q] \notin BusyPc
    <3>1. PhaseAt("ran", Root) \in Phase
      BY DEF PhaseAt, Phase
    <3> QED
      BY <1>0, <2>2, <3>1, OneOwner
  <2> QED
    BY <1>0, <2>1, <2>3, <2>4, <2>5, <2>6 DEF TypeOK
<1>6. ASSUME NEW r \in Run, ApplyFails(r) PROVE All(q)'
  BY <1>0, <1>6 DEF ApplyFails, Stop, TypeOK, ledgerVars, historyVars
<1>7. ASSUME NEW r \in Run, StatementEnds(r) PROVE All(q)'
  <2>1. /\ stmt[r] = "running" /\ stmt'[r] # "none"
        /\ \A p \in Run \ {r} : stmt'[p] = stmt[p] /\ dropped'[p] = dropped[p]
        /\ UNCHANGED <<ledgerVars, pc, outcome>>
    BY <1>0, <1>7 DEF StatementEnds, TypeOK
  <2> QED
    BY <1>0, <2>1 DEF ledgerVars
<1>8. ASSUME NEW r \in Run, NEW a \in Closure, RecoverRow(r, a) PROVE All(q)'
  <2>1. CASE UNCHANGED <<ledgerVars, outcome>>
    BY <1>0, <1>8, <2>1 DEF RecoverRow, ledgerVars
  <2>2. CASE /\ \E p \in Phase, s \in {"managed", "absent"} :
                   /\ frame[a] = Claimed(r, p)
                   /\ frame' = [frame EXCEPT ![a] = Closed(s)]
                   /\ Recovery(a) = "refused" => p = "claimed"
             /\ outcome' = [outcome EXCEPT ![r][a] = Recovery(a)]
             /\ ReleaseRow(r, a)
    <3>1. PICK p \in Phase, s \in {"managed", "absent"} :
             /\ frame[a] = Claimed(r, p)
             /\ frame' = [frame EXCEPT ![a] = Closed(s)]
             /\ Recovery(a) = "refused" => p = "claimed"
      BY <2>2
    <3>2. /\ a \in todo[r] /\ reservation[a] = r /\ runLock[r] = "reconcile"
          /\ UNCHANGED <<pc, stmt, dropped>>
      BY <1>0, <1>8 DEF RecoverRow, LockInv
    <3>3. pc[r] = "stopped"
      BY <1>0, <3>2 DEF LockInv, TypeOK
    <3>4. pc[q] \notin BusyPc
      BY <3>2, <3>3, OneOwner
    <3>5. \A b \in Closure : reservation'[b] \in {reservation[b], None}
      BY <1>0, <2>2 DEF ReleaseRow, TypeOK
    <3>6. \A b \in Closure :
             outcome'[q][b] = IF q = r /\ b = a THEN Recovery(a) ELSE outcome[q][b]
      BY <1>0, <2>2 DEF TypeOK
    <3>7. frame'[Root] = Claimed(q, "claimed") => frame[Root] = Claimed(q, "claimed")
      BY <1>0, <3>1, ClaimFacts, ClosedFacts DEF TypeOK, Phase
    <3>8. a = Root /\ Recovery(a) = "refused" => stmt[r] = "none"
      BY <1>0, <3>1
    <3> QED
      BY <1>0, <3>2, <3>3, <3>4, <3>5, <3>6, <3>7, <3>8
  <2> QED
    BY <1>8, <2>1, <2>2, RowWrites
<1>9. ASSUME UNCHANGED <<frame, reservation, pc, stmt, dropped, outcome>> PROVE All(q)'
  BY <1>0, <1>9
<1>10. ASSUME NEW r \in Run,
              \/ Select(r) \/ ReconcileFails(r) \/ \E a \in Closure : SkipRow(r, a)
       PROVE  All(q)'
  BY <1>9, <1>10 DEF Select, ReconcileFails, SkipRow, ledgerVars, historyVars
<1>11. ASSUME NEW a \in Closure, ExternalCreate(a) \/ ExternalDrop(a) PROVE All(q)'
  BY <1>9, <1>11 DEF ExternalCreate, ExternalDrop, ledgerVars, historyVars
<1>12. ASSUME UNCHANGED vars PROVE All(q)'
  BY <1>9, <1>12 DEF vars, ledgerVars, historyVars
<1> HIDE DEF All
<1> QED
  BY <1>1, <1>2, <1>3, <1>4, <1>5, <1>6, <1>7, <1>8, <1>10, <1>11, <1>12
     DEF Next, ApplyStep, ReconcileStep

(* A step that may open a claim or empty an address notes what is empty;   *)
(* any other leaves what GoneInv speaks of as it was.                      *)
LEMMA NotesEmptyAddresses ==
    ASSUME IInv, [Next]_vars
    PROVE  \/ Witness
           \/ /\ UNCHANGED <<frame, gone>>
              /\ \A a \in Closure : live'[a] = 0 => live[a] = 0
<1>0. TypeOK
  BY DEF IInv
<1>1. ASSUME NEW a \in Closure, ExternalCreate(a)
      PROVE  /\ UNCHANGED <<frame, gone>>
             /\ \A b \in Closure : live'[b] = 0 => live[b] = 0
  <2>1. minted[a] \in Nat
    BY <1>0 DEF TypeOK
  <2>2. minted[a] + 1 # 0
    BY <2>1
  <2> QED
    BY <1>0, <1>1, <2>2 DEF ExternalCreate, ledgerVars, historyVars, TypeOK
<1> QED
  BY <1>1 DEF Next, ApplyStep, ReconcileStep, OpenGroup, Mark, Send, ReadBack,
       Record, ApplyFails, StatementEnds, Select, ReconcileFails, RecoverRow,
       SkipRow, ExternalDrop, vars, ledgerVars, catalogueVars, historyVars

LEMMA GoneInvStep == IInv /\ [Next]_vars => GoneInv'
<1> SUFFICES ASSUME IInv, [Next]_vars, NEW q \in Run
             PROVE  /\ \A a \in Closure : ClaimOpen(q, a)' /\ live'[a] = 0 => a \in gone'[q]
                    /\ pc'[q] = "ran" => Closure \ survivors'[q] \subseteq gone'[q]
                    /\ \A a \in Closure : outcome'[q][a] = "absent" => a \in gone'[q]
  BY DEF GoneInv
<1>0. /\ TypeOK /\ LockInv
      /\ \A a \in Closure : ClaimOpen(q, a) /\ live[a] = 0 => a \in gone[q]
      /\ pc[q] = "ran" => Closure \ survivors[q] \subseteq gone[q]
      /\ \A a \in Closure : outcome[q][a] = "absent" => a \in gone[q]
  BY DEF IInv, GoneInv
<1>1. gone[q] \subseteq gone'[q]
  <2>1. CASE Witness
    BY <2>1 DEF Witness
  <2> QED
    BY <2>1, NotesEmptyAddresses
<1>2. \A a \in Closure : ClaimOpen(q, a)' /\ live'[a] = 0 => a \in gone'[q]
  <2>1. CASE Witness
    BY <2>1 DEF Witness, ClaimOpen
  <2>2. CASE /\ UNCHANGED <<frame, gone>>
             /\ \A a \in Closure : live'[a] = 0 => live[a] = 0
    BY <1>0, <2>2 DEF ClaimOpen
  <2> QED
    BY <2>1, <2>2, NotesEmptyAddresses
<1>3. pc'[q] = "ran" => Closure \ survivors'[q] \subseteq gone'[q]
  <2> SUFFICES ASSUME pc'[q] = "ran"
               PROVE  Closure \ survivors'[q] \subseteq gone'[q]
    OBVIOUS
  <2>1. CASE ReadBack(q) /\ stmt[q] = "done"
    <3>1. survivors'[q] = {a \in Closure : live[a] # 0} /\ pc[q] = "running"
      BY <1>0, <2>1 DEF ReadBack, TypeOK
    <3>2. \A a \in Closure : ClaimOpen(q, a)
      <4>1. \A a \in Closure : frame[a] = Claimed(q, PhaseAt("running", a))
        BY <3>1 DEF IInv, RunInv, BusyPc
      <4>2. \A a \in Closure : PhaseAt("running", a) \in Phase
        BY DEF PhaseAt, Phase
      <4> QED
        BY <4>1, <4>2, ClaimFacts DEF ClaimOpen
    <3> QED
      BY <1>0, <1>1, <3>1, <3>2
  <2>2. CASE ~(ReadBack(q) /\ stmt[q] = "done")
    <3>1. pc[q] = "ran" /\ survivors'[q] = survivors[q]
      <4>1. ASSUME NEW r \in Run, OpenGroup(r) PROVE pc[q] = "ran" /\ survivors'[q] = survivors[q]
        BY <1>0, <4>1 DEF OpenGroup, Stop, TypeOK
      <4>2. ASSUME NEW r \in Run, Mark(r) \/ Send(r) \/ Record(r) \/ ApplyFails(r)
            PROVE  pc[q] = "ran" /\ survivors'[q] = survivors[q]
        BY <1>0, <4>2 DEF Mark, Send, Record, ApplyFails, Goto, Stop, TypeOK
      <4>3. ASSUME NEW r \in Run, ReadBack(r) PROVE pc[q] = "ran" /\ survivors'[q] = survivors[q]
        <5>1. CASE r = q
          BY <1>0, <2>2, <4>3, <5>1 DEF ReadBack, Stop, TypeOK
        <5>2. CASE r # q
          BY <1>0, <4>3, <5>2 DEF ReadBack, Goto, Stop, TypeOK
        <5> QED
          BY <5>1, <5>2
      <4>4. ASSUME UNCHANGED <<pc, survivors>> PROVE pc[q] = "ran" /\ survivors'[q] = survivors[q]
        BY <4>4
      <4>5. ASSUME NEW r \in Run, \/ StatementEnds(r) \/ ReconcileStep(r)
            PROVE  UNCHANGED <<pc, survivors>>
        BY <4>5 DEF StatementEnds, ReconcileStep, Select, ReconcileFails, RecoverRow, SkipRow
      <4>6. ASSUME NEW a \in Closure, ExternalCreate(a) \/ ExternalDrop(a)
            PROVE  UNCHANGED <<pc, survivors>>
        BY <4>6 DEF ExternalCreate, ExternalDrop
      <4>7. ASSUME UNCHANGED vars PROVE UNCHANGED <<pc, survivors>>
        BY <4>7 DEF vars
      <4> QED
        BY <4>1, <4>2, <4>3, <4>4, <4>5, <4>6, <4>7 DEF Next, ApplyStep
    <3> QED
      BY <1>0, <1>1, <3>1
  <2> QED
    BY <2>1, <2>2
<1>4. \A a \in Closure : outcome'[q][a] = "absent" => a \in gone'[q]
  <2> SUFFICES ASSUME NEW a \in Closure, outcome'[q][a] = "absent", outcome[q][a] # "absent"
               PROVE  a \in gone[q]
    BY <1>0, <1>1
  <2>1. ASSUME NEW r \in Run, Record(r) PROVE a \in gone[q]
    <3>1. r = q /\ survivors[r] = {} /\ pc[r] = "ran"
      BY <1>0, <2>1, RecordWrites DEF Record, TypeOK
    <3> QED
      BY <1>0, <3>1
  <2>2. ASSUME NEW r \in Run, NEW b \in Closure, RecoverRow(r, b) PROVE a \in gone[q]
    <3>1. outcome' # outcome
      OBVIOUS
    <3>2. /\ \E p \in Phase : frame[b] = Claimed(r, p)
          /\ Recovery(b) = "refused" \/ (Recovery(b) = "absent" /\ live[b] = 0)
          /\ outcome' = [outcome EXCEPT ![r][b] = Recovery(b)]
      <4>1. RecoverRow(r, b)
        BY <2>2
      <4>2. ~ UNCHANGED <<ledgerVars, outcome>>
        BY <3>1
      <4> HIDE DEF RecoverRow, ledgerVars, Recovery
      <4> QED
        BY <1>0, <4>1, <4>2, RowWrites
    <3>3. r = q /\ a = b /\ live[b] = 0
      BY <1>0, <3>2 DEF TypeOK
    <3>4. ClaimOpen(q, a)
      BY <3>2, <3>3, ClaimFacts DEF ClaimOpen
    <3> QED
      BY <1>0, <3>3, <3>4
  <2>3. ASSUME NEW r \in Run, OpenGroup(r) \/ Mark(r) PROVE a \in gone[q]
    BY <2>3 DEF OpenGroup, Mark
  <2> QED
    BY <2>1, <2>2, <2>3, OtherSteps
<1> QED
  BY <1>2, <1>3, <1>4

-----------------------------------------------------------------------------
(* The theorems.                                                           *)

LEMMA InitIInv == Init => IInv
<1> SUFFICES ASSUME Init PROVE IInv
  OBVIOUS
<1> USE GroupAssumption
<1>1. \A a \in Closure : frame[a] = Closed("managed")
  BY DEF Init, Closed
<1>2. ChainInv
  BY <1>1 DEF ChainInv, FrameOK
<1>3. TypeOK
  <2>1. \A a \in Closure : frame[a] \in FrameType
    BY <1>2, FrameOKType DEF ChainInv
  <2>2. frame \in [Closure -> FrameType]
    BY <2>1 DEF Init
  <2>3. 0 \in 0 .. MaxIdentity /\ 1 \in 0 .. MaxIdentity /\ 1 \in 1 .. MaxIdentity
        /\ 0 \in 0 .. MaxFaults
    OBVIOUS
  <2> QED
    BY <2>2, <2>3 DEF Init, TypeOK, FrameType
<1>4. /\ \A a \in Closure : ~IsOpen(frame[a]) /\ frame[a].claim.id = None
      /\ \A r \in Run : frame[Root] # Claimed(r, "claimed")
  BY <1>1, ClosedFacts, ClaimFacts DEF Phase, Closure
<1>5. OpenClaimIsReserved /\ LockInv
  BY <1>4 DEF Init, OpenClaimIsReserved, LockInv, BusyPc
<1>6. RunInv
  <2>1. ASSUME NEW r \in Run
        PROVE  /\ pc[r] = "idle" /\ stmt[r] = "none" /\ dropped[r] = {}
               /\ \A a \in Closure : reservation[a] # r /\ outcome[r][a] = None
    BY DEF Init
  <2>2. Root \in Closure /\ None # "refused"
    BY DEF Closure, None
  <2> HIDE DEF Init
  <2> QED
    BY <1>4, <2>1, <2>2 DEF RunInv, BusyPc
<1>7. GoneInv
  <2>1. ASSUME NEW r \in Run
        PROVE  /\ pc[r] # "ran"
               /\ \A a \in Closure : ~ClaimOpen(r, a) /\ outcome[r][a] # "absent"
    BY <1>4 DEF Init, ClaimOpen, None
  <2> HIDE DEF Init
  <2> QED
    BY <2>1 DEF GoneInv
<1> QED
  BY <1>2, <1>3, <1>5, <1>6, <1>7 DEF IInv

(* IInv holds of every reachable state.                                    *)
THEOREM GroupInductiveInvariant == Spec => []IInv
<1>1. IInv /\ [Next]_vars => IInv'
  BY TypeOKStep, ChainInvStep, ReservedStep, LockInvStep, RunInvStep, GoneInvStep
     DEF IInv
<1> QED
  BY <1>1, InitIInv, PTL DEF Spec

(* Every variable keeps its type.                                          *)
THEOREM GroupTypeCorrect == Spec => []TypeOK
<1>1. IInv => TypeOK
  BY DEF IInv
<1> QED
  BY <1>1, GroupInductiveInvariant, PTL

(* No other run can claim an address under an open claim of a group,       *)
(* whatever rows a recovery has done.                                      *)
THEOREM OpenClaimsAreReserved == Spec => []OpenClaimIsReserved
<1>1. IInv => OpenClaimIsReserved
  BY DEF IInv
<1> QED
  BY <1>1, GroupInductiveInvariant, PTL

(* A living executor owns its whole group until it records it.             *)
THEOREM ExecutorsKeepTheirGroups == Spec => []ExecutorKeepsItsGroup
<1>1. IInv => ExecutorKeepsItsGroup
  <2> SUFFICES ASSUME IInv, NEW r \in Run, NEW a \in Closure, pc[r] \in BusyPc
               PROVE  /\ ClaimOpen(r, a) /\ reservation[a] = r
                      /\ frame[a].claim.phase # "indeterminate"
    BY DEF ExecutorKeepsItsGroup
  <2>1. frame[a] = Claimed(r, PhaseAt(pc[r], a)) /\ reservation[a] = r
    BY DEF IInv, RunInv
  <2>2. PhaseAt(pc[r], a) \in Phase \ {"indeterminate"}
    BY DEF PhaseAt, Phase
  <2> QED
    BY <2>1, <2>2, ClaimFacts DEF ClaimOpen
<1> QED
  BY <1>1, GroupInductiveInvariant, PTL

(* A refused root claim dropped nothing and never will.                    *)
THEOREM RefusedRootsDroppedNothing == Spec => []RefusedRootDroppedNothing
<1>1. IInv => RefusedRootDroppedNothing
  BY DEF IInv, RunInv, RefusedRootDroppedNothing
<1> QED
  BY <1>1, GroupInductiveInvariant, PTL

(* What is recorded as absent was gone at some time under its claim.       *)
THEOREM AbsentIsTrue == Spec => []AbsentWasGone
<1>1. IInv => AbsentWasGone
  BY DEF IInv, GoneInv, AbsentWasGone
<1> QED
  BY <1>1, GroupInductiveInvariant, PTL

(* A step of FrameStep is a step of LedgerAddress.                         *)
LEMMA FrameStepImplements ==
    ASSUME NEW a \in Closure, FrameStep(frame[a], frame'[a])
    PROVE  [LedgerOf(a)!Next]_(frame[a])
<1> DEFINE f == frame[a]
           g == frame'[a]
<1> USE DEF LedgerOf!IsOpen, LedgerOf!NoClaim, LedgerOf!None, IsOpen, NoClaim, None
<1>1. ASSUME NEW r \in Run, f = Closed("managed"), g = Claimed(r, "claimed")
      PROVE  LedgerOf(a)!Open
  <2>1. /\ f.stable = "managed" /\ ~IsOpen(f)
        /\ g.stable = "managed" /\ g.claim = Claim(r, "claimed")
    BY <1>1, ClosedFacts, ClaimFacts DEF Phase
  <2>2. /\ g.claim.kind = "retire-intent" /\ g.claim.before = "managed"
        /\ g.claim.phase = "claimed"
    BY <2>1 DEF Claim
  <2> QED
    BY <2>1, <2>2 DEF LedgerOf!Open, LedgerOf!ClaimKind, LedgerOf!OpensFrom
<1>2. ASSUME NEW r \in Run, NEW p \in Phase, NEW n \in Phase,
             f = Claimed(r, p), g = Claimed(r, n),
             p = "claimed" \/ n = "indeterminate"
      PROVE  LedgerOf(a)!Progress
  <2>1. /\ IsOpen(f) /\ f.stable = "managed" /\ g.stable = "managed"
        /\ f.claim = Claim(r, p) /\ g.claim = Claim(r, n)
        /\ f.claim.phase = p
    BY <1>2, ClaimFacts
  <2>2. Claim(r, n) = [Claim(r, p) EXCEPT !.phase = n]
    BY DEF Claim
  <2>3. LedgerOf(a)!PhaseOrder[p] <= LedgerOf(a)!PhaseOrder[n]
    BY <1>2 DEF LedgerOf!PhaseOrder, Phase
  <2> QED
    BY <2>1, <2>2, <2>3 DEF LedgerOf!Progress, LedgerOf!Phase, Phase
<1>3. ASSUME NEW r \in Run, NEW p \in Phase, NEW s \in {"managed", "absent"},
             f = Claimed(r, p), g = Closed(s)
      PROVE  LedgerOf(a)!Close
  <2>1. /\ IsOpen(f) /\ f.claim = Claim(r, p)
        /\ g.claim = NoClaim /\ g.stable = s
    BY <1>3, ClaimFacts, ClosedFacts
  <2>2. f.claim.kind = "retire-intent" /\ f.claim.before = "managed"
    BY <2>1 DEF Claim
  <2> QED
    BY <2>1, <2>2 DEF LedgerOf!Close, LedgerOf!Outcomes
<1>4. Phase = {"claimed", "executing", "indeterminate"}
  BY DEF Phase
<1> QED
  BY <1>1, <1>2, <1>3, <1>4 DEF FrameStep, LedgerOf!Next

(* Every address of the closure is a ledger address.                       *)
THEOREM GroupLedgerImplemented == Spec => GroupImplementsLedger
<1> DEFINE Step == \A a \in Closure : [LedgerOf(a)!Next]_(frame[a])
<1>1. IInv /\ [Next]_vars => [Step]_frame
  BY FramesStep, FrameStepImplements
<1> QED
  BY <1>1, GroupInductiveInvariant, PTL DEF Spec, GroupImplementsLedger
=============================================================================
