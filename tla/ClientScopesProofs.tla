------------------------- MODULE ClientScopesProofs -------------------------
(***************************************************************************)
(* Proofs about ClientScopes, for any number of scopes, statements and     *)
(* faults.  The inductive invariant has a part for the stack of scopes     *)
(* (ShapeInv), one for the queue (JobInv) and one for the levels of the    *)
(* server's transaction (MarkInv), which hold of every stream and every    *)
(* callback, a part for what a failed scope may still do (LevelInv), for   *)
(* behaviours whose streams only roll back a scope that is poisoned, and   *)
(* two for the end: what of a scope that rests is still to run (QuietInv), *)
(* and the scratch work of a pinned connection (HomeInv).  What a          *)
(* transaction promises rests on what each level holds (HoldInv) and on    *)
(* how levels are nested (NestInv, EntryInv).                              *)
(***************************************************************************)
EXTENDS ClientScopes, WellFoundedInduction, TLAPS

Progress == {"opening", "body", "draining", "committing", "releasing",
             "cleaning", "undoing", "waiting", "reverting", "forgetting",
             "leaving", "done"}

ScopeRecord == [up : 0 .. MaxScope, kind : Kinds, undo : BOOLEAN,
                pc : Progress, closing : BOOLEAN, poison : BOOLEAN,
                undone : BOOLEAN, observed : BOOLEAN,
                settled : {"open", "resolved", "rejected"},
                told : {"nothing", "resolved", "rejected"}]

What == {"begin", "savepoint", "work", "fetch", "raw", "recover", "close",
         "drain", "commit", "undo", "release", "revert", "forget"}

JobRecord == [what : What, of : Scopes, work : 0 .. MaxWork]

MarkRecord == [of : Scopes, works : SUBSET (1 .. MaxWork)]

Alive(s) == scope[s].pc # "done"

(* Where a scope no longer opens anything, and all it has opened has ended.*)
Ending == {"draining", "committing", "releasing", "cleaning", "reverting",
           "forgetting", "leaving"}

PinnedUp(s) == scope[s].up > 0 /\ scope[scope[s].up].kind = "pinned"

(* What is so of one scope, wherever it has come to.                       *)
ScopeInv(s) ==
    /\ scope[s].up < s
    /\ s > 1 => scope[s].up > 0
    /\ scope[s].kind = "pinned" => s = 1
    /\ scope[s].kind = "savepoint" => s > 1
    /\ scope[s].kind = "savepoint" /\ PinnedUp(s) => scope[s].undo
    /\ Alive(s) /\ scope[s].settled # "open" =>
          /\ scope[s].kind = "transaction" /\ PinnedUp(s)
          /\ scope[s].undo \/ ~AwaitsStreams
    /\ scope[s].pc \notin {"opening", "body"} => scope[s].closing
    /\ scope[s].pc = "committing" => scope[s].kind = "transaction"
    /\ scope[s].pc \in {"releasing", "reverting", "forgetting"} =>
          scope[s].kind = "savepoint"
    /\ scope[s].pc \in {"opening", "cleaning", "undoing"} =>
          scope[s].kind # "pinned"
    /\ scope[s].pc = "leaving" => scope[s].kind = "pinned"
    /\ scope[s].pc \in Ending =>
          \A c \in Children(s) : scope[c].settled # "open"
    /\ scope[s].pc = "opening" => Top(s) /\ ~scope[s].undone

StackInv ==
    /\ \A i \in DOMAIN stack : stack[i] \in DOMAIN scope
    /\ \A i, j \in DOMAIN stack : i < j => stack[i] < stack[j]
    /\ \A s \in DOMAIN scope : OnStack(s) <=> Alive(s)
    /\ \A i \in DOMAIN stack : i > 1 => scope[stack[i]].up = stack[i - 1]
    /\ \A i, j \in DOMAIN stack :
          i < j /\ scope[stack[j]].kind = "transaction" =>
              scope[stack[i]].kind = "pinned"

ShapeInv == StackInv /\ \A s \in DOMAIN scope : ScopeInv(s)

(* The statements a scope sends for itself, those its callback asks for.   *)
Control == {"begin", "savepoint", "drain", "commit", "undo", "release",
            "revert", "forget"}
Asked == {"work", "fetch", "raw"}

Stage(what) ==
    IF what \in {"begin", "savepoint"} THEN {"opening"}
    ELSE IF what = "drain" THEN {"draining", "leaving"}
    ELSE IF what = "commit" THEN {"committing"}
    ELSE IF what = "undo" THEN {"undoing", "cleaning"}
    ELSE IF what = "release" THEN {"releasing"}
    ELSE IF what = "revert" THEN {"reverting"}
    ELSE {"forgetting"}

JobFits(j) ==
    /\ j.of \in DOMAIN scope
    /\ j.what \in Control => scope[j.of].pc \in Stage(j.what)
    /\ j.what \notin Control => scope[j.of].pc # "opening"
    /\ j.what = "savepoint" => scope[j.of].kind = "savepoint"
    /\ j.what = "begin" => scope[j.of].kind = "transaction"
    /\ j.what = "work" =>
          j.work \in DOMAIN issuer /\ issuer[j.work] = j.of

(* What a callback has asked for comes before what its scope, or one       *)
(* around it, sends to end.                                                *)
JobInv ==
    /\ \A i \in DOMAIN queue : JobFits(queue[i])
    /\ \A i, j \in DOMAIN queue :
          /\ i # j
          /\ queue[i].what \in Control
          /\ queue[j].what \in Control
          => queue[i].of # queue[j].of
    /\ \A i, j \in DOMAIN queue :
          /\ queue[i].what \in Asked
          /\ queue[j].what \in Control
          /\ Alive(queue[j].of)
          /\ queue[j].of <= queue[i].of
          => i < j

-----------------------------------------------------------------------------
(* Sequences, and what the types say of them.                              *)

LEMMA FunctionIsSequence ==
    ASSUME NEW S, NEW n \in Nat, NEW f \in [1..n -> S]
    PROVE  f \in Seq(S) /\ Len(f) = n /\ DOMAIN f = 1..n
OBVIOUS

LEMMA Typed ==
    ASSUME TypeOK
    PROVE  /\ scope \in Seq(ScopeRecord)
           /\ scope \in [DOMAIN scope -> ScopeRecord]
           /\ Len(scope) \in Nat /\ DOMAIN scope = 1..Len(scope)
           /\ Len(scope) \in 1..MaxScope /\ 1 \in DOMAIN scope
           /\ DOMAIN scope \subseteq Scopes
           /\ stack \in Seq(Scopes) /\ stack \in [DOMAIN stack -> Scopes]
           /\ Len(stack) \in Nat /\ DOMAIN stack = 1..Len(stack)
           /\ queue \in Seq(JobRecord) /\ queue \in [DOMAIN queue -> JobRecord]
           /\ Len(queue) \in Nat /\ DOMAIN queue = 1..Len(queue)
           /\ marks \in Seq(MarkRecord)
           /\ marks \in [DOMAIN marks -> MarkRecord]
           /\ Len(marks) \in Nat /\ DOMAIN marks = 1..Len(marks)
           /\ issuer \in Seq(Scopes)
           /\ Len(issuer) \in Nat /\ DOMAIN issuer = 1..Len(issuer)
<1>1. /\ scope \in Seq(ScopeRecord) /\ Len(scope) \in 1..MaxScope
      /\ stack \in Seq(Scopes) /\ queue \in Seq(JobRecord)
      /\ marks \in Seq(MarkRecord) /\ issuer \in Seq(Scopes)
  BY DEF TypeOK, ScopeRecord, Progress, JobRecord, What, MarkRecord, Scopes
<1> HIDE DEF ScopeRecord, JobRecord, MarkRecord
<1>2. MaxScope \in Nat
  BY ScopeAssumption
<1> QED
  BY <1>1, <1>2 DEF Scopes

(* A queue with its head served, or as it is.                              *)
Rest(q) == q = queue \/ (queue # <<>> /\ q = Tail(queue))

LEMMA RestOfQueue ==
    ASSUME TypeOK, NEW q, Rest(q)
    PROVE  /\ q \in Seq(JobRecord) /\ Len(q) \in Nat /\ DOMAIN q = 1..Len(q)
           /\ \E d \in {0, 1} : \A i \in DOMAIN q :
                 i + d \in DOMAIN queue /\ q[i] = queue[i + d]
<1>1. queue \in Seq(JobRecord)
  BY Typed
<1> HIDE DEF JobRecord
<1>2. CASE q = queue
  <2>1. \A i \in DOMAIN q : i + 0 \in DOMAIN queue /\ q[i] = queue[i + 0]
    BY <1>1, <1>2
  <2> QED
    BY <1>1, <1>2, <2>1
<1>3. CASE queue # <<>> /\ q = Tail(queue)
  <2>1. \A i \in DOMAIN q : i + 1 \in DOMAIN queue /\ q[i] = queue[i + 1]
    BY <1>1, <1>3
  <2> QED
    BY <1>1, <1>3, <2>1
<1> QED
  BY <1>2, <1>3 DEF Rest

LEMMA Singleton ==
    ASSUME NEW S, NEW e \in S
    PROVE  /\ <<e>> \in Seq(S) /\ Len(<<e>>) = 1 /\ DOMAIN <<e>> = {1}
           /\ <<e>>[1] = e
OBVIOUS

LEMMA Appended ==
    ASSUME NEW S, NEW q \in Seq(S), NEW j \in S
    PROVE  /\ Append(q, j) \in Seq(S) /\ Len(Append(q, j)) = Len(q) + 1
           /\ DOMAIN Append(q, j) = 1..(Len(q) + 1)
           /\ \A i \in 1..Len(q) : Append(q, j)[i] = q[i]
           /\ Append(q, j)[Len(q) + 1] = j
OBVIOUS

-----------------------------------------------------------------------------
(* The queue.                                                              *)

(* No statement of the scope itself is in the queue.                       *)
Free(s, q) ==
    \A i \in DOMAIN q : q[i].what \in Control => q[i].of # s

LEMMA FreeOnceServed ==
    ASSUME TypeOK, JobInv, queue # <<>>, queue[1].what \in Control
    PROVE  Free(Of, Served)
<1>1. queue \in Seq(JobRecord)
  BY Typed
<1> HIDE DEF JobRecord
<1>2. \A i \in DOMAIN Tail(queue) :
          i + 1 \in DOMAIN queue /\ Tail(queue)[i] = queue[i + 1]
  BY <1>1
<1>3. 1 \in DOMAIN queue
  BY <1>1
<1>4. ASSUME NEW i \in DOMAIN Tail(queue), Tail(queue)[i].what \in Control
      PROVE  Tail(queue)[i].of # queue[1].of
  <2>1. /\ i + 1 \in DOMAIN queue /\ Tail(queue)[i] = queue[i + 1]
        /\ i + 1 # 1
    BY <1>1, <1>2
  <2> QED
    BY <1>3, <1>4, <2>1 DEF JobInv
<1> QED
  BY <1>4 DEF Free, Of, Served

LEMMA FreeWhileIdle ==
    ASSUME TypeOK, JobInv, NEW q, Rest(q), NEW s \in DOMAIN scope,
           scope[s].pc \in {"body", "waiting", "done"}
    PROVE  Free(s, q)
<1>1. PICK d \in {0, 1} : \A i \in DOMAIN q :
          i + d \in DOMAIN queue /\ q[i] = queue[i + d]
  BY RestOfQueue
<1>2. ASSUME NEW i \in DOMAIN q, q[i].what \in Control, q[i].of = s
      PROVE  FALSE
  <2>1. scope[s].pc \in Stage(q[i].what)
    BY <1>1, <1>2 DEF JobInv, JobFits
  <2> QED
    BY <1>2, <2>1 DEF Stage, Control
<1> QED
  BY <1>2 DEF Free

(* What happens to the scopes when some have come further.                 *)
Further(q) ==
    \A x \in DOMAIN scope :
        /\ x \in DOMAIN scope'
        /\ Free(x, q) \/ (/\ scope'[x].pc = scope[x].pc
                          /\ scope'[x].kind = scope[x].kind)
        /\ scope[x].pc # "opening" => scope'[x].pc # "opening"
        /\ scope[x].pc = "done" => scope'[x].pc = "done"

IssuerGrows ==
    \A w \in DOMAIN issuer : w \in DOMAIN issuer' /\ issuer'[w] = issuer[w]

LEMMA JobsStay ==
    ASSUME TypeOK, JobInv, NEW q, Rest(q), Further(q), IssuerGrows
    PROVE  /\ \A i \in DOMAIN q : /\ q[i].of \in DOMAIN scope
                                  /\ JobFits(q[i])'
           /\ \A i, j \in DOMAIN q :
                 /\ i # j /\ q[i].what \in Control /\ q[j].what \in Control
                 => q[i].of # q[j].of
           /\ \A i, j \in DOMAIN q :
                 /\ q[i].what \in Asked /\ q[j].what \in Control
                 /\ Alive(q[j].of)' /\ q[j].of <= q[i].of
                 => i < j
<1>1. PICK d \in {0, 1} : \A i \in DOMAIN q :
          i + d \in DOMAIN queue /\ q[i] = queue[i + d]
  BY RestOfQueue
<1>2. DOMAIN q \subseteq Nat
  BY RestOfQueue
<1>3. ASSUME NEW i \in DOMAIN q
      PROVE  q[i].of \in DOMAIN scope /\ JobFits(q[i])'
  <2>1. JobFits(q[i])
    BY <1>1 DEF JobInv
  <2>2. q[i].what \in Control => ~Free(q[i].of, q)
    BY DEF Free
  <2>3. "savepoint" \in Control /\ "begin" \in Control
    BY DEF Control
  <2> QED
    BY <2>1, <2>2, <2>3 DEF JobFits, Further, IssuerGrows
<1>4. ASSUME NEW i \in DOMAIN q, NEW j \in DOMAIN q, i # j,
             q[i].what \in Control, q[j].what \in Control
      PROVE  q[i].of # q[j].of
  <2>1. i + d # j + d
    BY <1>2, <1>4
  <2> QED
    BY <1>1, <1>4, <2>1 DEF JobInv
<1>5. ASSUME NEW i \in DOMAIN q, NEW j \in DOMAIN q,
             q[i].what \in Asked, q[j].what \in Control,
             Alive(q[j].of)', q[j].of <= q[i].of
      PROVE  i < j
  <2>1. Alive(q[j].of)
    BY <1>3, <1>5 DEF Alive, Further
  <2>2. i + d < j + d
    BY <1>1, <1>5, <2>1 DEF JobInv
  <2> QED
    BY <1>2, <2>2
<1> QED
  BY <1>3, <1>4, <1>5

LEMMA JobsServed ==
    ASSUME TypeOK, JobInv, NEW q, Rest(q), Further(q), IssuerGrows,
           queue' = q
    PROVE  JobInv'
BY JobsStay DEF JobInv

(* A statement that joins the queue.                                       *)
LEMMA JobsJoined ==
    ASSUME TypeOK, JobInv, NEW q, Rest(q), Further(q), IssuerGrows,
           NEW j \in JobRecord, queue' = Append(q, j), JobFits(j)',
           j.what \in Control => Free(j.of, q),
           j.what \in Asked =>
              \A x \in DOMAIN scope :
                 x <= j.of /\ scope'[x].pc # "done" => Free(x, q)
    PROVE  JobInv'
<1> DEFINE n == Len(q) + 1
<1>1. /\ q \in Seq(JobRecord) /\ Len(q) \in Nat /\ DOMAIN q = 1..Len(q)
  BY RestOfQueue
<1>2. /\ DOMAIN queue' = 1..n
      /\ \A i \in DOMAIN q : queue'[i] = q[i]
      /\ queue'[n] = j
      /\ \A i \in DOMAIN queue' : i \in DOMAIN q \/ i = n
      /\ \A i \in DOMAIN q : i < n /\ i \in Nat
  <2> HIDE DEF JobRecord
  <2> QED
    BY <1>1, Appended
<1> HIDE DEF n
<1>3. ASSUME NEW i \in DOMAIN queue'
      PROVE  JobFits(queue[i])'
  <2>1. CASE i = n
    BY <1>2, <2>1 DEF JobFits
  <2>2. CASE i \in DOMAIN q
    <3>1. JobFits(q[i])' /\ queue'[i] = q[i]
      BY <1>2, <2>2, JobsStay
    <3> QED
      BY <3>1 DEF JobFits
  <2> QED
    BY <1>2, <2>1, <2>2
<1>4. ASSUME NEW i \in DOMAIN queue', NEW k \in DOMAIN queue', i # k,
             queue'[i].what \in Control, queue'[k].what \in Control
      PROVE  queue'[i].of # queue'[k].of
  <2>1. CASE i \in DOMAIN q /\ k \in DOMAIN q
    BY <1>2, <1>4, <2>1, JobsStay
  <2>2. CASE i = n /\ k \in DOMAIN q
    BY <1>2, <1>4, <2>2 DEF Free
  <2>3. CASE i \in DOMAIN q /\ k = n
    BY <1>2, <1>4, <2>3 DEF Free
  <2> QED
    BY <1>2, <1>4, <2>1, <2>2, <2>3
<1>5. ASSUME NEW i \in DOMAIN queue', NEW k \in DOMAIN queue',
             queue'[i].what \in Asked, queue'[k].what \in Control,
             Alive(queue[k].of)', queue'[k].of <= queue'[i].of
      PROVE  i < k
  <2>1. CASE i \in DOMAIN q /\ k \in DOMAIN q
    <3>1. queue'[i] = q[i] /\ queue'[k] = q[k]
      BY <1>2, <2>1
    <3> QED
      BY <1>5, <2>1, <3>1, JobsStay DEF Alive
  <2>2. CASE i = n /\ k \in DOMAIN q
    <3>1. queue'[i] = j /\ queue'[k] = q[k] /\ q[k].of \in DOMAIN scope
      BY <1>2, <2>2, JobsStay
    <3>2. scope'[q[k].of].pc # "done"
      BY <1>5, <3>1 DEF Alive
    <3>3. Free(q[k].of, q)
      BY <1>5, <3>1, <3>2
    <3> QED
      BY <1>5, <2>2, <3>1, <3>3 DEF Free
  <2>3. CASE i \in DOMAIN q /\ k = n
    BY <1>2, <2>3
  <2>4. CASE i = n /\ k = n
    BY <1>2, <1>5, <2>4 DEF Asked, Control
  <2> QED
    BY <1>2, <2>1, <2>2, <2>3, <2>4
<1> QED
  BY <1>3, <1>4, <1>5 DEF JobInv

-----------------------------------------------------------------------------
(* The stack of scopes.                                                    *)

(* Only the innermost of the scopes that are their own servers' can end.   *)
LEMMA EndsOnTop ==
    ASSUME TypeOK, ShapeInv, NEW s \in DOMAIN scope, Alive(s),
           scope[s].kind # "pinned",
           \A c \in Children(s) : scope[c].settled # "open"
    PROVE  Top(s)
<1>1. /\ Len(stack) \in Nat /\ DOMAIN stack = 1..Len(stack)
      /\ stack \in [DOMAIN stack -> Scopes]
  BY Typed
<1>2. PICK i \in DOMAIN stack : stack[i] = s
  BY DEF ShapeInv, StackInv, OnStack
<1>3. i = Len(stack)
  <2> SUFFICES ASSUME i # Len(stack) PROVE FALSE
    OBVIOUS
  <2>0. i + 1 \in DOMAIN stack /\ i + 1 > 1 /\ (i + 1) - 1 = i
    BY <1>1, <1>2
  <2>1. PICK k \in DOMAIN stack : k > 1 /\ k - 1 = i
    BY <2>0
  <2> DEFINE c == stack[k]
  <2>2. c \in DOMAIN scope /\ scope[c].up = s
    <3>1. scope[stack[k]].up = stack[k - 1]
      BY <2>1 DEF ShapeInv, StackInv
    <3> QED
      BY <1>2, <2>1, <3>1 DEF ShapeInv, StackInv
  <2>3. Alive(c)
    BY <2>1, <2>2 DEF ShapeInv, StackInv, OnStack
  <2>4. c \in Children(s)
    BY <2>2 DEF Children
  <2>5. PinnedUp(c)
    BY <2>2, <2>3, <2>4 DEF ShapeInv, ScopeInv
  <2> QED
    BY <2>2, <2>5 DEF PinnedUp
<1> QED
  BY <1>1, <1>2, <1>3 DEF Top

(* What a step leaves of a scope.                                          *)
Alike(x) ==
    /\ scope'[x].up = scope[x].up
    /\ scope'[x].kind = scope[x].kind
    /\ scope'[x].undo = scope[x].undo
    /\ scope[x].closing => scope'[x].closing
    /\ scope'[x].undone => scope[x].undone \/ scope[x].pc # "opening"

(* The next place of a scope.                                              *)
Arrives(s, pc) ==
    /\ pc \notin {"opening", "done"}
    /\ pc = "body" \/ scope'[s].closing
    /\ pc = "body" => scope[s].pc = "opening"
    /\ pc = "committing" => scope[s].kind = "transaction"
    /\ pc \in {"releasing", "reverting", "forgetting"} =>
          scope[s].kind = "savepoint"
    /\ pc \in {"cleaning", "undoing"} => scope[s].kind # "pinned"
    /\ pc = "leaving" => scope[s].kind = "pinned"
    /\ pc \in Ending => \A c \in Children(s) : scope[c].settled # "open"

LEMMA ShapeStays ==
    ASSUME TypeOK, ShapeInv, NEW s \in DOMAIN scope,
           stack' = stack, DOMAIN scope' = DOMAIN scope,
           \A x \in DOMAIN scope :
              /\ Alike(x)
              /\ scope'[x].settled = scope[x].settled
              /\ x # s => scope'[x].pc = scope[x].pc,
           \/ scope'[s].pc = scope[s].pc
           \/ Alive(s) /\ Arrives(s, scope'[s].pc)
    PROVE  ShapeInv'
<1>1. \A x \in DOMAIN scope : Alive(x)' <=> Alive(x)
  BY DEF Alive, Arrives
<1>2. \A x : OnStack(x)' <=> OnStack(x)
  BY DEF OnStack
<1>3. \A x : Top(x)' <=> Top(x)
  BY DEF Top
<1>4. \A x : Children(x)' = Children(x)
  BY DEF Children, Alike
<1>5. StackInv'
  BY <1>1, <1>2 DEF ShapeInv, StackInv, Alike
<1>6. ASSUME NEW x \in DOMAIN scope PROVE ScopeInv(x)'
  <2>1. ScopeInv(x) /\ ScopeInv(s) /\ Alike(x)
    BY DEF ShapeInv
  <2>2. PinnedUp(x)' <=> PinnedUp(x)
    <3>1. scope[x].up \in Nat
      BY Typed, ScopeAssumption DEF ScopeRecord
    <3>2. scope[x].up > 0 => scope[x].up \in DOMAIN scope
      BY <2>1, <3>1, Typed DEF ScopeInv
    <3> QED
      BY <2>1, <3>2 DEF PinnedUp, Alike
  <2>3. \A c \in Children(x) : scope'[c].settled = scope[c].settled
    BY DEF Children
  <2>4. CASE scope'[x].pc = scope[x].pc
    BY <1>1, <1>3, <1>4, <2>1, <2>2, <2>3, <2>4 DEF ScopeInv, Alike, Alive
  <2>5. CASE x = s /\ Alive(s) /\ Arrives(s, scope'[s].pc)
    BY <1>1, <1>3, <1>4, <2>1, <2>2, <2>3, <2>5
    DEF ScopeInv, Alike, Arrives, Ending
  <2> QED
    BY <2>4, <2>5
<1> QED
  BY <1>5, <1>6 DEF ShapeInv

(* The innermost scope, or the outermost, off the stack.                   *)
LEMMA WithoutTop ==
    ASSUME TypeOK, ShapeInv, NEW s \in DOMAIN scope, Top(s)
    PROVE  /\ Without(s) \in Seq(Scopes)
           /\ Len(Without(s)) = Len(stack) - 1
           /\ \A i \in 1..(Len(stack) - 1) : Without(s)[i] = stack[i]
<1>1. /\ stack \in Seq(Scopes) /\ Len(stack) \in Nat
      /\ DOMAIN stack = 1..Len(stack)
  BY Typed
<1>2. Len(stack) \in DOMAIN stack /\ stack[Len(stack)] = s
  BY <1>1 DEF Top
<1>3. \A i \in DOMAIN stack : stack[i] = s => i = Len(stack)
  <2> SUFFICES ASSUME NEW i \in DOMAIN stack, stack[i] = s, i # Len(stack)
               PROVE  FALSE
    OBVIOUS
  <2>1. i < Len(stack)
    BY <1>1
  <2>2. stack[i] < stack[Len(stack)]
    BY <1>2, <2>1 DEF ShapeInv, StackInv
  <2>3. s \in Nat
    BY Typed
  <2> QED
    BY <1>2, <2>2, <2>3
<1>4. (CHOOSE j \in DOMAIN stack : stack[j] = s) = Len(stack)
  BY <1>2, <1>3
<1>5. Without(s) = SubSeq(stack, 1, Len(stack) - 1)
                     \o SubSeq(stack, Len(stack) + 1, Len(stack))
  BY <1>2, <1>4 DEF Without, OnStack
<1> QED
  BY <1>1, <1>2, <1>5

LEMMA WithoutBottom ==
    ASSUME TypeOK, ShapeInv, NEW s \in DOMAIN scope, stack # <<>>,
           stack[1] = s
    PROVE  /\ Without(s) \in Seq(Scopes)
           /\ Len(Without(s)) = Len(stack) - 1
           /\ \A i \in 1..(Len(stack) - 1) : Without(s)[i] = stack[i + 1]
<1>1. /\ stack \in Seq(Scopes) /\ Len(stack) \in Nat
      /\ DOMAIN stack = 1..Len(stack)
  BY Typed
<1>2. 1 \in DOMAIN stack
  BY <1>1
<1>3. \A i \in DOMAIN stack : stack[i] = s => i = 1
  <2> SUFFICES ASSUME NEW i \in DOMAIN stack, stack[i] = s, i # 1
               PROVE  FALSE
    OBVIOUS
  <2>1. 1 < i
    BY <1>1
  <2>2. stack[1] < stack[i]
    BY <1>2, <2>1 DEF ShapeInv, StackInv
  <2>3. s \in Nat
    BY Typed
  <2> QED
    BY <2>2, <2>3
<1>4. (CHOOSE j \in DOMAIN stack : stack[j] = s) = 1
  BY <1>2, <1>3
<1>5. Without(s) = SubSeq(stack, 1, 1 - 1)
                     \o SubSeq(stack, 1 + 1, Len(stack))
  BY <1>2, <1>4 DEF Without, OnStack
<1> QED
  BY <1>1, <1>2, <1>5

(* Both have the members left in the order they had.                       *)
LEMMA WithoutOne ==
    ASSUME TypeOK, ShapeInv, NEW s \in DOMAIN scope,
           Top(s) \/ (stack # <<>> /\ stack[1] = s)
    PROVE  /\ Without(s) \in Seq(Scopes) /\ Len(Without(s)) \in Nat
           /\ DOMAIN Without(s) = 1..Len(Without(s))
           /\ \E d \in {0, 1} :
                 \A i \in DOMAIN Without(s) :
                    i + d \in DOMAIN stack /\ Without(s)[i] = stack[i + d]
           /\ \A x : (\E i \in DOMAIN Without(s) : Without(s)[i] = x)
                        <=> OnStack(x) /\ x # s
           /\ \A x : Top(x) /\ x # s =>
                 Without(s) # <<>> /\ Without(s)[Len(Without(s))] = x
<1>1. /\ stack \in Seq(Scopes) /\ Len(stack) \in Nat
      /\ DOMAIN stack = 1..Len(stack)
  BY Typed
<1>0. \A i, j \in DOMAIN stack : i # j => stack[i] # stack[j]
  BY DEF TypeOK
<1>2. CASE Top(s)
  <2> DEFINE w == Without(s)
  <2>1. /\ w \in Seq(Scopes) /\ Len(w) = Len(stack) - 1
        /\ \A i \in 1..(Len(stack) - 1) : w[i] = stack[i]
    BY <1>2, WithoutTop
  <2> HIDE DEF w
  <2>2. /\ DOMAIN w = 1..(Len(stack) - 1) /\ stack[Len(stack)] = s
        /\ Len(stack) \in DOMAIN stack
    BY <1>1, <1>2, <2>1 DEF Top
  <2>3. \A i \in DOMAIN w : i + 0 \in DOMAIN stack /\ w[i] = stack[i + 0]
                              /\ i # Len(stack)
    BY <1>1, <2>1, <2>2
  <2>4. \A i \in DOMAIN stack : i # Len(stack) => i \in DOMAIN w
    BY <1>1, <2>2
  <2>5. \A x : (\E i \in DOMAIN w : w[i] = x) <=> OnStack(x) /\ x # s
    <3> SUFFICES ASSUME NEW x
                 PROVE  (\E i \in DOMAIN w : w[i] = x) <=> OnStack(x) /\ x # s
      OBVIOUS
    <3>1. ASSUME NEW i \in DOMAIN w, w[i] = x PROVE OnStack(x) /\ x # s
      <4>1. i \in DOMAIN stack /\ stack[i] = x /\ i # Len(stack)
        BY <1>1, <2>1, <2>2, <3>1
      <4> QED
        BY <1>0, <2>2, <4>1 DEF OnStack
    <3>2. ASSUME OnStack(x), x # s PROVE \E i \in DOMAIN w : w[i] = x
      <4>1. PICK i \in DOMAIN stack : stack[i] = x
        BY <3>2 DEF OnStack
      <4>2. i # Len(stack)
        BY <2>2, <3>2, <4>1
      <4> QED
        BY <1>1, <2>1, <2>2, <4>1, <4>2
    <3> QED
      BY <3>1, <3>2
  <2>6. \A x : ~(Top(x) /\ x # s)
    BY <1>2 DEF Top
  <2> QED
    BY <1>1, <2>1, <2>2, <2>3, <2>5, <2>6 DEF w
<1>3. CASE stack # <<>> /\ stack[1] = s
  <2> DEFINE w == Without(s)
  <2>1. /\ w \in Seq(Scopes) /\ Len(w) = Len(stack) - 1
        /\ \A i \in 1..(Len(stack) - 1) : w[i] = stack[i + 1]
    BY <1>3, WithoutBottom
  <2> HIDE DEF w
  <2>2. DOMAIN w = 1..(Len(stack) - 1) /\ 1 \in DOMAIN stack
    BY <1>1, <1>3, <2>1
  <2>3. \A i \in DOMAIN w : i + 1 \in DOMAIN stack /\ w[i] = stack[i + 1]
    BY <1>1, <2>1, <2>2
  <2>5. \A x : (\E i \in DOMAIN w : w[i] = x) <=> OnStack(x) /\ x # s
    <3> SUFFICES ASSUME NEW x
                 PROVE  (\E i \in DOMAIN w : w[i] = x) <=> OnStack(x) /\ x # s
      OBVIOUS
    <3>1. ASSUME NEW i \in DOMAIN w, w[i] = x PROVE OnStack(x) /\ x # s
      <4>1. i + 1 \in DOMAIN stack /\ stack[i + 1] = x /\ i + 1 # 1
        BY <1>1, <2>1, <2>2, <3>1
      <4> QED
        BY <1>0, <1>3, <2>2, <4>1 DEF OnStack
    <3>2. ASSUME OnStack(x), x # s PROVE \E i \in DOMAIN w : w[i] = x
      <4>1. PICK i \in DOMAIN stack : stack[i] = x
        BY <3>2 DEF OnStack
      <4>2. i # 1
        BY <1>3, <3>2, <4>1
      <4>3. i - 1 \in 1..(Len(stack) - 1) /\ i - 1 + 1 = i
        BY <1>1, <4>2
      <4> QED
        BY <2>1, <2>2, <4>1, <4>3
    <3> QED
      BY <3>1, <3>2
  <2>6. ASSUME NEW x, Top(x), x # s
        PROVE  w # <<>> /\ w[Len(w)] = x
    <3>1. Len(stack) # 1 /\ Len(stack) # 0
      BY <1>1, <1>3, <2>6 DEF Top
    <3>2. /\ Len(stack) - 1 \in 1..(Len(stack) - 1)
          /\ (Len(stack) - 1) + 1 = Len(stack)
      BY <1>1, <3>1
    <3>3. w[Len(w)] = stack[Len(stack)]
      BY <2>1, <3>2
    <3> QED
      BY <1>1, <2>1, <2>6, <3>2, <3>3 DEF Top
  <2> QED
    BY <1>1, <2>1, <2>2, <2>3, <2>5, <2>6 DEF w
<1> QED
  BY <1>2, <1>3

LEMMA ShapeLeaves ==
    ASSUME TypeOK, ShapeInv, NEW s \in DOMAIN scope,
           Top(s) \/ (stack # <<>> /\ stack[1] = s),
           stack' = Without(s), DOMAIN scope' = DOMAIN scope,
           \A x \in DOMAIN scope :
              /\ Alike(x)
              /\ x # s => /\ scope'[x].pc = scope[x].pc
                          /\ scope'[x].settled = scope[x].settled,
           scope'[s].pc = "done", scope'[s].closing,
           scope'[s].settled # "open"
    PROVE  ShapeInv'
<1>1. /\ Len(stack') \in Nat /\ DOMAIN stack' = 1..Len(stack')
      /\ \A x : OnStack(x)' <=> OnStack(x) /\ x # s
      /\ \A x : Top(x) /\ x # s => Top(x)'
  <2>1. /\ Len(stack') \in Nat /\ DOMAIN stack' = 1..Len(stack')
        /\ \A x : (\E i \in DOMAIN stack' : stack'[i] = x)
                     <=> OnStack(x) /\ x # s
        /\ \A x : Top(x) /\ x # s =>
              stack' # <<>> /\ stack'[Len(stack')] = x
    BY WithoutOne
  <2> QED
    BY <2>1 DEF OnStack, Top
<1>2. PICK d \in {0, 1} : \A i \in DOMAIN stack' :
          i + d \in DOMAIN stack /\ stack'[i] = stack[i + d]
  BY WithoutOne
<1>3. \A x \in DOMAIN scope : Alive(x)' <=> Alive(x) /\ x # s
  BY DEF Alive
<1>4. StackInv'
  <2>1. \A i \in DOMAIN stack' : stack'[i] \in DOMAIN scope'
    BY <1>2 DEF ShapeInv, StackInv
  <2>2. ASSUME NEW i \in DOMAIN stack', NEW j \in DOMAIN stack', i < j
        PROVE  /\ stack'[i] < stack'[j]
               /\ scope'[stack'[j]].kind = "transaction" =>
                     scope'[stack'[i]].kind = "pinned"
    <3>1. i + d < j + d
      BY <1>1, <2>2
    <3> QED
      BY <1>2, <3>1 DEF ShapeInv, StackInv, Alike
  <2>3. ASSUME NEW i \in DOMAIN stack', i > 1
        PROVE  scope'[stack'[i]].up = stack'[i - 1]
    <3>1. i - 1 \in DOMAIN stack' /\ (i - 1) + d = (i + d) - 1 /\ i + d > 1
      BY <1>1, <2>3
    <3>2. scope[stack[i + d]].up = stack[(i + d) - 1]
      BY <1>2, <3>1 DEF ShapeInv, StackInv
    <3> QED
      BY <1>2, <3>1, <3>2 DEF ShapeInv, StackInv, Alike
  <2>4. \A x \in DOMAIN scope' : OnStack(x)' <=> Alive(x)'
    BY <1>1, <1>3 DEF ShapeInv, StackInv
  <2> QED
    BY <2>1, <2>2, <2>3, <2>4 DEF StackInv
<1>5. \A x : Children(x)' = Children(x)
  BY DEF Children, Alike
<1>6. ASSUME NEW x \in DOMAIN scope PROVE ScopeInv(x)'
  <2>1. ScopeInv(x) /\ Alike(x)
    BY DEF ShapeInv
  <2>2. PinnedUp(x)' <=> PinnedUp(x)
    <3>1. scope[x].up \in Nat
      BY Typed, ScopeAssumption DEF ScopeRecord
    <3>2. scope[x].up > 0 => scope[x].up \in DOMAIN scope
      BY <2>1, <3>1, Typed DEF ScopeInv
    <3> QED
      BY <2>1, <3>2 DEF PinnedUp, Alike
  <2>3. \A c \in Children(x) :
            scope[c].settled # "open" => scope'[c].settled # "open"
    BY DEF Children
  <2>4. CASE x # s
    BY <1>1, <1>3, <1>5, <2>1, <2>2, <2>3, <2>4 DEF ScopeInv, Alike, Alive
  <2>5. CASE x = s
    BY <1>3, <2>1, <2>2, <2>5 DEF ScopeInv, Alike, Ending, Alive
  <2> QED
    BY <2>4, <2>5
<1> QED
  BY <1>4, <1>6 DEF ShapeInv

(* A scope that is opened.                                                 *)
NewScope(s) ==
    /\ DOMAIN scope' = DOMAIN scope \cup {Len(scope) + 1}
    /\ \A x \in DOMAIN scope : scope'[x] = scope[x]
    /\ scope'[Len(scope) + 1].up = s

LEMMA ShapeRefuses ==
    ASSUME TypeOK, ShapeInv, NEW s \in DOMAIN scope, NewScope(s),
           stack' = stack,
           LET new == scope'[Len(scope) + 1]
           IN  /\ new.pc = "done" /\ new.closing /\ new.settled # "open"
               /\ new.kind \in {"transaction", "savepoint"}
               /\ new.kind = "savepoint" /\ scope[s].kind = "pinned" =>
                     new.undo
    PROVE  ShapeInv'
<1>0. PICK n : n = Len(scope) + 1
  OBVIOUS
<1>1. /\ DOMAIN scope = 1..Len(scope) /\ Len(scope) \in Nat /\ s \in Nat
      /\ DOMAIN stack \subseteq Nat
  BY Typed
<1>2. n \notin DOMAIN scope /\ n > 1 /\ s < n /\ s > 0 /\ n \in Nat
  BY <1>0, <1>1
<1>3. /\ scope'[n].up = s /\ scope'[n].pc = "done" /\ scope'[n].closing
      /\ scope'[n].settled # "open"
      /\ scope'[n].kind \in {"transaction", "savepoint"}
      /\ scope'[n].kind = "savepoint" /\ scope[s].kind = "pinned" =>
            scope'[n].undo
      /\ DOMAIN scope' = DOMAIN scope \cup {n}
      /\ \A x \in DOMAIN scope : scope'[x] = scope[x]
  BY <1>0 DEF NewScope
<1>4. ASSUME NEW x PROVE (OnStack(x)' <=> OnStack(x)) /\ (Top(x)' <=> Top(x))
  BY DEF OnStack, Top
<1>5. ~OnStack(n)
  BY <1>2 DEF ShapeInv, StackInv, OnStack
<1>6. StackInv'
  <2>1. \A x \in DOMAIN scope' : OnStack(x)' <=> Alive(x)'
    BY <1>3, <1>4, <1>5 DEF ShapeInv, StackInv, Alive
  <2> QED
    BY <1>3, <2>1 DEF ShapeInv, StackInv
<1>7. ASSUME NEW x \in DOMAIN scope PROVE ScopeInv(x)'
  <2>1. ScopeInv(x) /\ scope'[x] = scope[x]
    BY <1>3 DEF ShapeInv
  <2>2. PinnedUp(x)' <=> PinnedUp(x)
    <3>1. scope[x].up \in Nat
      BY Typed, ScopeAssumption DEF ScopeRecord
    <3>2. scope[x].up > 0 => scope[x].up \in DOMAIN scope
      BY <2>1, <3>1, Typed DEF ScopeInv
    <3> QED
      BY <1>3, <2>1, <3>2 DEF PinnedUp
  <2>3. \A c \in Children(x)' : scope'[c].settled = "open" =>
            c \in Children(x) /\ scope[c].settled = "open"
    BY <1>3 DEF Children
  <2> QED
    BY <1>4, <2>1, <2>2, <2>3 DEF ScopeInv, Alive
<1>8. ScopeInv(n)'
  <2>1. PinnedUp(n)' <=> scope[s].kind = "pinned"
    BY <1>2, <1>3 DEF PinnedUp
  <2> QED
    BY <1>2, <1>3, <2>1 DEF ScopeInv, Alive, Ending
<1> QED
  BY <1>3, <1>6, <1>7, <1>8 DEF ShapeInv

LEMMA ShapeOpens ==
    ASSUME TypeOK, ShapeInv, NEW s \in DOMAIN scope, NewScope(s),
           Top(s), scope[s].pc = "body",
           stack' = Append(stack, Len(scope) + 1),
           LET new == scope'[Len(scope) + 1]
           IN  /\ new.pc = "opening" /\ ~new.undone
               /\ new.settled # "open" =>
                     new.kind = "transaction" /\ ~AwaitsStreams
               /\ new.kind = IF scope[s].kind = "pinned" /\ ~new.undo
                             THEN "transaction" ELSE "savepoint"
    PROVE  ShapeInv'
<1>0. PICK n, k : n = Len(scope) + 1 /\ k = Len(stack) + 1
  OBVIOUS
<1>1. /\ DOMAIN scope = 1..Len(scope) /\ Len(scope) \in Nat /\ s \in Nat
      /\ stack \in Seq(Scopes)
      /\ Len(stack) \in Nat /\ DOMAIN stack = 1..Len(stack)
      /\ Scopes \subseteq Nat
  BY Typed DEF Scopes
<1>2. n \notin DOMAIN scope /\ n > 1 /\ s < n /\ s > 0 /\ n \in Nat
  BY <1>0, <1>1
<1>3. /\ scope'[n].up = s /\ scope'[n].pc = "opening"
      /\ ~scope'[n].undone
      /\ scope'[n].settled # "open" =>
            scope'[n].kind = "transaction" /\ ~AwaitsStreams
      /\ scope'[n].kind \in {"transaction", "savepoint"}
      /\ scope'[n].kind = "savepoint" /\ scope[s].kind = "pinned" =>
            scope'[n].undo
      /\ scope'[n].kind = "transaction" => scope[s].kind = "pinned"
      /\ DOMAIN scope' = DOMAIN scope \cup {n}
      /\ \A x \in DOMAIN scope : scope'[x] = scope[x]
  BY <1>0 DEF NewScope
<1>9. /\ DOMAIN stack' = 1..k /\ stack'[k] = n /\ Len(stack') = k
      /\ \A i \in DOMAIN stack : stack'[i] = stack[i] /\ i < k /\ i \in Nat
      /\ \A i \in DOMAIN stack' : i \in DOMAIN stack \/ i = k
      /\ k \in DOMAIN stack' /\ stack' # <<>> /\ k \in Nat
      /\ \A i \in DOMAIN stack : i \in DOMAIN stack'
      /\ k > 1 => k - 1 \in DOMAIN stack /\ k - 1 = Len(stack)
  BY <1>0, <1>1
<1>10. stack # <<>> /\ stack[Len(stack)] = s /\ Len(stack) \in DOMAIN stack
  BY <1>1 DEF Top
<1>4. ASSUME NEW x PROVE OnStack(x)' <=> OnStack(x) \/ x = n
  BY <1>9 DEF OnStack
<1>5. ~OnStack(n)
  BY <1>2 DEF ShapeInv, StackInv, OnStack
<1>11. Top(n)'
  BY <1>9 DEF Top
<1>6. StackInv'
  <2>1. \A x \in DOMAIN scope' : OnStack(x)' <=> Alive(x)'
    BY <1>2, <1>3, <1>4, <1>5 DEF ShapeInv, StackInv, Alive
  <2>2. \A i \in DOMAIN stack' : stack'[i] \in DOMAIN scope'
    BY <1>3, <1>9 DEF ShapeInv, StackInv
  <2>3. ASSUME NEW i \in DOMAIN stack', NEW j \in DOMAIN stack', i < j
        PROVE  /\ stack'[i] < stack'[j]
               /\ scope'[stack'[j]].kind = "transaction" =>
                     scope'[stack'[i]].kind = "pinned"
    <3>1. i \in DOMAIN stack
      BY <1>9, <2>3
    <3>2. stack[i] \in DOMAIN scope /\ stack'[i] = stack[i]
      BY <1>9, <3>1 DEF ShapeInv, StackInv
    <3>3. CASE j \in DOMAIN stack
      BY <1>3, <1>9, <2>3, <3>1, <3>3 DEF ShapeInv, StackInv
    <3>4. CASE j = k
      <4>1. stack[i] < n
        BY <1>0, <1>1, <3>2
      <4>2. scope[s].kind = "pinned" => stack[i] = s
        <5> SUFFICES ASSUME scope[s].kind = "pinned", i # Len(stack)
                     PROVE  FALSE
          BY <1>10
        <5>1. i < Len(stack)
          BY <1>1, <3>1
        <5>2. stack[i] < s /\ ScopeInv(s) /\ stack[i] \in 1..Len(scope)
          BY <1>1, <1>10, <3>1, <3>2, <5>1 DEF ShapeInv, StackInv
        <5> QED
          BY <1>1, <5>2 DEF ScopeInv
      <4> QED
        BY <1>3, <1>9, <3>2, <3>4, <4>1, <4>2
    <3> QED
      BY <1>9, <3>3, <3>4
  <2>4. ASSUME NEW i \in DOMAIN stack', i > 1
        PROVE  scope'[stack'[i]].up = stack'[i - 1]
    <3>1. CASE i = k
      BY <1>3, <1>9, <1>10, <2>4, <3>1
    <3>2. CASE i \in DOMAIN stack
      <4>1. i - 1 \in DOMAIN stack
        BY <1>1, <2>4, <3>2
      <4> QED
        BY <1>3, <1>9, <2>4, <3>2, <4>1 DEF ShapeInv, StackInv
    <3> QED
      BY <1>9, <3>1, <3>2
  <2> QED
    BY <2>1, <2>2, <2>3, <2>4 DEF StackInv
<1>7. ASSUME NEW x \in DOMAIN scope PROVE ScopeInv(x)'
  <2>1. ScopeInv(x) /\ scope'[x] = scope[x]
    BY <1>3 DEF ShapeInv
  <2>2. PinnedUp(x)' <=> PinnedUp(x)
    <3>1. scope[x].up \in Nat
      BY Typed, ScopeAssumption DEF ScopeRecord
    <3>2. scope[x].up > 0 => scope[x].up \in DOMAIN scope
      BY <2>1, <3>1, Typed DEF ScopeInv
    <3> QED
      BY <1>3, <2>1, <3>2 DEF PinnedUp
  <2>3. Children(x)' = Children(x) \cup (IF x = s THEN {n} ELSE {})
    BY <1>2, <1>3 DEF Children
  <2>4. x = s => scope[x].pc \notin Ending
    BY DEF Ending
  <2>5. scope[x].pc # "opening"
    <3> SUFFICES ASSUME scope[x].pc = "opening" PROVE FALSE
      OBVIOUS
    <3>1. Top(x)
      BY <2>1 DEF ScopeInv
    <3> QED
      BY <3>1 DEF Top
  <2>6. \A c \in Children(x) : scope'[c] = scope[c]
    BY <1>3 DEF Children
  <2> QED
    BY <1>4, <2>1, <2>2, <2>3, <2>4, <2>5, <2>6 DEF ScopeInv, Alive
<1>8. ScopeInv(n)'
  <2>1. PinnedUp(n)' <=> scope[s].kind = "pinned"
    BY <1>2, <1>3 DEF PinnedUp
  <2> QED
    BY <1>2, <1>3, <1>11, <2>1 DEF ScopeInv, Alive, Ending
<1> QED
  BY <1>3, <1>6, <1>7, <1>8 DEF ShapeInv

(* Scratch work on a pinned connection that begins a transaction.          *)
Begun(s) == [scope[s] EXCEPT !.settled = "resolved", !.kind = "transaction"]

LEMMA ShapeBegins ==
    ASSUME TypeOK, ShapeInv, NEW s \in DOMAIN scope,
           scope[s].pc = "opening", scope[s].kind = "savepoint", PinnedUp(s),
           stack' = stack, DOMAIN scope' = DOMAIN scope,
           \A x \in DOMAIN scope : x # s => scope'[x] = scope[x],
           scope'[s] = Begun(s)
    PROVE  ShapeInv'
<1>1. /\ scope'[s].up = scope[s].up /\ scope'[s].undo = scope[s].undo
      /\ scope'[s].pc = "opening" /\ scope'[s].kind = "transaction"
      /\ scope'[s].settled = "resolved"
      /\ scope'[s].closing = scope[s].closing
      /\ scope'[s].undone = scope[s].undone
  BY Typed DEF ScopeRecord, Begun
<1>0. \A x \in DOMAIN scope : scope'[x].up = scope[x].up
  BY <1>1
<1>2. \A x : (OnStack(x)' <=> OnStack(x)) /\ (Top(x)' <=> Top(x))
  BY DEF OnStack, Top
<1>3. \A x \in DOMAIN scope : Alive(x)' <=> Alive(x)
  BY <1>1 DEF Alive
<1>4. \A x : Children(x)' = Children(x)
  BY <1>0 DEF Children
<1>5. Top(s) /\ scope[s].undo /\ ScopeInv(s)
  BY DEF ShapeInv, ScopeInv
<1>6. /\ Len(stack) \in Nat /\ DOMAIN stack = 1..Len(stack)
      /\ DOMAIN scope = 1..Len(scope) /\ Len(scope) \in Nat
  BY Typed
<1>7. \A i \in DOMAIN stack : stack[i] # s => scope[stack[i]].kind = "pinned"
  <2> SUFFICES ASSUME NEW i \in DOMAIN stack, stack[i] # s
               PROVE  scope[stack[i]].kind = "pinned"
    OBVIOUS
  <2>1. Len(stack) \in DOMAIN stack /\ stack[Len(stack)] = s /\ Len(stack) > 1
        /\ i # Len(stack)
    BY <1>5, <1>6 DEF Top
  <2>2. scope[s].up = stack[Len(stack) - 1] /\ Len(stack) - 1 \in DOMAIN stack
    BY <1>6, <2>1 DEF ShapeInv, StackInv
  <2>3. scope[s].up \in DOMAIN scope /\ scope[scope[s].up].kind = "pinned"
    BY <2>2 DEF PinnedUp, ShapeInv, StackInv
  <2>4. scope[s].up = 1
    BY <2>3 DEF ShapeInv, ScopeInv
  <2>5. i = Len(stack) - 1
    <3> SUFFICES ASSUME i < Len(stack) - 1 PROVE FALSE
      BY <1>6, <2>1
    <3>1. stack[i] < 1 /\ stack[i] \in DOMAIN scope
      <4>1. PICK k \in DOMAIN stack : k = Len(stack) - 1
        BY <2>2
      <4>2. i < k /\ stack[k] = 1
        BY <2>2, <2>4, <4>1
      <4> QED
        BY <4>2 DEF ShapeInv, StackInv
    <3> QED
      BY <1>6, <3>1
  <2> QED
    BY <2>2, <2>3, <2>5
<1>8. StackInv'
  <2>1. ASSUME NEW i \in DOMAIN stack, NEW j \in DOMAIN stack, i < j,
               scope'[stack[j]].kind = "transaction"
        PROVE  scope'[stack[i]].kind = "pinned"
    <3>1. stack[i] # stack[j]
      BY <1>6, <2>1 DEF TypeOK
    <3>2. stack[i] # s
      <4> SUFFICES ASSUME stack[i] = s PROVE FALSE
        OBVIOUS
      <4>1. Len(stack) \in DOMAIN stack /\ stack[Len(stack)] = s
            /\ i # Len(stack)
        BY <1>5, <1>6, <2>1 DEF Top
      <4> QED
        BY <4>1 DEF TypeOK
    <3> QED
      BY <1>7, <3>2 DEF ShapeInv, StackInv
  <2>2. \A i \in DOMAIN stack : scope'[stack[i]].up = scope[stack[i]].up
    BY <1>1 DEF ShapeInv, StackInv
  <2> QED
    BY <1>2, <1>3, <2>1, <2>2 DEF ShapeInv, StackInv
<1>9. ASSUME NEW x \in DOMAIN scope PROVE ScopeInv(x)'
  <2>1. ScopeInv(x)
    BY DEF ShapeInv
  <2>2. PinnedUp(x)' <=> PinnedUp(x)
    <3>1. scope[x].up \in Nat
      BY Typed, ScopeAssumption DEF ScopeRecord
    <3>2. scope[x].up > 0 => scope[x].up \in DOMAIN scope
      BY <1>6, <2>1, <3>1 DEF ScopeInv
    <3>3. \A y \in DOMAIN scope :
              scope'[y].kind = "pinned" <=> scope[y].kind = "pinned"
      BY <1>1
    <3> QED
      BY <1>0, <3>2, <3>3 DEF PinnedUp
  <2>3. \A c \in Children(x) :
            scope[c].settled # "open" => scope'[c].settled # "open"
    BY <1>1 DEF Children
  <2>4. CASE x = s
    BY <1>1, <1>2, <1>3, <1>4, <1>5, <2>2, <2>3, <2>4
    DEF ScopeInv, Alive, Ending
  <2>5. CASE x # s
    BY <1>2, <1>3, <1>4, <2>1, <2>2, <2>3, <2>5 DEF ScopeInv, Alive
  <2> QED
    BY <2>4, <2>5
<1> QED
  BY <1>8, <1>9 DEF ShapeInv

-----------------------------------------------------------------------------
(* The ways out of a scope.                                                *)

(* What is poisoned poisons the scopes within.                             *)
Spreads(sc) ==
    \A x, y \in DOMAIN scope :
        sc[x].poison /\ x < y /\ OnStack(y) => scope[x].poison \/ sc[y].poison

(* The scopes as a step leaves them, but for where s goes.                 *)
Touched(sc, s) ==
    /\ sc \in [DOMAIN scope -> ScopeRecord]
    /\ Spreads(sc)
    /\ \A x \in DOMAIN scope :
          /\ sc[x].up = scope[x].up /\ sc[x].kind = scope[x].kind
          /\ sc[x].undo = scope[x].undo /\ sc[x].pc = scope[x].pc
          /\ sc[x].settled = scope[x].settled
          /\ scope[x].closing => sc[x].closing
          /\ scope[x].poison => sc[x].poison
          /\ scope[x].undone => sc[x].undone
          /\ sc[x].undone =>
                scope[x].undone \/ (x = s /\ scope[x].pc # "opening")

Moved(sc, s, pc) ==
    /\ scope' \in [DOMAIN scope -> ScopeRecord]
    /\ \A x \in DOMAIN scope : x # s => scope'[x] = sc[x]
    /\ scope'[s] = [sc[s] EXCEPT !.pc = pc]

(* The part of the types that is about the scopes.                         *)
ScopesTyped ==
    /\ scope \in Seq(ScopeRecord) /\ Len(scope) \in Scopes
    /\ stack \in Seq(Scopes) /\ queue \in Seq(JobRecord)
    /\ client \in {"held", "returned", "destroyed"}

(* What a step does to the scopes there are.                               *)
Fates ==
    \A x \in DOMAIN scope :
        /\ x \in DOMAIN scope'
        /\ scope'[x].up = scope[x].up /\ scope'[x].undo = scope[x].undo
        /\ scope'[x].kind = "pinned" <=> scope[x].kind = "pinned"
        /\ Alive(x)' => Alive(x)
        /\ Alive(x)' /\ scope[x].poison => scope'[x].poison
        /\ scope[x].closing => scope'[x].closing
        /\ Alive(x) /\ ~Alive(x)' /\ scope[x].kind # "pinned" => Top(x)
        /\ scope'[x].pc = "opening" => scope[x].pc = "opening"
        /\ scope'[x].pc = "body" => scope[x].pc \in {"opening", "body"}
        /\ \A y \in DOMAIN scope :
              scope'[x].poison /\ x < y /\ Alive(y)' =>
                 scope[x].poison \/ scope'[y].poison

StillOpening ==
    /\ DOMAIN scope' = DOMAIN scope
    /\ \A x \in DOMAIN scope :
          scope[x].pc = "opening" /\ Alive(x)' => scope'[x].pc = "opening"

(* Whether a stream may roll its scope back that nothing has poisoned.     *)
Strays == "rows" \in Streams \/ ~AwaitsStreams

(* The FETCH at the head of the queue has been refused.                    *)
Turned(s) ==
    /\ queue # <<>> /\ queue[1].what = "fetch" /\ s = Of
    /\ OnStack(s) /\ ~Admitted(s)

(* Nothing joins the queue for a callback that may not ask for it, and no  *)
(* rollback of a stream but for one that strays, a scope that is poisoned  *)
(* or a FETCH that has been refused.                                       *)
MayJoin(j) ==
    /\ j.what \in Asked => Usable(j.of)
    /\ j.what = "fetch" => scope[j.of].kind # "pinned"
    /\ j.what = "recover" =>
          Strays \/ scope'[j.of].poison \/ Turned(j.of)

AskedKept ==
    \A i \in DOMAIN queue' :
        \/ \E k \in DOMAIN queue : queue'[i] = queue[k]
        \/ MayJoin(queue'[i])

LEMMA AskedServed ==
    ASSUME TypeOK, NEW q, Rest(q), queue' = q
    PROVE  AskedKept
BY RestOfQueue DEF AskedKept

LEMMA AskedJoined ==
    ASSUME TypeOK, NEW q, Rest(q), NEW j \in JobRecord,
           queue' = Append(q, j), MayJoin(j)
    PROVE  AskedKept
<1>1. /\ q \in Seq(JobRecord) /\ Len(q) \in Nat /\ DOMAIN q = 1..Len(q)
      /\ \A i \in DOMAIN q : \E k \in DOMAIN queue : q[i] = queue[k]
  BY RestOfQueue
<1> HIDE DEF JobRecord
<1>2. \A i \in DOMAIN queue' :
          \/ i \in DOMAIN q /\ queue'[i] = q[i]
          \/ queue'[i] = j
  BY <1>1
<1> QED
  BY <1>1, <1>2 DEF AskedKept

LEMMA TouchedNone ==
    ASSUME TypeOK, NEW s
    PROVE  Touched(scope, s)
<1>1. scope \in [DOMAIN scope -> ScopeRecord]
  BY Typed
<1> QED
  BY <1>1 DEF Touched, Spreads

Closed(sc, s) == [sc EXCEPT ![s].closing = TRUE]
Undone(s) == [scope EXCEPT ![s].undone = TRUE]

LEMMA TouchedClosed ==
    ASSUME TypeOK, NEW s \in DOMAIN scope, NEW sc, Touched(sc, s)
    PROVE  /\ Touched(Closed(sc, s), s) /\ Closed(sc, s)[s].closing
           /\ Closed(sc, s)[s].undone = sc[s].undone
           /\ \A x \in DOMAIN scope :
                 /\ Closed(sc, s)[x].poison = sc[x].poison
                 /\ x # s => Closed(sc, s)[x] = sc[x]
<1> DEFINE t == Closed(sc, s)
<1>1. /\ t \in [DOMAIN scope -> ScopeRecord]
      /\ t[s] = [sc[s] EXCEPT !.closing = TRUE]
      /\ \A x \in DOMAIN scope : x # s => t[x] = sc[x]
      /\ sc[s] \in ScopeRecord
  <2> DEFINE r == [sc[s] EXCEPT !.closing = TRUE]
  <2>1. sc \in [DOMAIN scope -> ScopeRecord] /\ sc[s] \in ScopeRecord
    BY Typed DEF Touched
  <2>2. r \in ScopeRecord
    BY <2>1 DEF ScopeRecord
  <2>3. t = [sc EXCEPT ![s] = r]
    BY DEF Closed
  <2> HIDE DEF r, ScopeRecord
  <2>4. /\ t \in [DOMAIN scope -> ScopeRecord] /\ t[s] = r
        /\ \A x \in DOMAIN scope : x # s => t[x] = sc[x]
    BY <2>1, <2>2, <2>3
  <2> QED
    BY <2>1, <2>4 DEF r
<1> HIDE DEF t
<1>2. /\ t[s].closing /\ t[s].up = sc[s].up /\ t[s].kind = sc[s].kind
      /\ t[s].undo = sc[s].undo /\ t[s].pc = sc[s].pc
      /\ t[s].settled = sc[s].settled /\ t[s].poison = sc[s].poison
      /\ t[s].undone = sc[s].undone
  BY <1>1 DEF ScopeRecord
<1>3. Touched(t, s)
  <2> DEFINE Same(x) ==
          /\ t[x].up = sc[x].up /\ t[x].kind = sc[x].kind
          /\ t[x].undo = sc[x].undo /\ t[x].pc = sc[x].pc
          /\ t[x].settled = sc[x].settled /\ t[x].poison = sc[x].poison
          /\ t[x].undone = sc[x].undone /\ (sc[x].closing => t[x].closing)
  <2>1. \A x \in DOMAIN scope : Same(x)
    BY <1>1, <1>2
  <2>2. t \in [DOMAIN scope -> ScopeRecord]
    BY <1>1
  <2> QED
    BY <2>1, <2>2 DEF Touched, Spreads
<1> QED
  BY <1>1, <1>2, <1>3 DEF t

LEMMA TouchedUndone ==
    ASSUME TypeOK, NEW s \in DOMAIN scope, scope[s].pc # "opening"
    PROVE  /\ Touched(Undone(s), s) /\ Undone(s)[s].undone
           /\ Undone(s)[s].closing = scope[s].closing
           /\ Undone(s)[s].poison = scope[s].poison
           /\ \A x \in DOMAIN scope : x # s => Undone(s)[x] = scope[x]
<1> DEFINE t == Undone(s)
<1>1. /\ t \in [DOMAIN scope -> ScopeRecord]
      /\ t[s] = [scope[s] EXCEPT !.undone = TRUE]
      /\ \A x \in DOMAIN scope : x # s => t[x] = scope[x]
      /\ scope[s] \in ScopeRecord
  <2> DEFINE r == [scope[s] EXCEPT !.undone = TRUE]
  <2>1. scope \in [DOMAIN scope -> ScopeRecord] /\ scope[s] \in ScopeRecord
    BY Typed DEF Touched
  <2>2. r \in ScopeRecord
    BY <2>1 DEF ScopeRecord
  <2>3. t = [scope EXCEPT ![s] = r]
    BY DEF Undone
  <2> HIDE DEF r, ScopeRecord
  <2>4. /\ t \in [DOMAIN scope -> ScopeRecord] /\ t[s] = r
        /\ \A x \in DOMAIN scope : x # s => t[x] = scope[x]
    BY <2>1, <2>2, <2>3
  <2> QED
    BY <2>1, <2>4 DEF r
<1> HIDE DEF t
<1>2. /\ t[s].closing = scope[s].closing /\ t[s].up = scope[s].up
      /\ t[s].kind = scope[s].kind
      /\ t[s].undo = scope[s].undo /\ t[s].pc = scope[s].pc
      /\ t[s].settled = scope[s].settled /\ t[s].poison = scope[s].poison
      /\ t[s].undone
  BY <1>1 DEF ScopeRecord
<1>3. Touched(t, s)
  BY <1>1, <1>2 DEF Touched, Spreads
<1> QED
  BY <1>1, <1>2, <1>3 DEF t

LEMMA NoneAbove ==
    ASSUME TypeOK, ShapeInv, NEW s \in DOMAIN scope, Top(s),
           NEW y \in DOMAIN scope, s < y
    PROVE  ~OnStack(y)
<1>1. /\ DOMAIN stack = 1..Len(stack) /\ Len(stack) \in Nat
      /\ DOMAIN scope \subseteq Nat
  BY Typed
<1>2. ASSUME NEW i \in DOMAIN stack, stack[i] = y
      PROVE  FALSE
  <2>1. /\ Len(stack) \in DOMAIN stack /\ stack[Len(stack)] = s
        /\ i = Len(stack) \/ i < Len(stack)
    BY <1>1, <1>2 DEF Top
  <2> QED
    BY <1>1, <1>2, <2>1 DEF ShapeInv, StackInv
<1> QED
  BY <1>2 DEF OnStack

LEMMA TouchedPoisoned ==
    ASSUME TypeOK, ShapeInv, NEW s \in DOMAIN scope, NEW t,
           (t = PoisonSelf(s) /\ Top(s)) \/ t = PoisonStack
    PROVE  /\ Touched(t, s)
           /\ \A x \in DOMAIN scope : /\ t[x].closing = scope[x].closing
                                      /\ t[x].undone = scope[x].undone
           /\ t = PoisonSelf(s) => t[s].poison
           /\ t = PoisonStack =>
                 \A x \in DOMAIN scope : OnStack(x) => t[x].poison
<1>1. scope \in [DOMAIN scope -> ScopeRecord]
  BY Typed
<1>2. CASE t = PoisonSelf(s) /\ Top(s)
  <2>1. /\ t \in [DOMAIN scope -> ScopeRecord]
        /\ t[s] = [scope[s] EXCEPT !.poison = TRUE]
        /\ \A x \in DOMAIN scope : x # s => t[x] = scope[x]
    <3> DEFINE r == [scope[s] EXCEPT !.poison = TRUE]
    <3>1. r \in ScopeRecord
      BY <1>1 DEF ScopeRecord
    <3>2. t = [scope EXCEPT ![s] = r]
      BY <1>2 DEF PoisonSelf
    <3> HIDE DEF r, ScopeRecord
    <3>3. /\ t \in [DOMAIN scope -> ScopeRecord] /\ t[s] = r
          /\ \A x \in DOMAIN scope : x # s => t[x] = scope[x]
      BY <1>1, <3>1, <3>2
    <3> QED
      BY <3>3 DEF r
  <2>2. /\ t[s].closing = scope[s].closing /\ t[s].up = scope[s].up
        /\ t[s].kind = scope[s].kind
        /\ t[s].undo = scope[s].undo /\ t[s].pc = scope[s].pc
        /\ t[s].settled = scope[s].settled /\ t[s].poison
        /\ t[s].undone = scope[s].undone
    BY <1>1, <2>1 DEF ScopeRecord
  <2>3. t = PoisonStack =>
           \A x \in DOMAIN scope : OnStack(x) => t[x].poison
    BY <1>1 DEF PoisonStack, ScopeRecord
  <2>4. Spreads(t)
    BY <1>2, <2>1, NoneAbove DEF Spreads
  <2> QED
    BY <2>1, <2>2, <2>3, <2>4 DEF Touched
<1>3. CASE t = PoisonStack
  <2>1. ASSUME NEW x \in DOMAIN scope
        PROVE  /\ t[x] \in ScopeRecord
               /\ t[x].closing = scope[x].closing /\ t[x].up = scope[x].up
               /\ t[x].kind = scope[x].kind
               /\ t[x].undo = scope[x].undo /\ t[x].pc = scope[x].pc
               /\ t[x].settled = scope[x].settled
               /\ scope[x].poison => t[x].poison
               /\ OnStack(x) => t[x].poison
               /\ t[x].undone = scope[x].undone
    <3>1. t[x] = IF OnStack(x) THEN [scope[x] EXCEPT !.poison = TRUE]
                 ELSE scope[x]
      BY <1>3 DEF PoisonStack
    <3>2. scope[x] \in ScopeRecord
      BY <1>1
    <3> HIDE DEF OnStack
    <3> QED
      BY <3>1, <3>2 DEF ScopeRecord
  <2>2. t \in [DOMAIN scope -> ScopeRecord]
    BY <1>3, <2>1 DEF PoisonStack
  <2>3. t = PoisonSelf(s) => t[s].poison
    BY <1>1 DEF PoisonSelf, ScopeRecord
  <2>4. Spreads(t)
    BY <2>1 DEF Spreads
  <2> QED
    BY <2>1, <2>2, <2>3, <2>4 DEF Touched
<1> QED
  BY <1>2, <1>3

LEMMA MovedBy ==
    ASSUME NEW sc \in [DOMAIN scope -> ScopeRecord], NEW s \in DOMAIN scope,
           NEW pc \in Progress, scope' = [sc EXCEPT ![s].pc = pc]
    PROVE  Moved(sc, s, pc)
<1> DEFINE r == [sc[s] EXCEPT !.pc = pc]
<1>1. r \in ScopeRecord
  BY DEF ScopeRecord
<1>2. scope' = [sc EXCEPT ![s] = r]
  OBVIOUS
<1> HIDE DEF r, ScopeRecord
<1>3. /\ scope' \in [DOMAIN scope -> ScopeRecord] /\ scope'[s] = r
      /\ \A x \in DOMAIN scope : x # s => scope'[x] = sc[x]
  BY <1>1, <1>2
<1> QED
  BY <1>3 DEF Moved, r

(* A scope as releaseScope leaves it.                                      *)
Left(r, v) ==
    [r EXCEPT !.pc = "done", !.closing = TRUE, !.poison = FALSE,
              !.undone = FALSE,
              !.told = IF @ = "nothing" THEN v ELSE @,
              !.settled = IF @ = "open" THEN v ELSE @]

LEMMA LeftRecord ==
    ASSUME NEW r \in ScopeRecord, NEW v \in {"resolved", "rejected"}
    PROVE  /\ Left(r, v) \in ScopeRecord /\ Left(r, v).pc = "done"
           /\ Left(r, v).closing /\ ~Left(r, v).undone
           /\ ~Left(r, v).poison
           /\ Left(r, v).settled # "open" /\ Left(r, v).up = r.up
           /\ Left(r, v).kind = r.kind /\ Left(r, v).undo = r.undo
<1> DEFINE told == IF r.told = "nothing" THEN v ELSE r.told
           settled == IF r.settled = "open" THEN v ELSE r.settled
<1>1. /\ told \in {"nothing", "resolved", "rejected"}
      /\ settled \in {"open", "resolved", "rejected"} /\ settled # "open"
  BY DEF ScopeRecord
<1>2. Left(r, v) = [r EXCEPT !.pc = "done", !.closing = TRUE,
                             !.poison = FALSE, !.undone = FALSE,
                             !.told = told, !.settled = settled]
  BY DEF Left
<1> HIDE DEF told, settled
<1> QED
  BY <1>1, <1>2 DEF ScopeRecord, Progress

LEMMA MovedScopes ==
    ASSUME TypeOK, ShapeInv, NEW s \in DOMAIN scope, NEW sc, Touched(sc, s),
           NEW pc \in Progress, Moved(sc, s, pc),
           stack' = stack, client' = client, queue' \in Seq(JobRecord),
           \/ pc = scope[s].pc
           \/ Alive(s) /\ Arrives(s, pc)
    PROVE  /\ ScopesTyped' /\ ShapeInv'
           /\ Len(scope') = Len(scope) /\ DOMAIN scope' = DOMAIN scope
           /\ \A x \in DOMAIN scope : scope'[x].kind = scope[x].kind
           /\ scope'[s].pc = pc
           /\ \A x \in DOMAIN scope : x # s => scope'[x].pc = scope[x].pc
           /\ Fates /\ (scope[s].pc # "opening" => StillOpening)
<1>1. /\ scope' \in Seq(ScopeRecord) /\ Len(scope') = Len(scope)
      /\ DOMAIN scope' = DOMAIN scope
  <2>1. DOMAIN scope = 1..Len(scope) /\ Len(scope) \in Nat
    BY Typed
  <2>2. scope' \in [1..Len(scope) -> ScopeRecord]
    BY <2>1 DEF Moved
  <2> HIDE DEF ScopeRecord
  <2> QED
    BY <2>1, <2>2, FunctionIsSequence
<1>2. ScopesTyped'
  <2>1. Len(scope) \in Scopes /\ stack \in Seq(Scopes)
        /\ client \in {"held", "returned", "destroyed"}
    BY DEF TypeOK
  <2> QED
    BY <1>1, <2>1 DEF ScopesTyped, Scopes
<1>3. /\ scope'[s].up = sc[s].up /\ scope'[s].kind = sc[s].kind
      /\ scope'[s].undo = sc[s].undo /\ scope'[s].pc = pc
      /\ scope'[s].settled = sc[s].settled /\ scope'[s].closing = sc[s].closing
      /\ scope'[s].undone = sc[s].undone
  <2>1. sc[s] \in ScopeRecord
    BY DEF Touched
  <2> QED
    BY <2>1 DEF Moved, ScopeRecord
<1>4. \A x \in DOMAIN scope :
          /\ Alike(x)
          /\ scope'[x].settled = scope[x].settled
          /\ x # s => scope'[x].pc = scope[x].pc
  <2> SUFFICES ASSUME NEW x \in DOMAIN scope
               PROVE  /\ Alike(x)
                      /\ scope'[x].settled = scope[x].settled
                      /\ x # s => scope'[x].pc = scope[x].pc
    OBVIOUS
  <2>1. CASE x = s
    BY <1>3, <2>1 DEF Touched, Alike
  <2>2. CASE x # s
    BY <2>2 DEF Moved, Touched, Alike
  <2> QED
    BY <2>1, <2>2
<1>5. ShapeInv'
  BY <1>1, <1>3, <1>4, ShapeStays
<1>6. Fates
  <2>3. \A x \in DOMAIN scope : scope'[x].poison = sc[x].poison
    BY DEF Moved, Touched, ScopeRecord
  <2>4. \A y \in DOMAIN scope : Alive(y)' => OnStack(y)
    <3>1. Alive(s)' => Alive(s)
      BY <1>3 DEF Alive
    <3>2. \A y \in DOMAIN scope : Alive(y)' => Alive(y)
      BY <1>4, <3>1 DEF Alive
    <3> QED
      BY <3>2 DEF ShapeInv, StackInv
  <2> SUFFICES ASSUME NEW x \in DOMAIN scope
               PROVE  /\ scope[x].poison => scope'[x].poison
                      /\ Alive(x)' <=> Alive(x)
                      /\ scope'[x].pc = "opening" => scope[x].pc = "opening"
                      /\ scope'[x].pc = "body" =>
                            scope[x].pc \in {"opening", "body"}
    BY <1>1, <1>4, <2>3, <2>4 DEF Fates, Alike, Touched, Spreads
  <2>1. CASE x = s
    <3>1. scope'[s].poison = sc[s].poison
      BY DEF Moved, Touched, ScopeRecord
    <3>2. \/ pc = scope[s].pc
          \/ /\ pc \notin {"opening", "done"}
             /\ pc = "body" => scope[s].pc = "opening"
      BY DEF Arrives
    <3> QED
      BY <1>3, <2>1, <3>1, <3>2 DEF Touched, Alive
  <2>2. CASE x # s
    BY <2>2 DEF Moved, Touched, Alive
  <2> QED
    BY <2>1, <2>2
<1>7. scope[s].pc # "opening" => StillOpening
  BY <1>1, <1>4 DEF StillOpening
<1> QED
  BY <1>1, <1>2, <1>3, <1>4, <1>5, <1>6, <1>7 DEF Alike

LEMMA WaitStep ==
    ASSUME TypeOK, ShapeInv, JobInv, NEW s \in DOMAIN scope, Alive(s),
           NEW sc, Touched(sc, s), sc[s].closing,
           NEW q, Rest(q), Free(s, q), Wait(s, sc, q), issuer' = issuer
    PROVE  /\ ScopesTyped' /\ ShapeInv' /\ JobInv'
           /\ Moved(sc, s, "waiting") /\ stack' = stack /\ queue' = q
           /\ DOMAIN scope' = DOMAIN scope /\ Fates /\ AskedKept
           /\ scope[s].pc # "opening" => StillOpening
<1>1. Moved(sc, s, "waiting")
  <2>1. sc \in [DOMAIN scope -> ScopeRecord]
    BY DEF Touched
  <2> QED
    BY <2>1, MovedBy DEF Wait, Progress
<1>2. stack' = stack /\ client' = client /\ queue' = q
  BY DEF Wait
<1>3. queue' \in Seq(JobRecord)
  BY <1>2, RestOfQueue
<1>4. Arrives(s, "waiting")
  <2>1. scope'[s].closing
    BY <1>1 DEF Moved, Touched, ScopeRecord
  <2> QED
    BY <2>1 DEF Arrives, Ending
<1>5. /\ ScopesTyped' /\ ShapeInv'
      /\ DOMAIN scope' = DOMAIN scope
      /\ \A x \in DOMAIN scope : scope'[x].kind = scope[x].kind
      /\ scope'[s].pc = "waiting" /\ Fates
      /\ scope[s].pc # "opening" => StillOpening
      /\ \A x \in DOMAIN scope : x # s => scope'[x].pc = scope[x].pc
  BY <1>1, <1>2, <1>3, <1>4, MovedScopes DEF Progress
<1>6. Further(q)
  BY <1>5 DEF Further, Alive
<1>7. IssuerGrows
  BY DEF IssuerGrows
<1>8. AskedKept
  BY <1>2, AskedServed
<1> QED
  BY <1>1, <1>2, <1>5, <1>6, <1>7, <1>8, JobsServed

LEMMA ProceedStep ==
    ASSUME TypeOK, ShapeInv, JobInv, NEW s \in DOMAIN scope, Alive(s),
           NEW sc, Touched(sc, s), sc[s].closing,
           NEW pc \in Progress, NEW what \in Control \ {"savepoint", "begin"},
           pc \in Stage(what), pc \in Progress,
           pc = "committing" => scope[s].kind = "transaction",
           pc \in {"releasing", "reverting", "forgetting"} =>
              scope[s].kind = "savepoint",
           pc \in {"cleaning", "undoing"} => scope[s].kind # "pinned",
           pc = "leaving" => scope[s].kind = "pinned",
           pc \in Ending => \A c \in Children(s) : scope[c].settled # "open",
           NEW q, Rest(q), Free(s, q), Proceed(s, pc, what, sc, q),
           issuer' = issuer
    PROVE  /\ ScopesTyped' /\ ShapeInv' /\ JobInv'
           /\ Moved(sc, s, pc) /\ stack' = stack
           /\ queue' = Append(q, Job(what, s, 0))
           /\ DOMAIN scope' = DOMAIN scope /\ Fates /\ AskedKept
           /\ scope[s].pc # "opening" => StillOpening
<1>1. Moved(sc, s, pc)
  <2>1. sc \in [DOMAIN scope -> ScopeRecord]
    BY DEF Touched
  <2> HIDE DEF Progress
  <2> QED
    BY <2>1, MovedBy DEF Proceed
<1> DEFINE j == Job(what, s, 0)
<1>2. stack' = stack /\ client' = client /\ queue' = Append(q, j)
  BY DEF Proceed
<1>0. /\ j \in JobRecord /\ j.of = s /\ j.what = what
  <2>1. s \in Scopes /\ 0 \in 0..MaxWork
    BY Typed, ScopeAssumption
  <2> QED
    BY <2>1 DEF Job, JobRecord, Control, What
<1> HIDE DEF j
<1>3. queue' \in Seq(JobRecord)
  <2>1. q \in Seq(JobRecord)
    BY RestOfQueue
  <2> HIDE DEF JobRecord
  <2> QED
    BY <1>0, <1>2, <2>1, Appended
<1>4. Arrives(s, pc)
  <2>1. scope'[s].closing
    BY <1>1 DEF Moved, Touched, ScopeRecord
  <2>2. pc \notin {"opening", "body", "done"}
    BY DEF Stage, Control
  <2> QED
    BY <2>1, <2>2 DEF Arrives
<1>5. /\ ScopesTyped' /\ ShapeInv'
      /\ DOMAIN scope' = DOMAIN scope
      /\ \A x \in DOMAIN scope : scope'[x].kind = scope[x].kind
      /\ scope'[s].pc = pc /\ Fates
      /\ scope[s].pc # "opening" => StillOpening
      /\ \A x \in DOMAIN scope : x # s => scope'[x].pc = scope[x].pc
  BY <1>1, <1>2, <1>3, <1>4, MovedScopes
<1>6. Further(q)
  BY <1>4, <1>5 DEF Further, Alive, Arrives
<1>7. IssuerGrows
  BY DEF IssuerGrows
<1>8. JobFits(j)'
  BY <1>0, <1>5 DEF JobFits, Control
<1>9. what \notin Asked /\ MayJoin(j)
  BY <1>0 DEF Asked, Control, MayJoin
<1>10. AskedKept
  BY <1>0, <1>2, <1>9, AskedJoined
<1>11. JobInv'
  BY <1>0, <1>2, <1>6, <1>7, <1>8, <1>9, JobsJoined
<1> QED
  BY <1>1, <1>2, <1>5, <1>10, <1>11 DEF j

LEMMA FailStep ==
    ASSUME TypeOK, ShapeInv, JobInv, NEW s \in DOMAIN scope, Alive(s),
           NEW sc, Touched(sc, s), NEW q, Rest(q), Free(s, q),
           Fail(s, sc, q), issuer' = issuer
    PROVE  /\ ScopesTyped' /\ ShapeInv' /\ JobInv'
           /\ stack' = stack /\ DOMAIN scope' = DOMAIN scope
           /\ Fates /\ AskedKept
           /\ scope[s].pc # "opening" => StillOpening
           /\ \/ /\ Moved(Closed(sc, s), s, "waiting")
                 /\ queue' = q
                 /\ scope[s].kind = "pinned" \/ sc[s].undone
              \/ /\ Moved(Closed(sc, s), s, "undoing")
                 /\ queue' = Append(q, Job("undo", s, 0))
                 /\ scope[s].kind # "pinned" /\ ~sc[s].undone
<1> DEFINE closed == Closed(sc, s)
<1>1. Touched(closed, s) /\ closed[s].closing
  BY TouchedClosed
<1>2. sc[s].kind = scope[s].kind
  BY DEF Touched
<1>3. CASE sc[s].kind = "pinned" \/ sc[s].undone
  <2>1. Wait(s, closed, q)
    BY <1>3 DEF Fail, Closed
  <2> HIDE DEF closed
  <2>2. /\ ScopesTyped' /\ ShapeInv' /\ JobInv'
        /\ Moved(closed, s, "waiting") /\ stack' = stack /\ queue' = q
        /\ DOMAIN scope' = DOMAIN scope /\ Fates /\ AskedKept
        /\ scope[s].pc # "opening" => StillOpening
    BY <1>1, <2>1, WaitStep
  <2> QED
    BY <1>2, <1>3, <2>2 DEF closed
<1>4. CASE ~(sc[s].kind = "pinned" \/ sc[s].undone)
  <2>1. Proceed(s, "undoing", "undo", closed, q)
    BY <1>4 DEF Fail, Closed
  <2> HIDE DEF closed
  <2>2. /\ "undo" \in Control \ {"savepoint", "begin"}
        /\ "undoing" \in Stage("undo") /\ "undoing" \in Progress
        /\ "undoing" \notin Ending
    BY DEF Control, Stage, Progress, Ending
  <2>3. /\ ScopesTyped' /\ ShapeInv' /\ JobInv'
        /\ Moved(closed, s, "undoing") /\ stack' = stack
        /\ queue' = Append(q, Job("undo", s, 0))
        /\ DOMAIN scope' = DOMAIN scope /\ Fates /\ AskedKept
        /\ scope[s].pc # "opening" => StillOpening
    BY <1>1, <1>2, <1>4, <2>1, <2>2, ProceedStep
  <2> QED
    BY <1>2, <1>4, <2>3 DEF closed
<1> QED
  BY <1>3, <1>4

(* BeginInstead settles a scope for its parent before it leaves it.        *)
Settling(sc, s) == {sc, [sc EXCEPT ![s].settled = "resolved"]}

LEMMA LeaveStep ==
    ASSUME TypeOK, ShapeInv, JobInv, NEW s \in DOMAIN scope, Alive(s),
           Top(s) \/ scope[s].kind = "pinned",
           NEW sc, Touched(sc, s), NEW v \in {"resolved", "rejected"},
           NEW sd, sd \in Settling(sc, s),
           NEW q, Rest(q), Free(s, q), Leave(s, v, sd, q), issuer' = issuer
    PROVE  /\ ScopesTyped' /\ ShapeInv' /\ JobInv'
           /\ scope' \in [DOMAIN scope -> ScopeRecord]
           /\ \A x \in DOMAIN scope : x # s => scope'[x] = sc[x]
           /\ scope'[s].pc = "done" /\ scope'[s].kind = scope[s].kind
           /\ stack' = Without(s) /\ queue' = q
           /\ DOMAIN scope' = DOMAIN scope /\ Fates /\ AskedKept
           /\ StillOpening
<1>0. sc[s] \in ScopeRecord /\ sc \in [DOMAIN scope -> ScopeRecord]
  BY DEF Touched
<1>11. /\ sd \in [DOMAIN scope -> ScopeRecord] /\ sd[s] \in ScopeRecord
       /\ sd[s].up = sc[s].up /\ sd[s].kind = sc[s].kind
       /\ sd[s].undo = sc[s].undo
       /\ \A x \in DOMAIN scope : x # s => sd[x] = sc[x]
  <2> DEFINE r == [sc[s] EXCEPT !.settled = "resolved"]
  <2>1. /\ r \in ScopeRecord /\ r.up = sc[s].up
        /\ r.kind = sc[s].kind /\ r.undo = sc[s].undo
    BY <1>0 DEF ScopeRecord
  <2>2. sd = sc \/ sd = [sc EXCEPT ![s] = r]
    BY DEF Settling
  <2> HIDE DEF r, ScopeRecord
  <2> QED
    BY <1>0, <2>1, <2>2
<1>1. /\ \A x \in DOMAIN scope : x # s => scope'[x] = sc[x]
      /\ scope' \in [DOMAIN scope -> ScopeRecord]
      /\ scope'[s].pc = "done" /\ scope'[s].closing
      /\ scope'[s].settled # "open" /\ scope'[s].up = sc[s].up
      /\ scope'[s].kind = sc[s].kind /\ scope'[s].undo = sc[s].undo
      /\ ~scope'[s].undone /\ ~scope'[s].poison
  <2> DEFINE r == Left(sd[s], v)
  <2>1. scope' = [sd EXCEPT ![s] = r]
    BY DEF Leave, Left
  <2>3. /\ r \in ScopeRecord /\ r.pc = "done" /\ r.closing
        /\ r.settled # "open" /\ r.up = sd[s].up
        /\ r.kind = sd[s].kind /\ r.undo = sd[s].undo /\ ~r.undone
        /\ ~r.poison
    BY <1>11, LeftRecord
  <2>2. /\ r \in ScopeRecord /\ r.pc = "done" /\ r.closing
        /\ r.settled # "open" /\ r.up = sc[s].up
        /\ r.kind = sc[s].kind /\ r.undo = sc[s].undo /\ ~r.undone
        /\ ~r.poison
    BY <1>11, <2>3
  <2> HIDE DEF r, ScopeRecord
  <2> QED
    BY <1>11, <2>1, <2>2
<1>12. Top(s) \/ (stack # <<>> /\ stack[1] = s)
  <2> SUFFICES ASSUME scope[s].kind = "pinned"
               PROVE  stack # <<>> /\ stack[1] = s
    OBVIOUS
  <2>1. s = 1 /\ OnStack(s)
    BY DEF ShapeInv, StackInv, ScopeInv
  <2>2. PICK i \in DOMAIN stack : stack[i] = s
    BY <2>1 DEF OnStack
  <2>3. /\ DOMAIN stack = 1..Len(stack) /\ Len(stack) \in Nat
        /\ DOMAIN scope = 1..Len(scope) /\ Len(scope) \in Nat
    BY Typed
  <2>4. 1 \in DOMAIN stack /\ i \in Nat /\ (i = 1 \/ 1 < i)
    BY <2>2, <2>3
  <2>5. i # 1 => stack[1] < 1 /\ stack[1] \in DOMAIN scope
    BY <2>1, <2>2, <2>4 DEF ShapeInv, StackInv
  <2> QED
    BY <2>2, <2>3, <2>4, <2>5
<1>2. /\ stack' = Without(s) /\ queue' = q
      /\ client' \in {client, "returned", "destroyed"}
  BY DEF Leave
<1>3. /\ scope' \in Seq(ScopeRecord) /\ Len(scope') = Len(scope)
      /\ DOMAIN scope' = DOMAIN scope
  <2>1. DOMAIN scope = 1..Len(scope) /\ Len(scope) \in Nat
    BY Typed
  <2>2. scope' \in [1..Len(scope) -> ScopeRecord]
    BY <1>1, <2>1
  <2> HIDE DEF ScopeRecord
  <2> QED
    BY <2>1, <2>2, FunctionIsSequence
<1>4. ScopesTyped'
  <2>1. /\ Len(scope) \in Scopes /\ Without(s) \in Seq(Scopes)
        /\ client \in {"held", "returned", "destroyed"}
        /\ q \in Seq(JobRecord)
    BY <1>12, WithoutOne, RestOfQueue DEF TypeOK
  <2> QED
    BY <1>2, <1>3, <2>1 DEF ScopesTyped, Scopes
<1>5. \A x \in DOMAIN scope :
          /\ Alike(x)
          /\ x # s => /\ scope'[x].pc = scope[x].pc
                      /\ scope'[x].settled = scope[x].settled
  BY <1>1 DEF Touched, Alike
<1>6. ShapeInv'
  BY <1>1, <1>2, <1>3, <1>5, <1>12, ShapeLeaves
<1>7. Further(q)
  BY <1>1, <1>3, <1>5 DEF Further, Alike, Alive
<1>8. IssuerGrows
  BY DEF IssuerGrows
<1>9. JobInv'
  BY <1>2, <1>7, <1>8, JobsServed
<1>10. scope'[s].kind = scope[s].kind
  BY <1>5 DEF Alike
<1>13. Fates
  <2>3. \A x, y \in DOMAIN scope :
            scope'[x].poison /\ x < y /\ Alive(y)' =>
               scope[x].poison \/ scope'[y].poison
    <3> SUFFICES ASSUME NEW x \in DOMAIN scope, NEW y \in DOMAIN scope,
                        scope'[x].poison, x < y, Alive(y)'
                 PROVE  scope[x].poison \/ scope'[y].poison
      OBVIOUS
    <3>1. x # s /\ y # s
      BY <1>1 DEF Alive
    <3>2. scope'[x] = sc[x] /\ scope'[y] = sc[y] /\ Alive(y)
      BY <1>1, <3>1 DEF Alive, Touched
    <3> QED
      BY <3>2 DEF ShapeInv, StackInv, Touched, Spreads
  <2> SUFFICES ASSUME NEW x \in DOMAIN scope
               PROVE  /\ Alive(x)' => Alive(x)
                      /\ Alive(x)' /\ scope[x].poison => scope'[x].poison
                      /\ Alive(x) /\ ~Alive(x)' => x = s
                      /\ scope'[x].pc = "opening" => scope[x].pc = "opening"
                      /\ scope'[x].pc = "body" =>
                            scope[x].pc \in {"opening", "body"}
    BY <1>3, <1>5, <2>3 DEF Fates, Alike
  <2>1. CASE x = s
    BY <1>1, <2>1 DEF Alive
  <2>2. CASE x # s
    BY <1>1, <2>2 DEF Touched, Alive
  <2> QED
    BY <2>1, <2>2
<1>14. AskedKept
  BY <1>2, AskedServed
<1>15. StillOpening
  BY <1>1, <1>5 DEF StillOpening, Alive
<1> QED
  BY <1>1, <1>2, <1>3, <1>4, <1>6, <1>9, <1>10, <1>13, <1>14, <1>15

(* The scopes stay where they are.                                         *)
LEMMA StayStep ==
    ASSUME TypeOK, ShapeInv, JobInv, NEW s \in DOMAIN scope,
           Touched(scope', s), stack' = stack,
           client' \in {client, "destroyed"},
           NEW q, Rest(q), IssuerGrows,
           \/ queue' = q
           \/ \E j \in JobRecord :
                 /\ queue' = Append(q, j) /\ JobFits(j)'
                 /\ j.what \notin Control /\ MayJoin(j)
                 /\ j.what \in Asked =>
                       \A x \in DOMAIN scope :
                          x <= j.of /\ scope[x].pc # "done" => Free(x, q)
    PROVE  /\ ScopesTyped' /\ ShapeInv' /\ JobInv'
           /\ DOMAIN scope' = DOMAIN scope /\ Fates /\ AskedKept
           /\ StillOpening
<1>1. /\ scope' \in [DOMAIN scope -> ScopeRecord]
      /\ DOMAIN scope' = DOMAIN scope
      /\ \A x \in DOMAIN scope :
            /\ Alike(x)
            /\ scope'[x].settled = scope[x].settled
            /\ scope'[x].pc = scope[x].pc
  BY DEF Touched, Alike
<1>2. ShapeInv'
  BY <1>1, ShapeStays
<1>3. /\ scope' \in Seq(ScopeRecord) /\ Len(scope') = Len(scope)
  <2>1. DOMAIN scope = 1..Len(scope) /\ Len(scope) \in Nat
    BY Typed
  <2>2. scope' \in [1..Len(scope) -> ScopeRecord]
    BY <1>1, <2>1
  <2> HIDE DEF ScopeRecord
  <2> QED
    BY <2>1, <2>2, FunctionIsSequence
<1>4. queue' \in Seq(JobRecord)
  <2>1. q \in Seq(JobRecord)
    BY RestOfQueue
  <2> HIDE DEF JobRecord
  <2> QED
    BY <2>1, Appended
<1>5. ScopesTyped'
  <2>1. Len(scope) \in Scopes /\ stack \in Seq(Scopes)
        /\ client \in {"held", "returned", "destroyed"}
    BY DEF TypeOK
  <2> QED
    BY <1>3, <1>4, <2>1 DEF ScopesTyped, Scopes
<1>6. Further(q)
  BY <1>1 DEF Further, Alike
<1>7. JobInv'
  <2>1. CASE queue' = q
    BY <1>6, <2>1, JobsServed
  <2>2. ASSUME NEW j \in JobRecord,
               queue' = Append(q, j), JobFits(j)', j.what \notin Control,
               j.what \in Asked =>
                  \A x \in DOMAIN scope :
                     x <= j.of /\ scope[x].pc # "done" => Free(x, q)
        PROVE  JobInv'
    <3>1. j.what \in Asked =>
                  \A x \in DOMAIN scope :
                     x <= j.of /\ scope'[x].pc # "done" => Free(x, q)
      BY <1>1, <2>2
    <3> HIDE DEF JobRecord
    <3> QED
      BY <1>6, <2>2, <3>1, JobsJoined
  <2> HIDE DEF JobRecord
  <2> QED
    BY <2>1, <2>2
<1>8. Fates
  BY <1>1 DEF Fates, Alike, Alive, Touched, Spreads, ShapeInv, StackInv
<1>9. AskedKept
  BY AskedServed, AskedJoined
<1>10. StillOpening
  BY <1>1 DEF StillOpening
<1> QED
  BY <1>1, <1>2, <1>5, <1>7, <1>8, <1>9, <1>10

-----------------------------------------------------------------------------
(* The server.                                                             *)

(* The levels of the server's transaction are those of scopes, the outer   *)
(* ones first.  The first is of the transaction that is on the stack, and  *)
(* it is gone once that one has nothing left to do but leave.              *)
MarkInv ==
    /\ \A i \in DOMAIN marks :
          marks[i].of \in DOMAIN scope /\ marks[i].works \subseteq ran
    /\ \A i, j \in DOMAIN marks : i < j => marks[i].of < marks[j].of
    /\ marks # <<>> =>
          OnStack(marks[1].of) /\ scope[marks[1].of].kind = "transaction"
    /\ \A i \in DOMAIN marks, s \in DOMAIN scope :
          scope[s].pc = "opening" => marks[i].of < s
    /\ \A s \in DOMAIN scope :
          /\ Alive(s)
          /\ scope[s].kind = "transaction"
          /\ scope[s].pc = "waiting" \/ scope[s].undone
          => marks = <<>>
    /\ Lost => marks = <<>>

ServerTyped ==
    /\ marks \in Seq(MarkRecord)
    /\ aborted \in BOOLEAN
    /\ link \in {"up", "down"}

HistoryTyped ==
    /\ faults \in 0 .. MaxFault
    /\ issuer \in Seq(Scopes)
    /\ ran \subseteq 1 .. MaxWork
    /\ durable \subseteq ran
    /\ excused \subseteq Scopes

LEMMA TypesOf ==
    ASSUME TypeOK
    PROVE  ScopesTyped /\ ServerTyped /\ HistoryTyped
BY DEF TypeOK, ScopesTyped, ServerTyped, HistoryTyped, ScopeRecord, Progress,
       JobRecord, What, MarkRecord

LEMMA TypesFrom ==
    ASSUME ScopesTyped', ServerTyped', HistoryTyped', ShapeInv'
    PROVE  TypeOK'
<1>1. \A i, j \in DOMAIN stack' : i # j => stack'[i] # stack'[j]
  <2>1. \A i \in DOMAIN stack' : i \in Nat /\ stack'[i] \in Nat
    <3>1. Scopes \subseteq Nat
      BY ScopeAssumption DEF Scopes
    <3>2. stack' \in Seq(Scopes)
      BY DEF ScopesTyped, Scopes
    <3>3. \A i \in DOMAIN stack' : i \in Nat /\ stack'[i] \in Scopes
      BY <3>2
    <3> QED
      BY <3>1, <3>3
  <2>2. ASSUME NEW i \in DOMAIN stack', NEW j \in DOMAIN stack', i # j
        PROVE  stack'[i] # stack'[j]
    <3>1. i < j \/ j < i
      BY <2>1, <2>2
    <3>2. stack'[i] < stack'[j] \/ stack'[j] < stack'[i]
      BY <3>1 DEF ShapeInv, StackInv
    <3> QED
      BY <2>1, <3>2
  <2> QED
    BY <2>2
<1>2. \A i \in DOMAIN stack' : scope'[stack'[i]].pc # "done"
  BY DEF ShapeInv, StackInv, OnStack, Alive
<1> QED
  BY <1>1, <1>2 DEF TypeOK, ScopesTyped, ServerTyped, HistoryTyped,
     ScopeRecord, Progress, JobRecord, What, MarkRecord

(* Levels are gone, and what is held by those that are left is known.      *)
Cut ==
    /\ marks' \in Seq(MarkRecord)
    /\ \A i \in DOMAIN marks' :
          /\ i \in DOMAIN marks
          /\ marks'[i].of = marks[i].of
          /\ marks'[i].works \subseteq ran'

LEMMA CutNone ==
    ASSUME TypeOK, MarkInv, marks' = marks, ran \subseteq ran'
    PROVE  Cut
<1>1. marks \in Seq(MarkRecord)
  BY Typed
<1> QED
  BY <1>1 DEF Cut, MarkInv

LEMMA CutAll ==
    ASSUME marks' = <<>>
    PROVE  Cut
BY DEF Cut

LEMMA WorksHaveRun ==
    ASSUME TypeOK, MarkInv, NEW I, I \subseteq DOMAIN marks
    PROVE  Works(I) \subseteq ran
BY DEF Works, MarkInv

LEMMA Prefix ==
    ASSUME NEW S, NEW q \in Seq(S), NEW n \in 0..Len(q)
    PROVE  /\ SubSeq(q, 1, n) \in [1..n -> S]
           /\ \A k \in 1..n : SubSeq(q, 1, n)[k] = q[k] /\ k \in DOMAIN q
<1>1. SubSeq(q, 1, n) = [k \in 1..n |-> q[1 + k - 1]]
  BY DEF SubSeq
<1>2. \A k \in 1..n : 1 + k - 1 = k /\ k \in DOMAIN q /\ q[k] \in S
  OBVIOUS
<1> QED
  BY <1>1, <1>2

LEMMA CutBack ==
    ASSUME TypeOK, MarkInv, NEW s, BackTo(s), ran' = ran
    PROVE  /\ Cut /\ link' = link /\ aborted' = FALSE
           /\ \E i \in Level(s) : DOMAIN marks' = 1..i
<1>1. PICK i \in Level(s) :
          /\ marks' = [SubSeq(marks, 1, i) EXCEPT ![i].works = {}]
          /\ aborted' = FALSE
          /\ UNCHANGED link
  BY DEF BackTo
<1>2. /\ marks \in Seq(MarkRecord) /\ Len(marks) \in Nat
      /\ DOMAIN marks = 1..Len(marks)
  BY Typed
<1>3. i \in 1..Len(marks)
  BY <1>2 DEF Level
<1> DEFINE m == SubSeq(marks, 1, i)
<1>4. /\ m \in [1..i -> MarkRecord]
      /\ \A k \in 1..i : m[k] = marks[k] /\ k \in DOMAIN marks
  <2> HIDE DEF MarkRecord
  <2> QED
    BY <1>2, <1>3, Prefix
<1> HIDE DEF m
<1> DEFINE r == [m[i] EXCEPT !.works = {}]
<1>5. r \in MarkRecord /\ r.of = m[i].of /\ r.works = {}
  BY <1>3, <1>4 DEF MarkRecord
<1>6. marks' = [m EXCEPT ![i] = r]
  BY <1>1 DEF m
<1> HIDE DEF r, MarkRecord
<1>7. /\ marks' \in [1..i -> MarkRecord] /\ marks'[i] = r
      /\ \A k \in 1..i : k # i => marks'[k] = m[k]
  BY <1>3, <1>4, <1>5, <1>6
<1>8. marks' \in Seq(MarkRecord) /\ DOMAIN marks' = 1..i
  BY <1>3, <1>7, FunctionIsSequence
<1>9. ASSUME NEW k \in 1..i
      PROVE  /\ k \in DOMAIN marks /\ marks'[k].of = marks[k].of
             /\ marks'[k].works \subseteq ran'
  <2>1. CASE k = i
    BY <1>4, <1>5, <1>7, <2>1
  <2>2. CASE k # i
    BY <1>4, <1>7, <2>2 DEF MarkInv
  <2> QED
    BY <2>1, <2>2
<1> QED
  BY <1>1, <1>8, <1>9 DEF Cut

LEMMA CutMerge ==
    ASSUME TypeOK, MarkInv, NEW s, Merge(s), ran' = ran
    PROVE  /\ Cut /\ link' = link /\ aborted' = aborted
           /\ \E i \in Level(s) : DOMAIN marks' = 1..(i - 1)
<1>1. PICK i \in Level(s) :
          /\ marks' = [SubSeq(marks, 1, i - 1) EXCEPT
                        ![i - 1].works = Works((i - 1) .. Len(marks))]
          /\ UNCHANGED <<aborted, link>>
  BY DEF Merge
<1>2. /\ marks \in Seq(MarkRecord) /\ Len(marks) \in Nat
      /\ DOMAIN marks = 1..Len(marks)
  BY Typed
<1>3. i \in 1..Len(marks)
  BY <1>2 DEF Level
<1> DEFINE m == SubSeq(marks, 1, i - 1)
           W == Works((i - 1) .. Len(marks))
<1>4. /\ m \in [1..(i - 1) -> MarkRecord]
      /\ \A k \in 1..(i - 1) : m[k] = marks[k] /\ k \in DOMAIN marks
  <2> HIDE DEF MarkRecord
  <2>1. i - 1 \in 0..Len(marks)
    BY <1>2, <1>3
  <2> QED
    BY <1>2, <2>1, Prefix
<1> HIDE DEF m
<1>10. i - 1 \in 1..(i - 1) => W \subseteq ran
  <2> SUFFICES ASSUME i - 1 \in 1..(i - 1) PROVE W \subseteq ran
    OBVIOUS
  <2>1. (i - 1) .. Len(marks) \subseteq DOMAIN marks
    BY <1>2, <1>3
  <2> QED
    BY <2>1, WorksHaveRun
<1>11. ran \subseteq 1..MaxWork
  BY DEF TypeOK
<1> HIDE DEF W
<1> DEFINE r == [m[i - 1] EXCEPT !.works = W]
<1>5. i - 1 \in 1..(i - 1) =>
          r \in MarkRecord /\ r.of = m[i - 1].of /\ r.works = W
  BY <1>4, <1>10, <1>11 DEF MarkRecord
<1>6. marks' = [m EXCEPT ![i - 1] = r]
  BY <1>1 DEF m, W
<1> HIDE DEF r, MarkRecord
<1>7. /\ marks' \in [1..(i - 1) -> MarkRecord]
      /\ i - 1 \in 1..(i - 1) => marks'[i - 1] = r
      /\ \A k \in 1..(i - 1) : k # i - 1 => marks'[k] = m[k]
  BY <1>4, <1>5, <1>6
<1>8. marks' \in Seq(MarkRecord) /\ DOMAIN marks' = 1..(i - 1)
  <2>1. i - 1 \in Nat
    BY <1>3
  <2> QED
    BY <1>7, <2>1, FunctionIsSequence
<1>9. ASSUME NEW k \in 1..(i - 1)
      PROVE  /\ k \in DOMAIN marks /\ marks'[k].of = marks[k].of
             /\ marks'[k].works \subseteq ran'
  <2>1. CASE k = i - 1
    BY <1>4, <1>5, <1>7, <1>10, <2>1
  <2>2. CASE k # i - 1
    BY <1>4, <1>7, <2>2 DEF MarkInv
  <2> QED
    BY <2>1, <2>2
<1> QED
  BY <1>1, <1>8, <1>9 DEF Cut

(* What the scopes of a step may do for the levels to stay in order.       *)
LEMMA MarksCut ==
    ASSUME TypeOK, ShapeInv, MarkInv, ShapeInv', Cut,
           DOMAIN scope \subseteq DOMAIN scope',
           \A x \in DOMAIN scope :
              Alive(x) /\ scope[x].kind = "transaction" =>
                 \/ marks' = <<>>
                 \/ Alive(x)' /\ scope'[x].kind = "transaction",
           \A x \in DOMAIN scope' :
              scope'[x].pc = "opening" =>
                 x \notin DOMAIN scope \/ scope[x].pc = "opening",
           \A x \in DOMAIN scope' :
              /\ Alive(x)' /\ scope'[x].kind = "transaction"
              /\ scope'[x].pc = "waiting" \/ scope'[x].undone
              => \/ marks' = <<>>
                 \/ /\ x \in DOMAIN scope /\ Alive(x)
                    /\ scope[x].kind = "transaction"
                    /\ scope[x].pc = "waiting" \/ scope[x].undone,
           link' = link \/ marks' = <<>>,
           \A x \in DOMAIN scope' \ DOMAIN scope :
              x \in Nat /\ x > Len(scope)
    PROVE  MarkInv'
<1>1. /\ marks' \in Seq(MarkRecord)
      /\ \A i \in DOMAIN marks' :
            /\ i \in DOMAIN marks /\ marks'[i].of = marks[i].of
            /\ marks'[i].works \subseteq ran'
  BY DEF Cut
<1>2. marks' # <<>> => 1 \in DOMAIN marks' /\ marks # <<>>
  <2> HIDE DEF MarkRecord
  <2>1. marks' # <<>> => 1 \in DOMAIN marks'
    BY <1>1
  <2> QED
    BY <1>1, <2>1
<1>3. marks' # <<>> =>
          /\ OnStack(marks[1].of)'
          /\ scope'[marks'[1].of].kind = "transaction"
  <2> SUFFICES ASSUME marks' # <<>>
               PROVE  /\ \E i \in DOMAIN stack' : stack'[i] = marks'[1].of
                      /\ scope'[marks'[1].of].kind = "transaction"
    BY DEF OnStack
  <2> DEFINE x == marks[1].of
  <2>1. /\ x \in DOMAIN scope /\ OnStack(x)
        /\ scope[x].kind = "transaction" /\ marks'[1].of = x
    BY <1>1, <1>2 DEF MarkInv
  <2>2. Alive(x)
    BY <2>1 DEF ShapeInv, StackInv
  <2> HIDE DEF x
  <2>3. scope'[x].pc # "done" /\ scope'[x].kind = "transaction"
    BY <2>1, <2>2 DEF Alive
  <2>4. \E i \in DOMAIN stack' : stack'[i] = x
    BY <2>1, <2>3 DEF ShapeInv, StackInv, Alive, OnStack
  <2> QED
    BY <2>1, <2>3, <2>4
<1>4. ASSUME NEW i \in DOMAIN marks', NEW s \in DOMAIN scope',
             scope'[s].pc = "opening"
      PROVE  marks'[i].of < s
  <2>1. marks'[i].of \in DOMAIN scope
    BY <1>1 DEF MarkInv
  <2>2. CASE s \in DOMAIN scope
    BY <1>1, <1>4, <2>2 DEF MarkInv
  <2>3. CASE s \notin DOMAIN scope
    <3>1. s > Len(scope) /\ DOMAIN scope = 1..Len(scope) /\ Len(scope) \in Nat
          /\ s \in Nat
      BY <2>3, Typed
    <3> QED
      BY <2>1, <3>1
  <2> QED
    BY <2>2, <2>3
<1>5. ASSUME NEW s \in DOMAIN scope', Alive(s)',
             scope'[s].kind = "transaction",
             scope'[s].pc = "waiting" \/ scope'[s].undone
      PROVE  marks' = <<>>
  BY <1>2, <1>5 DEF MarkInv
<1>6. link' = "down" => marks' = <<>>
  BY <1>2 DEF MarkInv, Lost
<1> QED
  BY <1>1, <1>3, <1>4, <1>5, <1>6 DEF MarkInv, Lost

CoreInv == TypeOK /\ ShapeInv /\ JobInv /\ MarkInv

LEMMA MarksMoved ==
    ASSUME CoreInv, ShapeInv', NEW s \in DOMAIN scope, Alive(s),
           NEW sc, Touched(sc, s), NEW pc \in Progress \ {"opening", "done"},
           Moved(sc, s, pc), DOMAIN scope' = DOMAIN scope, Cut,
           link' = link \/ marks' = <<>>,
           /\ scope[s].kind = "transaction"
           /\ pc = "waiting" \/ sc[s].undone
           => \/ marks' = <<>>
              \/ scope[s].pc = "waiting" \/ scope[s].undone
    PROVE  MarkInv'
<1>1. /\ scope'[s].kind = scope[s].kind /\ scope'[s].pc = pc
      /\ scope'[s].undone = sc[s].undone
  BY DEF Moved, Touched, ScopeRecord
<1>2. \A x \in DOMAIN scope :
          x # s => /\ scope'[x].kind = scope[x].kind
                   /\ scope'[x].pc = scope[x].pc
                   /\ scope'[x].undone => scope[x].undone
  BY DEF Moved, Touched
<1>3. \A x \in DOMAIN scope :
          /\ Alive(x)' <=> Alive(x)
          /\ scope'[x].kind = scope[x].kind
          /\ scope'[x].pc = "opening" => scope[x].pc = "opening"
  BY <1>1, <1>2 DEF Alive
<1>4. \A x \in DOMAIN scope :
          /\ Alive(x)' /\ scope'[x].kind = "transaction"
          /\ scope'[x].pc = "waiting" \/ scope'[x].undone
          => \/ marks' = <<>>
             \/ /\ Alive(x) /\ scope[x].kind = "transaction"
                /\ scope[x].pc = "waiting" \/ scope[x].undone
  BY <1>1, <1>2, <1>3
<1> QED
  BY <1>3, <1>4, MarksCut DEF CoreInv

LEMMA MarksLeft ==
    ASSUME CoreInv, ShapeInv', NEW s \in DOMAIN scope, Alive(s),
           NEW sc, Touched(sc, s), DOMAIN scope' = DOMAIN scope,
           \A x \in DOMAIN scope : x # s => scope'[x] = sc[x],
           scope'[s].pc = "done", Cut,
           link' = link \/ marks' = <<>>,
           scope[s].kind = "transaction" => marks' = <<>>
    PROVE  MarkInv'
<1>2. \A x \in DOMAIN scope :
          x # s => /\ scope'[x].kind = scope[x].kind
                   /\ scope'[x].pc = scope[x].pc
                   /\ scope'[x].undone => scope[x].undone
  BY DEF Touched
<1>3. \A x \in DOMAIN scope :
          /\ Alive(x)' <=> Alive(x) /\ x # s
          /\ scope'[x].pc = "opening" => scope[x].pc = "opening"
  BY <1>2 DEF Alive
<1>4. \A x \in DOMAIN scope :
          /\ Alive(x)' /\ scope'[x].kind = "transaction"
          /\ scope'[x].pc = "waiting" \/ scope'[x].undone
          => \/ marks' = <<>>
             \/ /\ Alive(x) /\ scope[x].kind = "transaction"
                /\ scope[x].pc = "waiting" \/ scope[x].undone
  BY <1>2, <1>3
<1>5. \A x \in DOMAIN scope :
          Alive(x) /\ scope[x].kind = "transaction" =>
             \/ marks' = <<>>
             \/ Alive(x)' /\ scope'[x].kind = "transaction"
  BY <1>2, <1>3
<1> QED
  BY <1>3, <1>4, <1>5, MarksCut DEF CoreInv

LEMMA MarksStay ==
    ASSUME CoreInv, ShapeInv', NEW s \in DOMAIN scope,
           Touched(scope', s), Cut, link' = link \/ marks' = <<>>,
           scope[s].kind = "transaction" /\ scope'[s].undone =>
              marks' = <<>> \/ scope[s].undone
    PROVE  MarkInv'
<1>1. /\ DOMAIN scope' = DOMAIN scope
      /\ \A x \in DOMAIN scope :
            /\ scope'[x].kind = scope[x].kind
            /\ scope'[x].pc = scope[x].pc
            /\ x # s => (scope'[x].undone => scope[x].undone)
  BY DEF Touched
<1>3. \A x \in DOMAIN scope : Alive(x)' <=> Alive(x)
  BY <1>1 DEF Alive
<1>4. \A x \in DOMAIN scope :
          /\ Alive(x)' /\ scope'[x].kind = "transaction"
          /\ scope'[x].pc = "waiting" \/ scope'[x].undone
          => \/ marks' = <<>>
             \/ /\ Alive(x) /\ scope[x].kind = "transaction"
                /\ scope[x].pc = "waiting" \/ scope[x].undone
  BY <1>1, <1>3
<1> QED
  BY <1>1, <1>3, <1>4, MarksCut DEF CoreInv

-----------------------------------------------------------------------------
(* One lemma an action: it keeps the invariant, and what it does to the    *)
(* scopes and to what they ask for is in bounds.                           *)

LEMMA FirstInQueue ==
    ASSUME CoreInv, queue # <<>>
    PROVE  /\ Of \in DOMAIN scope /\ Rest(Served)
           /\ JobFits(queue[1]) /\ queue[1] \in JobRecord
           /\ queue[1].what \in Control =>
                 /\ Alive(Of) /\ Free(Of, Served)
                 /\ scope[Of].pc \in Stage(queue[1].what)
<1>0. TypeOK
  BY DEF CoreInv
<1>1. queue \in Seq(JobRecord) /\ DOMAIN queue = 1..Len(queue)
      /\ Len(queue) \in Nat
  BY <1>0, Typed
<1>2. 1 \in DOMAIN queue /\ queue[1] \in JobRecord
  <2> HIDE DEF JobRecord
  <2> QED
    BY <1>1
<1>3. JobFits(queue[1])
  BY <1>2 DEF CoreInv, JobInv
<1>4. queue[1].what \in Control => Alive(Of)
  BY <1>3 DEF JobFits, Stage, Control, Alive, Of
<1> QED
  BY <1>2, <1>3, <1>4, FreeOnceServed DEF JobFits, CoreInv, Rest, Served, Of

LEMMA QuietServer ==
    ASSUME CoreInv, SameServer \/ Error, ran' = ran
    PROVE  ServerTyped' /\ Cut /\ link' = link /\ marks' = marks
<1>1. marks' = marks /\ link' = link /\ aborted' \in BOOLEAN
  BY DEF SameServer, Error, serverVars, CoreInv, TypeOK
<1>2. ServerTyped
  BY TypesOf DEF CoreInv
<1> QED
  BY <1>1, <1>2, CutNone DEF ServerTyped, CoreInv

LEMMA EndedServer ==
    ASSUME CoreInv, EndTransaction
    PROVE  ServerTyped' /\ Cut /\ link' = link /\ marks' = <<>>
<1>1. marks' = <<>> /\ link' = link /\ aborted' = FALSE
  BY DEF EndTransaction
<1>2. ServerTyped
  BY TypesOf DEF CoreInv
<1>3. Cut
  BY <1>1, CutAll
<1> QED
  BY <1>1, <1>2, <1>3 DEF ServerTyped, Cut

LEMMA BackServer ==
    ASSUME CoreInv, NEW s, BackTo(s) \/ Merge(s), ran' = ran
    PROVE  ServerTyped' /\ Cut /\ link' = link
<1>1. Cut /\ link' = link /\ aborted' \in {aborted, FALSE}
  BY CutBack, CutMerge DEF CoreInv
<1>2. ServerTyped
  BY TypesOf DEF CoreInv
<1> QED
  BY <1>1, <1>2 DEF ServerTyped, Cut

LEMMA QuietHistory ==
    ASSUME CoreInv, SameHistory
    PROVE  HistoryTyped' /\ ran' = ran /\ issuer' = issuer
BY TypesOf DEF CoreInv, HistoryTyped, SameHistory, historyVars

(* What an action has to keep.                                             *)
Preserved ==
    /\ ScopesTyped' /\ ServerTyped' /\ HistoryTyped'
    /\ ShapeInv' /\ JobInv' /\ MarkInv'
    /\ Fates /\ AskedKept

LEMMA PreservedCore ==
    ASSUME Preserved
    PROVE  CoreInv'
BY TypesFrom DEF Preserved, CoreInv

LEMMA KeptByWait ==
    ASSUME CoreInv, NEW s \in DOMAIN scope, Alive(s),
           NEW sc, Touched(sc, s), sc[s].closing,
           NEW q, Rest(q), Free(s, q), Wait(s, sc, q), issuer' = issuer,
           ServerTyped', HistoryTyped', Cut, link' = link \/ marks' = <<>>,
           scope[s].kind = "transaction" =>
              \/ marks' = <<>>
              \/ scope[s].pc = "waiting" \/ scope[s].undone
    PROVE  Preserved /\ (scope[s].pc # "opening" => StillOpening)
<1>1. TypeOK /\ ShapeInv /\ JobInv
  BY DEF CoreInv
<1>2. /\ ScopesTyped' /\ ShapeInv' /\ JobInv' /\ Fates /\ AskedKept
      /\ Moved(sc, s, "waiting") /\ DOMAIN scope' = DOMAIN scope
      /\ scope[s].pc # "opening" => StillOpening
  BY <1>1, WaitStep
<1>3. "waiting" \in Progress \ {"opening", "done"}
  BY DEF Progress
<1>4. MarkInv'
  BY <1>2, <1>3, MarksMoved
<1> QED
  BY <1>2, <1>4 DEF Preserved

LEMMA KeptByProceed ==
    ASSUME CoreInv, NEW s \in DOMAIN scope, Alive(s),
           NEW sc, Touched(sc, s), sc[s].closing,
           NEW pc \in Progress, NEW what \in Control \ {"savepoint", "begin"},
           pc \in Stage(what), pc # "waiting",
           pc = "committing" => scope[s].kind = "transaction",
           pc \in {"releasing", "reverting", "forgetting"} =>
              scope[s].kind = "savepoint",
           pc \in {"cleaning", "undoing"} => scope[s].kind # "pinned",
           pc = "leaving" => scope[s].kind = "pinned",
           pc \in Ending => \A c \in Children(s) : scope[c].settled # "open",
           NEW q, Rest(q), Free(s, q), Proceed(s, pc, what, sc, q),
           issuer' = issuer,
           ServerTyped', HistoryTyped', Cut, link' = link \/ marks' = <<>>,
           scope[s].kind = "transaction" /\ sc[s].undone =>
              \/ marks' = <<>>
              \/ scope[s].pc = "waiting" \/ scope[s].undone
    PROVE  Preserved /\ (scope[s].pc # "opening" => StillOpening)
<1>1. TypeOK /\ ShapeInv /\ JobInv
  BY DEF CoreInv
<1>2. /\ ScopesTyped' /\ ShapeInv' /\ JobInv' /\ Fates /\ AskedKept
      /\ Moved(sc, s, pc) /\ DOMAIN scope' = DOMAIN scope
      /\ scope[s].pc # "opening" => StillOpening
  BY <1>1, ProceedStep
<1>3. pc \notin {"opening", "done"}
  BY DEF Stage, Control
<1>4. MarkInv'
  BY <1>2, <1>3, MarksMoved
<1> QED
  BY <1>2, <1>4 DEF Preserved

LEMMA KeptByFail ==
    ASSUME CoreInv, NEW s \in DOMAIN scope, Alive(s),
           NEW sc, Touched(sc, s), NEW q, Rest(q), Free(s, q),
           Fail(s, sc, q), issuer' = issuer,
           ServerTyped', HistoryTyped', Cut, link' = link \/ marks' = <<>>,
           scope[s].kind = "transaction" /\ sc[s].undone =>
              \/ marks' = <<>>
              \/ scope[s].pc = "waiting" \/ scope[s].undone
    PROVE  Preserved /\ (scope[s].pc # "opening" => StillOpening)
<1>1. TypeOK /\ ShapeInv /\ JobInv
  BY DEF CoreInv
<1> DEFINE t == Closed(sc, s)
<1>2. /\ ScopesTyped' /\ ShapeInv' /\ JobInv' /\ Fates /\ AskedKept
      /\ DOMAIN scope' = DOMAIN scope
      /\ scope[s].pc # "opening" => StillOpening
      /\ \/ /\ Moved(t, s, "waiting")
            /\ scope[s].kind = "pinned" \/ sc[s].undone
         \/ Moved(t, s, "undoing")
  BY <1>1, FailStep
<1>3. Touched(t, s) /\ t[s].undone = sc[s].undone
  BY <1>1, TouchedClosed
<1>4. {"waiting", "undoing"} \subseteq Progress \ {"opening", "done"}
  BY DEF Progress
<1> HIDE DEF t
<1>5. MarkInv'
  BY <1>2, <1>3, <1>4, MarksMoved
<1> QED
  BY <1>2, <1>5 DEF Preserved

LEMMA KeptByLeave ==
    ASSUME CoreInv, NEW s \in DOMAIN scope, Alive(s),
           Top(s) \/ scope[s].kind = "pinned",
           NEW sc, Touched(sc, s), NEW v \in {"resolved", "rejected"},
           NEW sd, sd \in Settling(sc, s),
           NEW q, Rest(q), Free(s, q), Leave(s, v, sd, q), issuer' = issuer,
           ServerTyped', HistoryTyped', Cut, link' = link \/ marks' = <<>>,
           scope[s].kind = "transaction" => marks' = <<>>
    PROVE  Preserved /\ StillOpening
<1>1. TypeOK /\ ShapeInv /\ JobInv
  BY DEF CoreInv
<1>2. /\ ScopesTyped' /\ ShapeInv' /\ JobInv' /\ Fates /\ AskedKept
      /\ \A x \in DOMAIN scope : x # s => scope'[x] = sc[x]
      /\ scope'[s].pc = "done" /\ DOMAIN scope' = DOMAIN scope
      /\ StillOpening
  BY <1>1, LeaveStep
<1>3. MarkInv'
  BY <1>2, MarksLeft
<1> QED
  BY <1>2, <1>3 DEF Preserved

LEMMA KeptByStay ==
    ASSUME CoreInv, NEW s \in DOMAIN scope,
           Touched(scope', s), stack' = stack,
           client' \in {client, "destroyed"},
           NEW q, Rest(q), IssuerGrows,
           \/ queue' = q
           \/ \E j \in JobRecord :
                 /\ queue' = Append(q, j) /\ JobFits(j)'
                 /\ j.what \notin Control /\ MayJoin(j)
                 /\ j.what \in Asked =>
                       \A x \in DOMAIN scope :
                          x <= j.of /\ scope[x].pc # "done" => Free(x, q),
           ServerTyped', HistoryTyped', Cut, link' = link \/ marks' = <<>>,
           scope[s].kind = "transaction" /\ scope'[s].undone =>
              marks' = <<>> \/ scope[s].undone
    PROVE  Preserved /\ StillOpening
<1>1. TypeOK /\ ShapeInv /\ JobInv
  BY DEF CoreInv
<1>2. /\ ScopesTyped' /\ ShapeInv' /\ JobInv' /\ Fates /\ AskedKept
      /\ DOMAIN scope' = DOMAIN scope /\ StillOpening
  BY <1>1, StayStep
<1>3. MarkInv'
  BY <1>2, MarksStay
<1> QED
  BY <1>2, <1>3 DEF Preserved

(* The answer of a statement that is not of a scope itself, and what the   *)
(* stream it may belong to sends next.                                     *)
LEMMA KeptByAnswer ==
    ASSUME CoreInv, NEW s \in DOMAIN scope, scope[s].pc # "opening",
           Touched(scope', s), stack' = stack, client' = client,
           queue # <<>>,
           \/ queue' = Served
           \/ \E what \in {"recover", "close"} :
                 /\ queue' = Append(Served, Job(what, s, 0))
                 /\ what = "recover" =>
                       Strays \/ scope'[s].poison \/ Turned(s),
           issuer' = issuer, ServerTyped', HistoryTyped', Cut,
           link' = link \/ marks' = <<>>,
           scope[s].kind = "transaction" /\ scope'[s].undone =>
              marks' = <<>> \/ scope[s].undone
    PROVE  Preserved /\ StillOpening
<1>1. Rest(Served) /\ IssuerGrows
  BY DEF Rest, Served, IssuerGrows
<1>2. CASE queue' = Served
  BY <1>1, <1>2, KeptByStay
<1>3. ASSUME NEW what \in {"recover", "close"},
             queue' = Append(Served, Job(what, s, 0)),
             what = "recover" => Strays \/ scope'[s].poison \/ Turned(s)
      PROVE  Preserved /\ StillOpening
  <2> DEFINE j == Job(what, s, 0)
  <2>1. /\ j \in JobRecord /\ j.what = what /\ j.of = s
        /\ j.what \notin Control /\ j.what \notin Asked
        /\ j.what \notin {"work", "fetch", "begin", "savepoint"}
    <3>1. s \in Scopes /\ 0 \in 0..MaxWork
      BY Typed, ScopeAssumption DEF CoreInv
    <3> QED
      BY <3>1 DEF Job, JobRecord, What, Control, Asked
  <2> HIDE DEF j
  <2>2. JobFits(j)'
    <3>1. DOMAIN scope' = DOMAIN scope /\ scope'[s].pc = scope[s].pc
      BY DEF Touched
    <3> QED
      BY <2>1, <3>1 DEF JobFits
  <2>3. queue' = Append(Served, j)
    BY <1>3 DEF j
  <2>4. MayJoin(j)
    BY <1>3, <2>1 DEF MayJoin
  <2> HIDE DEF JobRecord
  <2> QED
    BY <1>1, <2>1, <2>2, <2>3, <2>4, KeptByStay
<1> QED
  BY <1>2, <1>3

LEMMA DrainKeeps ==
    ASSUME CoreInv, ServeDrain
    PROVE  Preserved /\ StillOpening /\ marks' = marks /\ link' = link
<1>0. PICK s : s = Of
  OBVIOUS
<1>1. /\ queue # <<>> /\ queue[1].what = "drain" /\ SameServer /\ SameHistory
      /\ "drain" \in Control
  BY DEF ServeDrain, At, Control
<1>2. /\ s \in DOMAIN scope /\ Rest(Served) /\ Alive(s) /\ Free(s, Served)
      /\ scope[s].pc \in {"draining", "leaving"}
  BY <1>0, <1>1, FirstInQueue DEF Stage
<1>3. /\ ServerTyped' /\ HistoryTyped' /\ Cut /\ link' = link
      /\ ran' = ran /\ issuer' = issuer /\ marks' = marks
  BY <1>1, QuietServer, QuietHistory
<1>4. TypeOK /\ ScopeInv(s) /\ Touched(scope, s)
  BY <1>2, TouchedNone DEF CoreInv, ShapeInv
<1>5. /\ scope[s].closing
      /\ \A c \in Children(s) : scope[c].settled # "open"
      /\ scope[s].pc = "leaving" => scope[s].kind = "pinned"
  BY <1>2, <1>4 DEF ScopeInv, Ending
<1>6. ASSUME NEW v \in {"resolved", "rejected"}, Leave(s, v, scope, Served),
             scope[s].kind = "pinned"
      PROVE  Preserved /\ StillOpening
  <2>1. scope \in Settling(scope, s)
    BY DEF Settling
  <2> QED
    BY <1>2, <1>3, <1>4, <1>6, <2>1, KeptByLeave
<1>7. ASSUME Fail(s, scope, Served)
      PROVE  Preserved /\ StillOpening
  BY <1>2, <1>3, <1>4, <1>7, KeptByFail
<1>8. ASSUME NEW pc \in {"cleaning", "committing", "releasing"},
             NEW what \in {"undo", "commit", "release"},
             pc \in Stage(what), Proceed(s, pc, what, scope, Served),
             pc = "committing" => scope[s].kind = "transaction",
             pc = "releasing" => scope[s].kind = "savepoint",
             scope[s].kind # "pinned"
      PROVE  Preserved /\ StillOpening
  <2>1. pc \in Progress /\ what \in Control \ {"savepoint", "begin"}
    BY DEF Progress, Control
  <2> QED
    BY <1>2, <1>3, <1>4, <1>5, <1>8, <2>1, KeptByProceed
<1>9. scope[s].kind \in {"pinned", "transaction", "savepoint"}
  BY <1>2, <1>4, Typed DEF ScopeRecord, Kinds
<1>10. /\ "cleaning" \in Stage("undo") /\ "committing" \in Stage("commit")
       /\ "releasing" \in Stage("release")
  BY DEF Stage
<1>11. \/ Leave(s, "rejected", scope, Served) /\ scope[s].kind = "pinned"
       \/ Fail(s, scope, Served)
       \/ Leave(s, "resolved", scope, Served) /\ scope[s].kind = "pinned"
       \/ /\ Proceed(s, "cleaning", "undo", scope, Served)
          /\ scope[s].kind # "pinned"
       \/ /\ Proceed(s, "committing", "commit", scope, Served)
          /\ scope[s].kind = "transaction"
       \/ /\ Proceed(s, "releasing", "release", scope, Served)
          /\ scope[s].kind = "savepoint"
  BY <1>0, <1>5, <1>9 DEF ServeDrain
<1> QED
  BY <1>3, <1>6, <1>7, <1>8, <1>10, <1>11

LEMMA RefuseKeeps ==
    ASSUME CoreInv, Refuse
    PROVE  Preserved /\ StillOpening /\ marks' = marks /\ link' = link
<1>0. PICK s : s = Of
  OBVIOUS
<1>1. /\ queue # <<>> /\ queue[1].what \in {"work", "fetch", "raw"}
      /\ \/ queue' = Served
         \/ /\ queue' = Append(Served, Job("recover", s, 0))
            /\ Turned(s)
      /\ scope' = scope /\ stack' = stack /\ client' = client
      /\ SameServer /\ SameHistory
  BY <1>0 DEF Refuse, At, Turned
<1>2. /\ s \in DOMAIN scope /\ scope[s].pc # "opening"
  BY <1>0, <1>1, FirstInQueue DEF JobFits, Control, Of
<1>3. /\ ServerTyped' /\ HistoryTyped' /\ Cut /\ link' = link
      /\ ran' = ran /\ issuer' = issuer /\ marks' = marks
  BY <1>1, QuietServer, QuietHistory
<1>4. Touched(scope', s)
  BY <1>1, TouchedNone DEF CoreInv
<1> QED
  BY <1>1, <1>2, <1>3, <1>4, KeptByAnswer

LEMMA WorkRunsKeeps ==
    ASSUME CoreInv, WorkRuns
    PROVE  /\ Preserved /\ StillOpening /\ link' = link /\ scope' = scope
           /\ DOMAIN marks' = DOMAIN marks
           /\ \A i \in DOMAIN marks : marks'[i].of = marks[i].of
<1>0. PICK s, w : s = Of /\ w = queue[1].work
  OBVIOUS
<1>1. /\ queue # <<>> /\ queue[1].what = "work" /\ queue' = Served
      /\ scope' = scope /\ stack' = stack /\ client' = client
      /\ aborted' = aborted /\ link' = link /\ faults' = faults
      /\ issuer' = issuer /\ excused' = excused
      /\ ran' = ran \cup {w}
      /\ \/ marks' = marks /\ durable' = durable \cup {w}
         \/ /\ marks # <<>> /\ durable' = durable
            /\ marks' = [marks EXCEPT ![Len(marks)].works = @ \cup {w}]
  BY <1>0 DEF WorkRuns, At
<1>2. /\ s \in DOMAIN scope /\ scope[s].pc # "opening"
      /\ w \in DOMAIN issuer /\ w \in 0..MaxWork
  BY <1>0, <1>1, FirstInQueue DEF JobFits, Control, Of, JobRecord
<1>3. TypeOK /\ MarkInv /\ HistoryTyped /\ ServerTyped
  BY TypesOf DEF CoreInv
<1>4. w \in 1..MaxWork
  BY <1>2, <1>3, Typed, ScopeAssumption
<1>5. HistoryTyped'
  BY <1>1, <1>3, <1>4 DEF HistoryTyped
<1>6. /\ Cut /\ DOMAIN marks' = DOMAIN marks
      /\ \A i \in DOMAIN marks : marks'[i].of = marks[i].of
  <2>1. CASE marks' = marks
    BY <1>1, <1>3, <2>1, CutNone
  <2>2. CASE /\ marks # <<>>
             /\ marks' = [marks EXCEPT ![Len(marks)].works = @ \cup {w}]
    <3> DEFINE n == Len(marks)
               r == [marks[n] EXCEPT !.works = @ \cup {w}]
    <3>1. /\ marks \in Seq(MarkRecord) /\ n \in Nat
          /\ marks \in [DOMAIN marks -> MarkRecord]
          /\ DOMAIN marks = 1..n /\ n \in DOMAIN marks
      BY <1>3, <2>2, Typed
    <3>2. /\ r \in MarkRecord /\ r.of = marks[n].of
          /\ r.works = marks[n].works \cup {w}
      BY <1>4, <3>1 DEF MarkRecord
    <3>3. marks' = [marks EXCEPT ![n] = r]
      BY <2>2
    <3> HIDE DEF n, r, MarkRecord
    <3>4. /\ marks' \in [1..n -> MarkRecord] /\ marks'[n] = r
          /\ \A k \in 1..n : k # n => marks'[k] = marks[k]
      BY <3>1, <3>2, <3>3
    <3>5. marks' \in Seq(MarkRecord) /\ DOMAIN marks' = 1..n
      BY <3>1, <3>4, FunctionIsSequence
    <3>6. ASSUME NEW k \in 1..n
          PROVE  /\ k \in DOMAIN marks /\ marks'[k].of = marks[k].of
                 /\ marks'[k].works \subseteq ran'
      <4>1. marks[k].works \subseteq ran /\ k \in DOMAIN marks
        BY <1>3, <3>1, <3>6 DEF MarkInv
      <4>2. CASE k = n
        BY <1>1, <3>2, <3>4, <4>1, <4>2
      <4>3. CASE k # n
        BY <1>1, <3>4, <3>6, <4>1, <4>3
      <4> QED
        BY <4>2, <4>3
    <3> QED
      BY <3>1, <3>5, <3>6 DEF Cut
  <2> QED
    BY <1>1, <2>1, <2>2
<1>7. ServerTyped'
  BY <1>1, <1>3, <1>6 DEF ServerTyped, Cut
<1>8. Touched(scope', s)
  BY <1>1, <1>3, TouchedNone
<1>9. Preserved /\ StillOpening
  BY <1>1, <1>2, <1>5, <1>6, <1>7, <1>8, KeptByAnswer
<1> QED
  BY <1>1, <1>6, <1>9

LEMMA WorkFailsKeeps ==
    ASSUME CoreInv, WorkFails
    PROVE  Preserved /\ StillOpening /\ marks' = marks /\ link' = link
<1>0. PICK s : s = Of
  OBVIOUS
<1>1. /\ queue # <<>> /\ queue[1].what = "work" /\ queue' = Served
      /\ scope' = PoisonSelf(s) /\ stack' = stack /\ client' = client
      /\ Error /\ UNCHANGED historyVars
      /\ faults' = faults \/ Fault
      /\ Top(s)
  BY <1>0 DEF WorkFails, At, Admitted
<1>2. /\ s \in DOMAIN scope /\ scope[s].pc # "opening"
  BY <1>0, <1>1, FirstInQueue DEF JobFits, Control, Of
<1>3. ran' = ran /\ issuer' = issuer
  BY <1>1 DEF historyVars
<1>4. HistoryTyped'
  <2>1. HistoryTyped
    BY TypesOf DEF CoreInv
  <2>2. faults' \in 0..MaxFault
    BY <1>1, <2>1, ScopeAssumption DEF HistoryTyped, Fault
  <2> QED
    BY <1>1, <2>1, <2>2 DEF HistoryTyped, historyVars
<1>5. ServerTyped' /\ Cut /\ link' = link /\ marks' = marks
  BY <1>1, <1>3, QuietServer
<1>6. Touched(scope', s) /\ scope'[s].undone = scope[s].undone
  <2>1. TypeOK /\ ShapeInv
    BY DEF CoreInv
  <2> QED
    BY <1>1, <1>2, <2>1, TouchedPoisoned
<1> QED
  BY <1>1, <1>2, <1>3, <1>4, <1>5, <1>6, KeptByAnswer

LEMMA FetchKeeps ==
    ASSUME CoreInv, ServeFetch
    PROVE  Preserved /\ StillOpening /\ marks' = marks /\ link' = link
<1>0. PICK s : s = Of
  OBVIOUS
<1>1. /\ queue # <<>> /\ queue[1].what = "fetch"
      /\ queue' = Append(Served, Job("recover", s, 0))
      /\ stack' = stack /\ client' = client /\ SameHistory
      /\ \/ Error /\ scope' = PoisonSelf(s)
         \/ SameServer /\ scope' = scope /\ Strays
      /\ Top(s)
  <2>1. Streams \subseteq {"query", "rows"}
    BY ScopeAssumption
  <2> QED
    BY <1>0, <2>1 DEF ServeFetch, At, Admitted, Strays
<1>2. /\ s \in DOMAIN scope /\ scope[s].pc # "opening"
  BY <1>0, <1>1, FirstInQueue DEF JobFits, Control, Of
<1>3. /\ ServerTyped' /\ HistoryTyped' /\ Cut /\ link' = link
      /\ ran' = ran /\ issuer' = issuer /\ marks' = marks
  BY <1>1, QuietServer, QuietHistory
<1>4. /\ Touched(scope', s) /\ scope'[s].undone = scope[s].undone
      /\ Strays \/ scope'[s].poison
  <2>1. TypeOK /\ ShapeInv
    BY DEF CoreInv
  <2> QED
    BY <1>1, <1>2, <2>1, TouchedNone, TouchedPoisoned
<1> QED
  BY <1>1, <1>2, <1>3, <1>4, KeptByAnswer

LEMMA CloseKeeps ==
    ASSUME CoreInv, ServeClose
    PROVE  Preserved /\ StillOpening /\ marks' = marks /\ link' = link
<1>0. PICK s : s = Of
  OBVIOUS
<1>1. /\ queue # <<>> /\ queue[1].what = "close" /\ queue' = Served
      /\ scope' = scope /\ stack' = stack /\ client' = client
      /\ Error /\ SameHistory
  BY DEF ServeClose, At
<1>2. /\ s \in DOMAIN scope /\ scope[s].pc # "opening"
  BY <1>0, <1>1, FirstInQueue DEF JobFits, Control, Of
<1>3. /\ ServerTyped' /\ HistoryTyped' /\ Cut /\ link' = link
      /\ ran' = ran /\ issuer' = issuer /\ marks' = marks
  BY <1>1, QuietServer, QuietHistory
<1>4. Touched(scope', s)
  BY <1>1, TouchedNone DEF CoreInv
<1> QED
  BY <1>1, <1>2, <1>3, <1>4, KeptByAnswer

LEMMA RawKeeps ==
    ASSUME CoreInv, ServeRaw
    PROVE  /\ Preserved /\ StillOpening /\ link' = link
           /\ Lost \/ \A x \in DOMAIN scope : OnStack(x) => scope'[x].poison
<1>0. PICK s : s = Of
  OBVIOUS
<1>1. /\ queue # <<>> /\ queue[1].what = "raw" /\ queue' = Served
      /\ scope' \in {PoisonSelf(s), PoisonStack}
      /\ Lost \/ scope' = PoisonStack
      /\ stack' = stack /\ client' = client
      /\ SameServer \/ EndTransaction
      /\ durable' \in {durable, durable \cup Committable}
      /\ excused' = excused \cup {x \in DOMAIN scope : OnStack(x)}
      /\ faults' = faults /\ issuer' = issuer /\ ran' = ran
      /\ Top(s)
  BY <1>0 DEF ServeRaw, At, Admitted
<1>2. /\ s \in DOMAIN scope /\ scope[s].pc # "opening"
  BY <1>0, <1>1, FirstInQueue DEF JobFits, Control, Of
<1>3. ServerTyped' /\ Cut /\ link' = link
  BY <1>1, QuietServer, EndedServer
<1>4. TypeOK /\ ShapeInv /\ MarkInv /\ HistoryTyped
  BY TypesOf DEF CoreInv
<1>5. HistoryTyped'
  <2>1. Committable \subseteq ran
    BY <1>4, WorksHaveRun DEF Committable
  <2>2. DOMAIN scope \subseteq Scopes
    BY <1>4, Typed
  <2> QED
    BY <1>1, <1>4, <2>1, <2>2 DEF HistoryTyped, Scopes
<1>6. Touched(scope', s) /\ scope'[s].undone = scope[s].undone
  BY <1>1, <1>2, <1>4, TouchedPoisoned
<1>7. Lost \/ \A x \in DOMAIN scope : OnStack(x) => scope'[x].poison
  BY <1>1, <1>2, <1>4, TouchedPoisoned
<1> QED
  BY <1>1, <1>2, <1>3, <1>5, <1>6, <1>7, KeptByAnswer

(* Of the transactions, and of the scopes that are opening, there is one.  *)
LEMMA OneTransaction ==
    ASSUME CoreInv, NEW s \in DOMAIN scope, NEW t \in DOMAIN scope,
           Alive(s), Alive(t), scope[s].kind = "transaction",
           scope[t].kind = "transaction"
    PROVE  s = t
<1>1. PICK i \in DOMAIN stack : stack[i] = s
  BY DEF CoreInv, ShapeInv, StackInv, OnStack
<1>2. PICK j \in DOMAIN stack : stack[j] = t
  BY DEF CoreInv, ShapeInv, StackInv, OnStack
<1>3. i \in Nat /\ j \in Nat
  BY Typed DEF CoreInv
<1>4. ~(i < j) /\ ~(j < i)
  BY <1>1, <1>2 DEF CoreInv, ShapeInv, StackInv
<1>5. i = j
  BY <1>3, <1>4
<1> QED
  BY <1>1, <1>2, <1>5

LEMMA OneOpening ==
    ASSUME CoreInv, NEW s \in DOMAIN scope, NEW t \in DOMAIN scope,
           scope[s].pc = "opening", scope[t].pc = "opening"
    PROVE  s = t
<1>1. Top(s) /\ Top(t)
  BY DEF CoreInv, ShapeInv, ScopeInv
<1> QED
  BY <1>1 DEF Top

(* The levels below those of a scope.                                      *)
Below(s) ==
    \A i \in DOMAIN marks :
        marks[i].of < s => i \in DOMAIN marks' /\ marks'[i].of = marks[i].of

LEMMA BelowStays ==
    ASSUME CoreInv, NEW s \in DOMAIN scope,
           \/ marks' = marks
           \/ (BackTo(s) \/ Merge(s)) /\ ran' = ran
           \/ Alive(s) /\ scope[s].kind = "transaction"
    PROVE  Below(s)
<1>1. TypeOK /\ MarkInv /\ ShapeInv
  BY DEF CoreInv
<1>2. /\ DOMAIN marks = 1..Len(marks) /\ Len(marks) \in Nat
      /\ s \in Nat /\ DOMAIN scope \subseteq Nat
  BY <1>1, Typed
<1>3. CASE marks' = marks
  BY <1>3 DEF Below
<1>4. CASE (BackTo(s) \/ Merge(s)) /\ ran' = ran
  <2>1. PICK i \in Level(s) : DOMAIN marks' \in {1..i, 1..(i - 1)}
    BY <1>1, <1>4, CutBack, CutMerge
  <2>2. i \in DOMAIN marks /\ marks[i].of = s /\ Cut
    BY <1>1, <1>4, CutBack, CutMerge DEF Level
  <2>3. ASSUME NEW k \in DOMAIN marks, marks[k].of < s
        PROVE  k \in 1..(i - 1)
    <3>1. ~(i < k) /\ i # k
      <4>1. marks[k].of \in Nat
        BY <1>1, <1>2 DEF MarkInv
      <4> QED
        BY <1>1, <1>2, <2>2, <2>3, <4>1 DEF MarkInv
    <3> QED
      BY <1>2, <2>2, <3>1
  <2>4. 1..(i - 1) \subseteq 1..i
    BY <1>2, <2>2
  <2> QED
    BY <2>1, <2>2, <2>3, <2>4 DEF Below, Cut
<1>5. CASE Alive(s) /\ scope[s].kind = "transaction"
  <2> SUFFICES ASSUME NEW i \in DOMAIN marks, marks[i].of < s PROVE FALSE
    BY DEF Below
  <2> DEFINE t == marks[1].of
  <2>1. 1 \in DOMAIN marks /\ marks # <<>>
    BY <1>2
  <2>2. t \in DOMAIN scope /\ OnStack(t) /\ scope[t].kind = "transaction"
    BY <1>1, <2>1 DEF MarkInv
  <2>3. t = s
    BY <1>1, <1>5, <2>2, OneTransaction DEF ShapeInv, StackInv
  <2>4. marks[i].of \in Nat /\ (i = 1 \/ 1 < i)
    BY <1>1, <1>2 DEF MarkInv
  <2> QED
    BY <1>1, <1>2, <2>1, <2>3, <2>4 DEF MarkInv
<1> QED
  BY <1>3, <1>4, <1>5

(* A pinned connection has no level of its own.                            *)
LEMMA LevelsAreTheirs ==
    ASSUME CoreInv, NEW s \in DOMAIN scope, Level(s) # {}
    PROVE  scope[s].kind # "pinned"
<1>1. TypeOK /\ MarkInv /\ ScopeInv(s)
  BY DEF CoreInv, ShapeInv
<1>2. /\ DOMAIN marks = 1..Len(marks) /\ Len(marks) \in Nat
      /\ DOMAIN scope = 1..Len(scope) /\ Len(scope) \in Nat
  BY <1>1, Typed
<1> SUFFICES ASSUME scope[s].kind = "pinned" PROVE FALSE
  OBVIOUS
<1>3. s = 1
  BY <1>1 DEF ScopeInv
<1>4. PICK i \in DOMAIN marks : marks[i].of = 1
  BY <1>3 DEF Level
<1>5. /\ 1 \in DOMAIN marks /\ marks # <<>> /\ (i = 1 \/ 1 < i)
      /\ marks[1].of \in DOMAIN scope
  BY <1>1, <1>2, <1>4 DEF MarkInv
<1>6. ~(marks[1].of < 1)
  BY <1>2, <1>5
<1>7. marks[1].of = 1
  BY <1>1, <1>4, <1>5, <1>6 DEF MarkInv
<1> QED
  BY <1>1, <1>3, <1>5, <1>7 DEF MarkInv

LEMMA RecoverKeeps ==
    ASSUME CoreInv, ServeRecover, NEW s, s = Of
    PROVE  /\ Preserved /\ StillOpening /\ link' = link
           /\ s \in DOMAIN scope /\ scope'[s].pc = scope[s].pc
           /\ \/ marks' = marks
              \/ Alive(s) /\ scope[s].kind # "pinned" /\ Below(s)
<1> DEFINE Answered(sc) ==
       /\ scope' = sc /\ stack' = stack /\ client' = client
       /\ queue' \in {Served, Append(Served, Job("close", s, 0))}
<1>1. /\ queue # <<>> /\ queue[1].what = "recover" /\ SameHistory
      /\ \/ Answered(scope) /\ (SameServer \/ Error)
         \/ /\ Answered(Undone(s)) /\ EndTransaction /\ OnStack(s)
            /\ scope[s].kind = "transaction"
         \/ /\ Answered(Undone(s)) /\ BackTo(s) /\ OnStack(s)
            /\ scope[s].kind # "transaction" /\ Level(s) # {}
  BY DEF ServeRecover, At, CloseAfter, Undone
<1>2. /\ s \in DOMAIN scope /\ scope[s].pc # "opening"
  BY <1>1, FirstInQueue DEF JobFits, Control, Of
<1>3. HistoryTyped' /\ ran' = ran /\ issuer' = issuer
  BY <1>1, QuietHistory
<1>4. TypeOK /\ Touched(scope, s) /\ Touched(Undone(s), s)
  BY <1>2, TouchedNone, TouchedUndone DEF CoreInv
<1>5. /\ Touched(scope', s) /\ stack' = stack /\ client' = client
      /\ queue' \in {Served, Append(Served, Job("close", s, 0))}
      /\ ServerTyped' /\ Cut /\ link' = link
      /\ scope[s].kind = "transaction" /\ scope'[s].undone =>
            marks' = <<>> \/ scope[s].undone
  <2>1. CASE Answered(scope) /\ (SameServer \/ Error)
    BY <1>3, <1>4, <2>1, QuietServer
  <2>2. CASE /\ Answered(Undone(s)) /\ EndTransaction
    BY <1>4, <2>2, EndedServer
  <2>3. CASE /\ Answered(Undone(s)) /\ BackTo(s)
             /\ scope[s].kind # "transaction"
    BY <1>3, <1>4, <2>3, BackServer
  <2> QED
    BY <1>1, <2>1, <2>2, <2>3
<1>6. Preserved /\ StillOpening
  BY <1>1, <1>2, <1>3, <1>5, KeptByAnswer
<1>7. scope'[s].pc = scope[s].pc
  BY <1>2, <1>5 DEF Touched
<1>8. OnStack(s) => Alive(s)
  BY <1>2 DEF CoreInv, ShapeInv, StackInv
<1>9. Level(s) # {} => scope[s].kind # "pinned"
  BY <1>2, LevelsAreTheirs
<1>10. \/ SameServer \/ Error
       \/ /\ Alive(s) /\ scope[s].kind # "pinned"
          /\ BackTo(s) \/ scope[s].kind = "transaction"
  BY <1>1, <1>8, <1>9
<1>11. \/ marks' = marks
       \/ Alive(s) /\ scope[s].kind # "pinned" /\ Below(s)
  BY <1>2, <1>3, <1>10, QuietServer, BelowStays
<1> QED
  BY <1>2, <1>5, <1>6, <1>7, <1>11

LEMMA OpensOnNothing ==
    ASSUME CoreInv, NEW s \in DOMAIN scope, scope[s].pc = "opening",
           scope[s].kind = "transaction"
    PROVE  marks = <<>>
<1> SUFFICES ASSUME marks # <<>> PROVE FALSE
  OBVIOUS
<1> DEFINE t == marks[1].of
<1>1. 1 \in DOMAIN marks /\ DOMAIN scope \subseteq Nat
  <2>1. TypeOK
    BY DEF CoreInv
  <2> HIDE DEF MarkRecord
  <2> QED
    BY <2>1, Typed
<1>2. /\ t \in DOMAIN scope /\ OnStack(t) /\ t < s
      /\ scope[t].kind = "transaction"
  BY <1>1 DEF CoreInv, MarkInv
<1>3. Alive(t) /\ Alive(s)
  BY <1>2 DEF CoreInv, ShapeInv, StackInv, Alive
<1>4. t = s
  BY <1>2, <1>3, OneTransaction
<1> QED
  BY <1>1, <1>2, <1>4

LEMMA BeginKeeps ==
    ASSUME CoreInv, ServeBegin, NEW s, s = Of
    PROVE  /\ Preserved /\ link' = link
           /\ DOMAIN scope' = DOMAIN scope
           /\ s \in DOMAIN scope /\ scope[s].pc = "opening"
           /\ \A x \in DOMAIN scope : x # s => scope'[x] = scope[x]
           /\ ~scope'[s].undone
           /\ \/ marks' = marks /\ scope'[s].closing
              \/ marks' = <<[of |-> s, works |-> {}]>>
           /\ marks = <<>> /\ queue' = Served
<1>1. /\ queue # <<>> /\ queue[1].what = "begin" /\ SameHistory
      /\ \/ /\ Wait(s, Closed(scope, s), Served)
            /\ SameServer
         \/ /\ scope' = [scope EXCEPT ![s].pc = "body"]
            /\ queue' = Served /\ stack' = stack /\ client' = client
            /\ marks' = IF marks = <<>> THEN <<[of |-> s, works |-> {}]>>
                        ELSE marks
            /\ aborted' = aborted /\ link' = link /\ ~Lost
      /\ "begin" \in Control
  BY DEF ServeBegin, At, Closed, Control
<1>2. /\ s \in DOMAIN scope /\ Rest(Served) /\ Alive(s) /\ Free(s, Served)
      /\ scope[s].pc = "opening" /\ scope[s].kind = "transaction"
  BY <1>1, FirstInQueue DEF Stage, JobFits, Of
<1>3. HistoryTyped' /\ ran' = ran /\ issuer' = issuer
  BY <1>1, QuietHistory
<1>4. TypeOK /\ ScopeInv(s) /\ Touched(scope, s) /\ ShapeInv /\ JobInv
  BY <1>2, TouchedNone DEF CoreInv, ShapeInv
<1>5. marks = <<>>
  BY <1>2, OpensOnNothing
<1>6. CASE Wait(s, Closed(scope, s), Served) /\ SameServer
  <2>1. ServerTyped' /\ Cut /\ link' = link /\ marks' = marks
    BY <1>3, <1>6, QuietServer
  <2>2. Touched(Closed(scope, s), s) /\ Closed(scope, s)[s].closing
    BY <1>2, <1>4, TouchedClosed
  <2>3. Preserved
    BY <1>2, <1>3, <1>5, <1>6, <2>1, <2>2, KeptByWait
  <2>4. Moved(Closed(scope, s), s, "waiting") /\ DOMAIN scope' = DOMAIN scope
    BY <1>2, <1>3, <1>4, <1>6, <2>2, WaitStep
  <2>5. \A x \in DOMAIN scope : x # s => scope'[x] = scope[x]
    BY <1>2, <1>4, <2>2, <2>4, TouchedClosed DEF Moved
  <2>6. scope'[s].closing /\ ~scope'[s].undone
    <3>1. Closed(scope, s)[s].undone = scope[s].undone
      BY <1>2, <1>4, TouchedClosed
    <3>2. Closed(scope, s)[s] \in ScopeRecord
      BY <1>2, <2>2 DEF Touched
    <3>3. /\ scope'[s].closing = Closed(scope, s)[s].closing
          /\ scope'[s].undone = Closed(scope, s)[s].undone
      BY <2>4, <3>2 DEF Moved, ScopeRecord
    <3> QED
      BY <1>2, <1>4, <2>2, <3>1, <3>3 DEF ScopeInv
  <2> QED
    BY <1>2, <1>5, <1>6, <2>1, <2>3, <2>4, <2>5, <2>6 DEF Wait
<1>7. CASE /\ scope' = [scope EXCEPT ![s].pc = "body"]
           /\ queue' = Served /\ stack' = stack /\ client' = client
           /\ marks' = IF marks = <<>> THEN <<[of |-> s, works |-> {}]>>
                       ELSE marks
           /\ aborted' = aborted /\ link' = link /\ ~Lost
  <2>1. Moved(scope, s, "body")
    <3>1. scope \in [DOMAIN scope -> ScopeRecord]
      BY <1>4, Typed
    <3> QED
      BY <1>2, <1>7, <3>1, MovedBy DEF Progress
  <2>2. "body" \in Progress /\ Arrives(s, "body")
    BY <1>2 DEF Progress, Arrives, Ending
  <2>3. queue' \in Seq(JobRecord)
    BY <1>2, <1>4, <1>7, RestOfQueue
  <2>4. /\ ScopesTyped' /\ ShapeInv'
        /\ DOMAIN scope' = DOMAIN scope
        /\ \A x \in DOMAIN scope : scope'[x].kind = scope[x].kind
        /\ scope'[s].pc = "body"
        /\ \A x \in DOMAIN scope : x # s => scope'[x].pc = scope[x].pc
        /\ \A x \in DOMAIN scope : x # s => scope'[x] = scope[x]
        /\ Fates
    <3>1. stack' = stack /\ client' = client
      BY <1>7
    <3> HIDE DEF Progress
    <3> QED
      BY <1>2, <1>4, <2>1, <2>2, <2>3, <3>1, MovedScopes DEF Moved
  <2>5. Further(Served) /\ IssuerGrows
    BY <1>2, <1>3, <2>4 DEF Further, Alive, IssuerGrows
  <2>6. JobInv' /\ AskedKept
    BY <1>2, <1>4, <1>7, <2>5, JobsServed, AskedServed
  <2>7. marks' = <<[of |-> s, works |-> {}]>>
    BY <1>5, <1>7
  <2>8. ServerTyped'
    <3>1. aborted \in BOOLEAN /\ link \in {"up", "down"} /\ s \in Scopes
      BY <1>2, <1>4, Typed DEF TypeOK
    <3>2. marks' \in Seq(MarkRecord)
      <4>1. [of |-> s, works |-> {}] \in MarkRecord
        BY <3>1 DEF MarkRecord, Scopes
      <4> HIDE DEF MarkRecord
      <4> QED
        BY <2>7, <4>1
    <3> QED
      BY <1>7, <3>1, <3>2 DEF ServerTyped
  <2>9. ~scope'[s].undone
    <3>1. scope'[s].undone = scope[s].undone
      BY <1>2, <1>4, <2>1 DEF Moved, Touched, ScopeRecord
    <3> QED
      BY <1>2, <1>4, <3>1 DEF ScopeInv
  <2>10. MarkInv'
    <3>1. DOMAIN marks' = {1} /\ marks'[1].of = s /\ marks'[1].works = {}
      BY <2>7
    <3>2. scope'[s].kind = "transaction" /\ OnStack(s)'
      <4>1. OnStack(s)
        BY <1>2, <1>4 DEF ShapeInv, StackInv
      <4> QED
        BY <1>2, <1>7, <2>4, <4>1 DEF OnStack
    <3>3. \A x \in DOMAIN scope' : scope'[x].pc # "opening"
      BY <1>2, <2>4, OneOpening
    <3>4. ASSUME NEW x \in DOMAIN scope', Alive(x)',
                 scope'[x].kind = "transaction",
                 scope'[x].pc = "waiting" \/ scope'[x].undone
          PROVE  FALSE
      <4>1. x = s
        <5>1. Alive(x)
          BY <1>2, <2>4, <3>4 DEF Alive
        <5> QED
          BY <1>2, <2>4, <3>4, <5>1, OneTransaction
      <4> QED
        BY <2>9, <2>4, <3>4, <4>1
    <3>5. ~Lost'
      BY <1>7 DEF Lost
    <3>6. \A i \in DOMAIN marks' : i = 1
      BY <3>1
    <3>7. OnStack(marks[1].of)'
      BY <3>1, <3>2 DEF OnStack
    <3> QED
      BY <1>2, <2>4, <3>1, <3>2, <3>3, <3>4, <3>5, <3>6, <3>7 DEF MarkInv
  <2> QED
    BY <1>2, <1>3, <1>5, <1>7, <2>4, <2>6, <2>7, <2>8, <2>9, <2>10
    DEF Preserved
<1> QED
  BY <1>1, <1>6, <1>7

LEMMA SavepointKeeps ==
    ASSUME CoreInv, ServeSavepoint, NEW s, s = Of
    PROVE  /\ Preserved /\ link' = link
           /\ DOMAIN scope' = DOMAIN scope
           /\ s \in DOMAIN scope /\ scope[s].pc = "opening"
           /\ \A x \in DOMAIN scope : x # s => scope'[x] = scope[x]
           /\ Alive(s)' => /\ ~scope'[s].undone
                           /\ scope'[s].pc \in {"opening", "body"}
           /\ \/ marks' = marks /\ ~Alive(s)'
              \/ marks' = marks /\ scope'[s].pc = "opening"
              \/ marks' = Append(marks, [of |-> s, works |-> {}])
<1>1. /\ queue # <<>> /\ queue[1].what = "savepoint" /\ SameHistory
      /\ \/ Leave(s, "rejected", scope, Served) /\ SameServer
         \/ BeginInstead(s) /\ SameServer /\ marks = <<>>
         \/ /\ scope' = [scope EXCEPT ![s].pc = "body"]
            /\ queue' = Served /\ stack' = stack /\ client' = client
            /\ marks' = Append(marks, [of |-> s, works |-> {}])
            /\ marks # <<>>
            /\ aborted' = aborted /\ link' = link /\ ~Lost
      /\ "savepoint" \in Control
  BY DEF ServeSavepoint, At, Control
<1>2. /\ s \in DOMAIN scope /\ Rest(Served) /\ Alive(s) /\ Free(s, Served)
      /\ scope[s].pc = "opening" /\ scope[s].kind = "savepoint"
  BY <1>1, FirstInQueue DEF Stage, JobFits, Of
<1>3. HistoryTyped' /\ ran' = ran /\ issuer' = issuer
  BY <1>1, QuietHistory
<1>4. /\ TypeOK /\ ScopeInv(s) /\ Touched(scope, s) /\ ShapeInv /\ JobInv
      /\ MarkInv
  BY <1>2, TouchedNone DEF CoreInv, ShapeInv
<1>5. Top(s)
  BY <1>2, <1>4 DEF ScopeInv
<1>6. ASSUME NEW sd \in Settling(scope, s),
             Leave(s, "rejected", sd, Served), SameServer
      PROVE  /\ Preserved /\ link' = link /\ marks' = marks /\ ~Alive(s)'
             /\ DOMAIN scope' = DOMAIN scope
             /\ \A x \in DOMAIN scope : x # s => scope'[x] = scope[x]
  <2>1. ServerTyped' /\ Cut /\ link' = link /\ marks' = marks
    BY <1>3, <1>6, QuietServer
  <2>2. Preserved
    BY <1>2, <1>3, <1>4, <1>5, <1>6, <2>1, KeptByLeave
  <2>3. /\ \A x \in DOMAIN scope : x # s => scope'[x] = scope[x]
        /\ scope'[s].pc = "done" /\ DOMAIN scope' = DOMAIN scope
    BY <1>2, <1>3, <1>4, <1>5, <1>6, LeaveStep
  <2> QED
    BY <2>1, <2>2, <2>3 DEF Alive
<1>7. ASSUME BeginInstead(s), SameServer, marks = <<>>,
             ~Leave(s, "rejected",
                    [scope EXCEPT ![s].settled = "resolved"], Served)
      PROVE  /\ Preserved /\ link' = link /\ marks' = marks
             /\ scope'[s].pc = "opening" /\ ~scope'[s].undone
             /\ DOMAIN scope' = DOMAIN scope
             /\ \A x \in DOMAIN scope : x # s => scope'[x] = scope[x]
  <2> DEFINE r == [scope[s] EXCEPT !.settled = "resolved",
                                   !.kind = "transaction"]
             j == Job("begin", s, 0)
  <2>1. /\ Len(stack) > 1 /\ stack[Len(stack) - 1] = scope[s].up
        /\ scope[scope[s].up].kind = "pinned"
        /\ scope' = [[scope EXCEPT ![s].settled = "resolved"]
                        EXCEPT ![s].kind = "transaction"]
        /\ queue' = Append(Served, j)
        /\ stack' = stack /\ client' = client
    BY <1>7 DEF BeginInstead
  <2>2. scope \in [DOMAIN scope -> ScopeRecord] /\ scope[s] \in ScopeRecord
    BY <1>2, <1>4, Typed
  <2>3. /\ r \in ScopeRecord /\ r.pc = "opening" /\ r.kind = "transaction"
        /\ r.closing = scope[s].closing /\ r.poison = scope[s].poison
        /\ r.undone = scope[s].undone /\ r.up = scope[s].up
        /\ r.undo = scope[s].undo
    BY <1>2, <2>2 DEF ScopeRecord, Kinds
  <2>4. /\ scope' \in [DOMAIN scope -> ScopeRecord] /\ scope'[s] = r
        /\ \A x \in DOMAIN scope : x # s => scope'[x] = scope[x]
        /\ DOMAIN scope' = DOMAIN scope
    <3>1. scope' = [scope EXCEPT ![s] = r]
      BY <1>2, <2>1, <2>2
    <3> HIDE DEF r, ScopeRecord
    <3> QED
      BY <1>2, <2>2, <2>3, <3>1
  <2>5. PinnedUp(s)
    <3>1. s > 1
      BY <1>2, <1>4 DEF ScopeInv
    <3> QED
      BY <1>4, <2>1, <3>1 DEF ScopeInv, PinnedUp
  <2>6. ShapeInv'
    <3>1. /\ scope'[s] = Begun(s)
          /\ \A x \in DOMAIN scope : x # s => scope'[x] = scope[x]
          /\ DOMAIN scope' = DOMAIN scope /\ stack' = stack
      BY <2>1, <2>4 DEF Begun
    <3> QED
      BY <1>2, <1>4, <2>5, <3>1, ShapeBegins
  <2>7. j \in JobRecord /\ j.of = s /\ j.what = "begin"
    <3>1. s \in Scopes /\ 0 \in 0..MaxWork
      BY <1>2, <1>4, Typed, ScopeAssumption
    <3> QED
      BY <3>1 DEF Job, JobRecord, What
  <2> HIDE DEF j, r
  <2>8. Further(Served) /\ IssuerGrows
    BY <1>2, <1>3, <2>3, <2>4 DEF Further, IssuerGrows
  <2>9. JobFits(j)'
    BY <1>2, <2>3, <2>4, <2>7 DEF JobFits, Stage, Control
  <2>10. JobInv' /\ AskedKept
    <3>1. j.what \notin Asked /\ MayJoin(j)
      BY <2>7 DEF Asked, MayJoin
    <3> QED
      BY <1>2, <1>4, <2>1, <2>7, <2>8, <2>9, <3>1, JobsJoined, AskedJoined
  <2>11. ServerTyped' /\ Cut /\ link' = link /\ marks' = marks
    BY <1>3, <1>7, QuietServer
  <2>12. MarkInv'
    BY <1>7, <2>11 DEF MarkInv
  <2>13. ScopesTyped'
    <3>1. scope' \in Seq(ScopeRecord) /\ Len(scope') = Len(scope)
      <4>1. DOMAIN scope = 1..Len(scope) /\ Len(scope) \in Nat
        BY <1>4, Typed
      <4>2. scope' \in [1..Len(scope) -> ScopeRecord]
        BY <2>4, <4>1
      <4> HIDE DEF ScopeRecord
      <4> QED
        BY <4>1, <4>2, FunctionIsSequence
    <3>2. queue' \in Seq(JobRecord)
      <4>1. Served \in Seq(JobRecord)
        BY <1>2, <1>4, RestOfQueue
      <4> HIDE DEF JobRecord
      <4> QED
        BY <2>1, <2>7, <4>1, Appended
    <3>3. /\ Len(scope) \in Scopes /\ stack \in Seq(Scopes)
          /\ client \in {"held", "returned", "destroyed"}
      BY <1>4 DEF TypeOK
    <3> QED
      BY <2>1, <3>1, <3>2, <3>3 DEF ScopesTyped, Scopes
  <2>14. Fates
    BY <1>2, <2>3, <2>4 DEF Fates, Alive
  <2> QED
    BY <1>2, <1>3, <1>4, <2>3, <2>4, <2>6, <2>10, <2>11, <2>12, <2>13, <2>14
    DEF Preserved, ScopeInv
<1>8. CASE /\ scope' = [scope EXCEPT ![s].pc = "body"]
           /\ queue' = Served /\ stack' = stack /\ client' = client
           /\ marks' = Append(marks, [of |-> s, works |-> {}])
           /\ marks # <<>>
           /\ aborted' = aborted /\ link' = link /\ ~Lost
  <2>1. Moved(scope, s, "body")
    <3>1. scope \in [DOMAIN scope -> ScopeRecord]
      BY <1>4, Typed
    <3>2. scope' = [scope EXCEPT ![s].pc = "body"]
      BY <1>8
    <3> QED
      BY <1>2, <3>1, <3>2, MovedBy DEF Progress
  <2>2. "body" \in Progress /\ Arrives(s, "body")
    BY <1>2 DEF Progress, Arrives, Ending
  <2>3. queue' \in Seq(JobRecord)
    BY <1>2, <1>4, <1>8, RestOfQueue
  <2>4. /\ ScopesTyped' /\ ShapeInv'
        /\ DOMAIN scope' = DOMAIN scope
        /\ \A x \in DOMAIN scope : scope'[x].kind = scope[x].kind
        /\ scope'[s].pc = "body"
        /\ \A x \in DOMAIN scope : x # s => scope'[x].pc = scope[x].pc
        /\ \A x \in DOMAIN scope : x # s => scope'[x] = scope[x]
        /\ Fates
    <3>1. stack' = stack /\ client' = client
      BY <1>8
    <3> HIDE DEF Progress
    <3> QED
      BY <1>2, <1>4, <2>1, <2>2, <2>3, <3>1, MovedScopes DEF Moved
  <2>5. Further(Served) /\ IssuerGrows
    BY <1>2, <1>3, <2>4 DEF Further, Alive, IssuerGrows
  <2>6. JobInv' /\ AskedKept
    BY <1>2, <1>4, <1>8, <2>5, JobsServed, AskedServed
  <2> DEFINE m == [of |-> s, works |-> {}]
             n == Len(marks)
  <2>7. /\ marks' \in Seq(MarkRecord) /\ marks \in Seq(MarkRecord)
        /\ DOMAIN marks' = 1..(n + 1) /\ n \in Nat /\ DOMAIN marks = 1..n
        /\ \A i \in 1..n : marks'[i] = marks[i]
        /\ marks'[n + 1] = m /\ m.of = s /\ m.works = {} /\ n > 0
    <3>1. m \in MarkRecord /\ m.of = s /\ m.works = {}
      BY <1>2, <1>4, Typed DEF MarkRecord, Scopes
    <3>2. /\ marks \in Seq(MarkRecord) /\ Len(marks) \in Nat
          /\ DOMAIN marks = 1..Len(marks)
      BY <1>4, Typed
    <3> HIDE DEF MarkRecord, m
    <3>3. marks' = Append(marks, m)
      BY <1>8 DEF m
    <3> QED
      BY <1>8, <3>1, <3>2, <3>3, Appended
  <2> HIDE DEF m, n, MarkRecord
  <2>8. ServerTyped'
    BY <1>4, <1>8, <2>7 DEF ServerTyped, TypeOK
  <2>9. MarkInv'
    <3>1. \A i \in DOMAIN marks' :
             (i \in DOMAIN marks /\ i < n + 1) \/ i = n + 1
      BY <2>7
    <3>2. ASSUME NEW i \in DOMAIN marks'
          PROVE  /\ marks'[i].of \in DOMAIN scope'
                 /\ marks'[i].works \subseteq ran'
      BY <1>2, <1>3, <1>4, <2>4, <2>7, <3>1 DEF MarkInv
    <3>3. ASSUME NEW i \in DOMAIN marks', NEW k \in DOMAIN marks', i < k
          PROVE  marks'[i].of < marks'[k].of
      <4>1. i \in DOMAIN marks
        BY <2>7, <3>3
      <4>2. marks[i].of < s
        BY <1>2, <1>4, <4>1 DEF MarkInv
      <4> QED
        BY <1>4, <2>7, <3>1, <3>3, <4>1, <4>2 DEF MarkInv
    <3>4. OnStack(marks[1].of)' /\ scope'[marks'[1].of].kind = "transaction"
      <4>1. marks'[1] = marks[1] /\ 1 \in DOMAIN marks
        BY <2>7
      <4>2. /\ OnStack(marks[1].of) /\ marks[1].of \in DOMAIN scope
            /\ scope[marks[1].of].kind = "transaction"
        BY <1>4, <1>8, <4>1 DEF MarkInv
      <4> QED
        BY <1>8, <2>4, <4>1, <4>2 DEF OnStack
    <3>5. \A x \in DOMAIN scope' : scope'[x].pc # "opening"
      BY <1>2, <2>4, OneOpening
    <3>6. ASSUME NEW x \in DOMAIN scope', Alive(x)',
                 scope'[x].kind = "transaction",
                 scope'[x].pc = "waiting" \/ scope'[x].undone
          PROVE  FALSE
      <4>1. x # s /\ scope'[x] = scope[x]
        BY <1>2, <2>1, <2>4, <3>6 DEF Moved
      <4> QED
        BY <1>4, <1>8, <2>4, <3>6, <4>1 DEF MarkInv, Alive
    <3>7. ~Lost'
      BY <1>8 DEF Lost
    <3> QED
      BY <3>2, <3>3, <3>4, <3>5, <3>6, <3>7 DEF MarkInv
  <2>10. ~scope'[s].undone
    <3>1. scope'[s].undone = scope[s].undone
      BY <1>2, <1>4, <2>1 DEF Moved, Touched, ScopeRecord
    <3> QED
      BY <1>2, <1>4, <3>1 DEF ScopeInv
  <2> QED
    BY <1>2, <1>3, <1>8, <2>4, <2>6, <2>8, <2>9, <2>10 DEF Preserved
<1>9. BeginInstead(s) => \/ Leave(s, "rejected",
                                  [scope EXCEPT ![s].settled = "resolved"],
                                  Served)
                         \/ ~Leave(s, "rejected",
                                   [scope EXCEPT ![s].settled = "resolved"],
                                   Served)
  OBVIOUS
<1>10. /\ scope \in Settling(scope, s)
       /\ [scope EXCEPT ![s].settled = "resolved"] \in Settling(scope, s)
  BY DEF Settling
<1> QED
  BY <1>1, <1>2, <1>6, <1>7, <1>8, <1>9, <1>10

LEMMA CommitKeeps ==
    ASSUME CoreInv, ServeCommit, NEW s, s = Of
    PROVE  /\ Preserved /\ StillOpening /\ link' = link
           /\ s \in DOMAIN scope /\ Alive(s)
           /\ scope[s].closing /\ scope[s].kind = "transaction"
           /\ marks' \in {marks, <<>>}
<1>1. /\ queue # <<>> /\ queue[1].what = "commit"
      /\ \/ Fail(s, scope, Served) /\ SameServer /\ SameHistory
         \/ /\ EndTransaction
            /\ issuer' = issuer /\ ran' = ran /\ excused' = excused
            /\ \/ /\ Leave(s, "resolved", scope, Served)
                  /\ durable' = durable \cup Committable
                  /\ faults' = faults
               \/ /\ Wait(s, scope, Served)
                  /\ durable' = durable /\ faults' = faults
               \/ /\ Fault /\ Fail(s, scope, Served) /\ durable' = durable
      /\ "commit" \in Control
  BY DEF ServeCommit, At, Control
<1>2. /\ s \in DOMAIN scope /\ Rest(Served) /\ Alive(s) /\ Free(s, Served)
      /\ scope[s].pc = "committing"
  BY <1>1, FirstInQueue DEF Stage, Of
<1>3. TypeOK /\ ScopeInv(s) /\ Touched(scope, s) /\ ShapeInv /\ MarkInv
      /\ HistoryTyped
  BY <1>2, TouchedNone, TypesOf DEF CoreInv, ShapeInv
<1>4. /\ scope[s].closing /\ scope[s].kind = "transaction"
      /\ \A c \in Children(s) : scope[c].settled # "open"
  BY <1>2, <1>3 DEF ScopeInv, Ending
<1>5. Top(s)
  BY <1>2, <1>3, <1>4, EndsOnTop
<1>6. CASE Fail(s, scope, Served) /\ SameServer /\ SameHistory
  <2>1. /\ ServerTyped' /\ HistoryTyped' /\ Cut /\ link' = link
        /\ ran' = ran /\ issuer' = issuer /\ marks' = marks
    BY <1>6, QuietServer, QuietHistory
  <2> QED
    BY <1>2, <1>3, <1>4, <1>6, <2>1, KeptByFail
<1>7. CASE /\ EndTransaction
           /\ issuer' = issuer /\ ran' = ran /\ excused' = excused
           /\ \/ /\ Leave(s, "resolved", scope, Served)
                 /\ durable' = durable \cup Committable
                 /\ faults' = faults
              \/ /\ Wait(s, scope, Served)
                 /\ durable' = durable /\ faults' = faults
              \/ /\ Fault /\ Fail(s, scope, Served) /\ durable' = durable
  <2>1. ServerTyped' /\ Cut /\ link' = link /\ marks' = <<>>
    BY <1>7, EndedServer
  <2>2. HistoryTyped'
    <3>1. Committable \subseteq ran
      BY <1>3, WorksHaveRun DEF Committable
    <3>2. faults' \in 0..MaxFault
      BY <1>3, <1>7, ScopeAssumption DEF HistoryTyped, Fault
    <3> QED
      BY <1>3, <1>7, <3>1, <3>2 DEF HistoryTyped
  <2>3. CASE Leave(s, "resolved", scope, Served)
    <3>1. scope \in Settling(scope, s)
      BY DEF Settling
    <3> QED
      BY <1>2, <1>3, <1>4, <1>5, <1>7, <2>1, <2>2, <2>3, <3>1, KeptByLeave
  <2>4. CASE Wait(s, scope, Served)
    BY <1>2, <1>3, <1>4, <1>7, <2>1, <2>2, <2>4, KeptByWait
  <2>5. CASE Fail(s, scope, Served)
    BY <1>2, <1>3, <1>4, <1>7, <2>1, <2>2, <2>5, KeptByFail
  <2> QED
    BY <1>2, <1>4, <1>7, <2>1, <2>3, <2>4, <2>5
<1> QED
  BY <1>1, <1>6, <1>7

LEMMA UndoKeeps ==
    ASSUME CoreInv, ServeUndo, NEW s, s = Of
    PROVE  /\ Preserved /\ StillOpening /\ link' = link
           /\ s \in DOMAIN scope /\ Alive(s)
           /\ scope[s].closing /\ scope[s].kind # "pinned" /\ Below(s)
<1> DEFINE ends == scope[s].kind = "transaction"
           failed == scope[s].pc = "undoing"
<1>1. /\ queue # <<>> /\ queue[1].what = "undo" /\ SameHistory
      /\ "undo" \in Control
  BY DEF ServeUndo, At, Control
<1>2. /\ s \in DOMAIN scope /\ Rest(Served) /\ Alive(s) /\ Free(s, Served)
      /\ scope[s].pc \in {"undoing", "cleaning"}
  BY <1>1, FirstInQueue DEF Stage, Of
<1>3. HistoryTyped' /\ ran' = ran /\ issuer' = issuer
  BY <1>1, QuietHistory
<1>4. /\ TypeOK /\ ScopeInv(s) /\ Touched(scope, s) /\ ShapeInv /\ MarkInv
      /\ Touched(Undone(s), s) /\ Undone(s)[s].closing = scope[s].closing
      /\ scope \in Settling(scope, s)
      /\ Undone(s) \in Settling(Undone(s), s)
  BY <1>2, TouchedNone, TouchedUndone DEF CoreInv, ShapeInv, Settling
<1>5. /\ scope[s].closing /\ scope[s].kind # "pinned"
      /\ ~failed => \A c \in Children(s) : scope[c].settled # "open"
      /\ scope[s].kind \in {"pinned", "transaction", "savepoint"}
  <2>1. scope[s].kind \in Kinds
    BY <1>2, <1>4, Typed DEF ScopeRecord
  <2> QED
    BY <1>2, <1>4, <2>1 DEF ScopeInv, Ending, Kinds
<1>6. ~failed => Top(s)
  BY <1>2, <1>4, <1>5, EndsOnTop
<1> HIDE DEF ends, failed
<1>7. \/ /\ ends /\ EndTransaction
         /\ \/ failed /\ Wait(s, Undone(s), Served)
            \/ ~failed /\ Leave(s, "resolved", Undone(s), Served)
      \/ /\ ~ends /\ BackTo(s)
         /\ \/ failed /\ Wait(s, Undone(s), Served)
            \/ ~failed /\ Leave(s, "resolved", Undone(s), Served)
      \/ /\ ~OnStack(s) \/ Lost \/ ~ends
         /\ failed \/ ends
         /\ Wait(s, scope, Served) /\ (SameServer \/ Error)
      \/ /\ ~failed /\ ~ends
         /\ Proceed(s, "reverting", "revert", scope, Served)
         /\ SameServer \/ Error
  BY DEF ServeUndo, ends, failed, Undone
<1>8. CASE /\ ends /\ EndTransaction
           /\ \/ failed /\ Wait(s, Undone(s), Served)
              \/ ~failed /\ Leave(s, "resolved", Undone(s), Served)
  <2>1. ServerTyped' /\ Cut /\ link' = link /\ marks' = <<>>
    BY <1>8, EndedServer
  <2>2. Below(s)
    BY <1>2, <1>8, BelowStays DEF ends
  <2>3. CASE failed /\ Wait(s, Undone(s), Served)
    BY <1>2, <1>3, <1>4, <1>5, <2>1, <2>2, <2>3, KeptByWait
  <2>4. CASE ~failed /\ Leave(s, "resolved", Undone(s), Served)
    BY <1>2, <1>3, <1>4, <1>5, <1>6, <2>1, <2>2, <2>4, KeptByLeave
  <2> QED
    BY <1>2, <1>5, <1>8, <2>1, <2>2, <2>3, <2>4
<1>9. CASE /\ ~ends /\ BackTo(s)
           /\ \/ failed /\ Wait(s, Undone(s), Served)
              \/ ~failed /\ Leave(s, "resolved", Undone(s), Served)
  <2>1. ServerTyped' /\ Cut /\ link' = link
    BY <1>3, <1>9, BackServer
  <2>2. Below(s) /\ scope[s].kind # "transaction"
    BY <1>2, <1>3, <1>9, BelowStays DEF ends
  <2>3. CASE failed /\ Wait(s, Undone(s), Served)
    BY <1>2, <1>3, <1>4, <1>5, <2>1, <2>2, <2>3, KeptByWait
  <2>4. CASE ~failed /\ Leave(s, "resolved", Undone(s), Served)
    BY <1>2, <1>3, <1>4, <1>5, <1>6, <2>1, <2>2, <2>4, KeptByLeave
  <2> QED
    BY <1>2, <1>5, <1>9, <2>1, <2>2, <2>3, <2>4
<1>10. CASE /\ ~OnStack(s) \/ Lost \/ ~ends
            /\ Wait(s, scope, Served) /\ (SameServer \/ Error)
  <2>1. ServerTyped' /\ Cut /\ link' = link /\ marks' = marks
    BY <1>3, <1>10, QuietServer
  <2>2. Below(s)
    BY <1>2, <2>1, BelowStays
  <2>3. scope[s].kind = "transaction" => marks' = <<>>
    BY <1>2, <1>4, <1>10, <2>1 DEF MarkInv, ShapeInv, StackInv, ends
  <2> QED
    BY <1>2, <1>3, <1>4, <1>5, <1>10, <2>1, <2>2, <2>3, KeptByWait
<1>11. CASE /\ ~failed /\ ~ends
            /\ Proceed(s, "reverting", "revert", scope, Served)
            /\ SameServer \/ Error
  <2>1. ServerTyped' /\ Cut /\ link' = link /\ marks' = marks
    BY <1>3, <1>11, QuietServer
  <2>2. Below(s)
    BY <1>2, <2>1, BelowStays
  <2>3. /\ "reverting" \in Progress /\ "reverting" \in Stage("revert")
        /\ "revert" \in Control \ {"savepoint", "begin"}
        /\ scope[s].kind = "savepoint"
    BY <1>5, <1>11 DEF Progress, Control, Stage, ends
  <2> QED
    BY <1>2, <1>3, <1>4, <1>5, <1>11, <2>1, <2>2, <2>3, KeptByProceed
<1> QED
  BY <1>7, <1>8, <1>9, <1>10, <1>11

LEMMA ReleaseKeeps ==
    ASSUME CoreInv, ServeRelease, NEW s, s = Of
    PROVE  /\ Preserved /\ StillOpening /\ link' = link
           /\ s \in DOMAIN scope /\ Alive(s)
           /\ scope[s].closing /\ scope[s].kind # "pinned" /\ Below(s)
<1>1. /\ queue # <<>> /\ queue[1].what = "release" /\ SameHistory
      /\ \/ Merge(s) /\ Leave(s, "resolved", scope, Served)
         \/ /\ SameServer \/ Error
            /\ Proceed(s, "reverting", "revert", scope, Served)
      /\ "release" \in Control
  BY DEF ServeRelease, At, Control
<1>2. /\ s \in DOMAIN scope /\ Rest(Served) /\ Alive(s) /\ Free(s, Served)
      /\ scope[s].pc = "releasing"
  BY <1>1, FirstInQueue DEF Stage, Of
<1>3. HistoryTyped' /\ ran' = ran /\ issuer' = issuer
  BY <1>1, QuietHistory
<1>4. /\ TypeOK /\ ScopeInv(s) /\ Touched(scope, s) /\ ShapeInv
      /\ scope \in Settling(scope, s)
  BY <1>2, TouchedNone DEF CoreInv, ShapeInv, Settling
<1>5. /\ scope[s].closing /\ scope[s].kind = "savepoint"
      /\ \A c \in Children(s) : scope[c].settled # "open"
  BY <1>2, <1>4 DEF ScopeInv, Ending
<1>6. Top(s)
  BY <1>2, <1>4, <1>5, EndsOnTop
<1>7. CASE Merge(s) /\ Leave(s, "resolved", scope, Served)
  <2>1. ServerTyped' /\ Cut /\ link' = link
    BY <1>3, <1>7, BackServer
  <2>2. Below(s)
    BY <1>2, <1>3, <1>7, BelowStays
  <2> QED
    BY <1>2, <1>3, <1>4, <1>5, <1>6, <1>7, <2>1, <2>2, KeptByLeave
<1>8. CASE /\ SameServer \/ Error
           /\ Proceed(s, "reverting", "revert", scope, Served)
  <2>1. ServerTyped' /\ Cut /\ link' = link /\ marks' = marks
    BY <1>3, <1>8, QuietServer
  <2>2. Below(s)
    BY <1>2, <2>1, BelowStays
  <2>3. /\ "reverting" \in Progress /\ "reverting" \in Stage("revert")
        /\ "revert" \in Control \ {"savepoint", "begin"}
    BY DEF Progress, Control, Stage
  <2> QED
    BY <1>2, <1>3, <1>4, <1>5, <1>8, <2>1, <2>2, <2>3, KeptByProceed
<1> QED
  BY <1>1, <1>7, <1>8

LEMMA RevertKeeps ==
    ASSUME CoreInv, ServeRevert, NEW s, s = Of
    PROVE  /\ Preserved /\ StillOpening /\ link' = link
           /\ s \in DOMAIN scope /\ Alive(s)
           /\ scope[s].closing /\ scope[s].kind # "pinned" /\ Below(s)
<1>1. /\ queue # <<>> /\ queue[1].what = "revert" /\ SameHistory
      /\ \/ /\ BackTo(s)
            /\ Proceed(s, "forgetting", "forget", scope, Served)
         \/ /\ Error
            /\ \E sc \in {scope, PoisonStack} :
                  Leave(s, "rejected", sc, Served)
      /\ "revert" \in Control
  BY DEF ServeRevert, At, Control
<1>2. /\ s \in DOMAIN scope /\ Rest(Served) /\ Alive(s) /\ Free(s, Served)
      /\ scope[s].pc = "reverting"
  BY <1>1, FirstInQueue DEF Stage, Of
<1>3. HistoryTyped' /\ ran' = ran /\ issuer' = issuer
  BY <1>1, QuietHistory
<1>4. /\ TypeOK /\ ScopeInv(s) /\ ShapeInv
      /\ \A sc \in {scope, PoisonStack} :
            Touched(sc, s) /\ sc \in Settling(sc, s)
  BY <1>2, TouchedNone, TouchedPoisoned DEF CoreInv, ShapeInv, Settling
<1>5. /\ scope[s].closing /\ scope[s].kind = "savepoint"
      /\ \A c \in Children(s) : scope[c].settled # "open"
  BY <1>2, <1>4 DEF ScopeInv, Ending
<1>6. Top(s)
  BY <1>2, <1>4, <1>5, EndsOnTop
<1>7. CASE /\ BackTo(s)
           /\ Proceed(s, "forgetting", "forget", scope, Served)
  <2>1. ServerTyped' /\ Cut /\ link' = link
    BY <1>3, <1>7, BackServer
  <2>2. Below(s)
    BY <1>2, <1>3, <1>7, BelowStays
  <2>3. /\ "forgetting" \in Progress /\ "forgetting" \in Stage("forget")
        /\ "forget" \in Control \ {"savepoint", "begin"}
    BY DEF Progress, Control, Stage
  <2> QED
    BY <1>2, <1>3, <1>4, <1>5, <1>7, <2>1, <2>2, <2>3, KeptByProceed
<1>8. ASSUME Error, NEW sc \in {scope, PoisonStack},
             Leave(s, "rejected", sc, Served)
      PROVE  Preserved /\ StillOpening /\ link' = link /\ Below(s)
  <2>1. ServerTyped' /\ Cut /\ link' = link /\ marks' = marks
    BY <1>3, <1>8, QuietServer
  <2>2. Below(s)
    BY <1>2, <2>1, BelowStays
  <2> QED
    BY <1>2, <1>3, <1>4, <1>5, <1>6, <1>8, <2>1, <2>2, KeptByLeave
<1> QED
  BY <1>1, <1>2, <1>5, <1>7, <1>8

LEMMA ForgetKeeps ==
    ASSUME CoreInv, ServeForget, NEW s, s = Of
    PROVE  /\ Preserved /\ StillOpening /\ link' = link
           /\ s \in DOMAIN scope /\ Alive(s)
           /\ scope[s].closing /\ scope[s].kind # "pinned" /\ Below(s)
<1>1. /\ queue # <<>> /\ queue[1].what = "forget" /\ SameHistory
      /\ Merge(s) \/ Error
      /\ Leave(s, "rejected", scope, Served)
      /\ "forget" \in Control
  BY DEF ServeForget, At, Control
<1>2. /\ s \in DOMAIN scope /\ Rest(Served) /\ Alive(s) /\ Free(s, Served)
      /\ scope[s].pc = "forgetting"
  BY <1>1, FirstInQueue DEF Stage, Of
<1>3. HistoryTyped' /\ ran' = ran /\ issuer' = issuer
  BY <1>1, QuietHistory
<1>4. /\ TypeOK /\ ScopeInv(s) /\ Touched(scope, s) /\ ShapeInv
      /\ scope \in Settling(scope, s)
  BY <1>2, TouchedNone DEF CoreInv, ShapeInv, Settling
<1>5. /\ scope[s].closing /\ scope[s].kind = "savepoint"
      /\ \A c \in Children(s) : scope[c].settled # "open"
  BY <1>2, <1>4 DEF ScopeInv, Ending
<1>6. Top(s)
  BY <1>2, <1>4, <1>5, EndsOnTop
<1>7. ServerTyped' /\ Cut /\ link' = link /\ Below(s)
  BY <1>1, <1>2, <1>3, BackServer, QuietServer, BelowStays
<1> QED
  BY <1>1, <1>2, <1>3, <1>4, <1>5, <1>6, <1>7, KeptByLeave

LEMMA RegroupKeeps ==
    ASSUME CoreInv, NEW s, Regroup(s)
    PROVE  Preserved /\ StillOpening /\ marks' = marks /\ link' = link
<1>1. /\ s \in DOMAIN scope /\ scope[s].pc = "waiting"
      /\ \A c \in Children(s) : scope[c].settled # "open"
      /\ SameServer /\ SameHistory /\ Rest(queue)
  BY DEF Regroup, Rest
<1>2. HistoryTyped' /\ ran' = ran /\ issuer' = issuer
  BY <1>1, QuietHistory
<1>3. ServerTyped' /\ Cut /\ link' = link /\ marks' = marks
  BY <1>1, <1>2, QuietServer
<1>4. /\ TypeOK /\ ScopeInv(s) /\ Touched(scope, s) /\ ShapeInv /\ JobInv
      /\ scope \in Settling(scope, s) /\ MarkInv
  BY <1>1, TouchedNone DEF CoreInv, ShapeInv, Settling
<1>5. Alive(s) /\ Free(s, queue) /\ scope[s].closing
  BY <1>1, <1>4, FreeWhileIdle DEF Alive, ScopeInv
<1>6. scope[s].kind = "transaction" => marks' = <<>>
  BY <1>1, <1>3, <1>4, <1>5 DEF MarkInv
<1>7. ASSUME NEW pc \in {"leaving", "forgetting"},
             NEW what \in {"drain", "forget"},
             pc \in Stage(what), Proceed(s, pc, what, scope, queue),
             pc = "leaving" => scope[s].kind = "pinned",
             pc = "forgetting" => scope[s].kind = "savepoint"
      PROVE  Preserved /\ StillOpening
  <2>1. pc \in Progress /\ what \in Control \ {"savepoint", "begin"}
    BY DEF Progress, Control
  <2> QED
    BY <1>1, <1>2, <1>3, <1>4, <1>5, <1>6, <1>7, <2>1, KeptByProceed
<1>8. ASSUME scope[s].kind # "pinned", Leave(s, "rejected", scope, queue)
      PROVE  Preserved /\ StillOpening
  <2>1. Top(s)
    BY <1>1, <1>4, <1>5, <1>8, EndsOnTop
  <2> QED
    BY <1>1, <1>2, <1>3, <1>4, <1>5, <1>6, <1>8, <2>1, KeptByLeave
<1>9. "leaving" \in Stage("drain") /\ "forgetting" \in Stage("forget")
  BY DEF Stage
<1>10. \/ /\ Proceed(s, "leaving", "drain", scope, queue)
          /\ scope[s].kind = "pinned"
       \/ /\ Proceed(s, "forgetting", "forget", scope, queue)
          /\ scope[s].kind = "savepoint"
       \/ scope[s].kind # "pinned" /\ Leave(s, "rejected", scope, queue)
  BY DEF Regroup
<1> QED
  BY <1>3, <1>7, <1>8, <1>9, <1>10

-----------------------------------------------------------------------------
(* What the callbacks do, and what comes from outside.                     *)

(* Where a callback may ask for something, none of the scopes around it    *)
(* has sent anything for itself.                                           *)
LEMMA UsableIsFree ==
    ASSUME CoreInv, NEW s \in DOMAIN scope, scope[s].pc = "body", Usable(s),
           NEW x \in DOMAIN scope, x <= s, Alive(x)
    PROVE  Free(x, queue)
<1>1. TypeOK /\ ShapeInv /\ JobInv /\ ScopeInv(x) /\ Rest(queue)
  BY DEF CoreInv, ShapeInv, Rest
<1>2. Top(s)
  BY DEF Usable, Admitted
<1>3. OnStack(x)
  BY <1>1 DEF ShapeInv, StackInv
<1>4. ~scope[x].closing
  BY <1>3 DEF Usable, OnStack
<1>5. scope[x].pc \in {"opening", "body"}
  BY <1>1, <1>4 DEF ScopeInv
<1>6. scope[x].pc = "opening" => x = s
  BY <1>1, <1>2 DEF ScopeInv, Top
<1>7. scope[x].pc = "body"
  BY <1>5, <1>6
<1> QED
  BY <1>1, <1>7, FreeWhileIdle

LEMMA IssueKeeps ==
    ASSUME CoreInv, NEW s \in DOMAIN scope, scope[s].pc = "body", Issue(s)
    PROVE  Preserved /\ StillOpening /\ marks' = marks /\ link' = link
<1>0. PICK n : n = Len(issuer) + 1
  OBVIOUS
<1> DEFINE j == Job("work", s, n)
<1>1. /\ Usable(s) /\ Len(issuer) < MaxWork
      /\ issuer' = Append(issuer, s) /\ queue' = Append(queue, j)
      /\ scope' = scope /\ stack' = stack /\ client' = client
      /\ faults' = faults /\ ran' = ran /\ durable' = durable
      /\ excused' = excused /\ SameServer
  BY <1>0 DEF Issue, SameServer, serverVars
<1>2. /\ TypeOK /\ HistoryTyped /\ Touched(scope', s) /\ Rest(queue)
      /\ s \in Scopes /\ issuer \in Seq(Scopes) /\ Len(issuer) \in Nat
      /\ MaxWork \in Nat
  BY <1>1, TouchedNone, TypesOf, Typed, ScopeAssumption DEF CoreInv, Rest
<1>3. /\ issuer' \in Seq(Scopes) /\ DOMAIN issuer' = 1..n
      /\ issuer'[n] = s
      /\ \A i \in 1..Len(issuer) : issuer'[i] = issuer[i]
      /\ n \in 1..n /\ n \in 0..MaxWork /\ DOMAIN issuer = 1..Len(issuer)
  BY <1>0, <1>1, <1>2
<1>4. IssuerGrows
  BY <1>0, <1>2, <1>3 DEF IssuerGrows
<1>5. HistoryTyped'
  <2>1. Scopes = 1..MaxScope /\ Scopes' = Scopes
    BY DEF Scopes
  <2> HIDE DEF Scopes
  <2> QED
    BY <1>1, <1>2, <1>3, <2>1 DEF HistoryTyped
<1>6. ServerTyped' /\ Cut /\ link' = link /\ marks' = marks
  BY <1>1, QuietServer
<1>7. /\ j \in JobRecord /\ j.what = "work" /\ j.of = s /\ j.work = n
      /\ j.what \notin Control
  BY <1>2, <1>3 DEF Job, JobRecord, What, Control
<1> HIDE DEF j
<1>8. JobFits(j)' /\ MayJoin(j)
  <2>1. scope'[s].pc = "body" /\ DOMAIN scope' = DOMAIN scope
    BY <1>1
  <2>2. n \in DOMAIN issuer' /\ issuer'[n] = s
    BY <1>3
  <2>3. MayJoin(j)
    BY <1>1, <1>7 DEF MayJoin
  <2> QED
    BY <1>7, <2>1, <2>2, <2>3 DEF JobFits
<1>9. \A x \in DOMAIN scope :
          x <= s /\ scope[x].pc # "done" => Free(x, queue)
  BY <1>1, UsableIsFree DEF Alive
<1> HIDE DEF JobRecord
<1>10. scope[s].kind = "transaction" /\ scope'[s].undone =>
          marks' = <<>> \/ scope[s].undone
  BY <1>1
<1>11. /\ queue' = Append(queue, j) /\ stack' = stack
       /\ client' = client
  BY <1>1
<1>12. MayJoin(j)
  BY <1>8
<1> QED
  BY <1>2, <1>4, <1>5, <1>6, <1>7, <1>8, <1>9, <1>10, <1>11, <1>12,
     KeptByStay

(* The FETCH of a stream, and a COMMIT given to executeRaw, on their way.  *)
Sends(s, what) ==
    /\ Usable(s)
    /\ what = "fetch" => scope[s].kind # "pinned"
    /\ Fault
    /\ queue' = Append(queue, Job(what, s, 0))
    /\ UNCHANGED <<scope, stack, serverVars, client, historyVars>>

(* A FETCH that is refused before it is sent.                              *)
GivesUp(s) ==
    /\ scope[s].pc # "opening" /\ scope[s].kind # "pinned"
    /\ ~AwaitsStreams \/ scope[s].poison
    /\ queue' = Append(queue, Job("recover", s, 0))
    /\ UNCHANGED <<scope, stack, serverVars, client, faults, historyVars>>

LEMMA FetchSends ==
    ASSUME CoreInv, NEW s, Fetch(s)
    PROVE  /\ s \in DOMAIN scope
           /\ GivesUp(s) \/ (scope[s].pc = "body" /\ Sends(s, "fetch"))
<1>1. s \in DOMAIN scope /\ scope[s].pc # "opening"
  BY DEF Fetch, Called
<1>2. CASE Usable(s)
  <2>1. OnStack(s) /\ ~scope[s].closing
    <3>1. Len(stack) \in DOMAIN stack /\ stack[Len(stack)] = s
      BY <1>2, Typed DEF Usable, Admitted, Top, CoreInv
    <3> QED
      BY <1>2, <3>1 DEF Usable, OnStack
  <2>2. scope[s].pc = "body"
    BY <1>1, <2>1 DEF CoreInv, ShapeInv, ScopeInv
  <2> QED
    BY <1>1, <1>2, <2>2 DEF Fetch, Sends
<1>3. CASE ~Usable(s)
  BY <1>1, <1>3 DEF Fetch, GivesUp
<1> QED
  BY <1>2, <1>3

LEMMA SendKeeps ==
    ASSUME CoreInv, NEW s \in DOMAIN scope, scope[s].pc = "body",
           NEW what \in {"fetch", "raw"}, Sends(s, what)
    PROVE  Preserved /\ StillOpening /\ marks' = marks /\ link' = link
<1> DEFINE j == Job(what, s, 0)
<1>1. /\ Usable(s) /\ Fault /\ queue' = Append(queue, j)
      /\ scope' = scope /\ stack' = stack /\ client' = client
      /\ UNCHANGED historyVars /\ SameServer
  BY DEF Sends, SameServer
<1>2. /\ TypeOK /\ HistoryTyped /\ Touched(scope', s) /\ Rest(queue)
      /\ s \in Scopes /\ 0 \in 0..MaxWork /\ MaxFault \in Nat
  BY <1>1, TouchedNone, TypesOf, Typed, ScopeAssumption DEF CoreInv, Rest
<1>3. issuer' = issuer /\ ran' = ran /\ IssuerGrows
  BY <1>1 DEF historyVars, IssuerGrows
<1>4. HistoryTyped'
  BY <1>1, <1>2 DEF HistoryTyped, historyVars, Fault
<1>5. ServerTyped' /\ Cut /\ link' = link /\ marks' = marks
  BY <1>1, <1>3, QuietServer
<1>6. /\ j \in JobRecord /\ j.what = what /\ j.of = s
      /\ j.what \notin Control
  BY <1>2 DEF Job, JobRecord, What, Control
<1> HIDE DEF j
<1>7. JobFits(j)' /\ MayJoin(j)
  BY <1>1, <1>6 DEF JobFits, MayJoin, Sends
<1>8. \A x \in DOMAIN scope :
          x <= s /\ scope[x].pc # "done" => Free(x, queue)
  BY <1>1, UsableIsFree DEF Alive
<1>9. scope[s].kind = "transaction" /\ scope'[s].undone =>
          marks' = <<>> \/ scope[s].undone
  BY <1>1
<1> HIDE DEF JobRecord
<1> QED
  BY <1>1, <1>2, <1>3, <1>4, <1>5, <1>6, <1>7, <1>8, <1>9, KeptByStay

LEMMA GivingUpKeeps ==
    ASSUME CoreInv, NEW s \in DOMAIN scope, GivesUp(s)
    PROVE  Preserved /\ StillOpening /\ marks' = marks /\ link' = link
<1> DEFINE j == Job("recover", s, 0)
<1>1. /\ queue' = Append(queue, j) /\ scope[s].pc # "opening"
      /\ ~AwaitsStreams \/ scope[s].poison
      /\ scope' = scope /\ stack' = stack /\ client' = client
      /\ SameHistory /\ SameServer
  BY DEF GivesUp, SameServer, SameHistory
<1>2. /\ TypeOK /\ Touched(scope', s) /\ Rest(queue)
      /\ s \in Scopes /\ 0 \in 0..MaxWork
  BY <1>1, TouchedNone, Typed, ScopeAssumption DEF CoreInv, Rest
<1>3. issuer' = issuer /\ ran' = ran /\ IssuerGrows /\ HistoryTyped'
  BY <1>1, QuietHistory DEF IssuerGrows
<1>4. ServerTyped' /\ Cut /\ link' = link /\ marks' = marks
  BY <1>1, <1>3, QuietServer
<1>5. /\ j \in JobRecord /\ j.what = "recover" /\ j.of = s
      /\ j.what \notin Control /\ j.what \notin Asked
  BY <1>2 DEF Job, JobRecord, What, Control, Asked
<1> HIDE DEF j
<1>6. JobFits(j)' /\ MayJoin(j)
  BY <1>1, <1>5 DEF JobFits, MayJoin, Strays
<1>7. scope[s].kind = "transaction" /\ scope'[s].undone =>
          marks' = <<>> \/ scope[s].undone
  BY <1>1
<1> HIDE DEF JobRecord
<1> QED
  BY <1>1, <1>2, <1>3, <1>4, <1>5, <1>6, <1>7, KeptByStay

(* What a callback, or a stream of it, asks for.                           *)
Asks(s) ==
    \/ /\ scope[s].pc = "body"
       /\ Issue(s) \/ \E what \in {"fetch", "raw"} : Sends(s, what)
    \/ GivesUp(s)

LEMMA Asking ==
    ASSUME CoreInv, NEW s,
           Fetch(s) \/ (InBody(s) /\ (Issue(s) \/ Raw(s)))
    PROVE  s \in DOMAIN scope /\ Asks(s)
<1>1. CASE Fetch(s)
  BY <1>1, FetchSends DEF Asks
<1>2. CASE InBody(s) /\ (Issue(s) \/ Raw(s))
  <2>1. Raw(s) => Sends(s, "raw")
    BY DEF Raw, Sends
  <2> QED
    BY <1>2, <2>1 DEF Asks, InBody
<1> QED
  BY <1>1, <1>2

LEMMA AsksKeep ==
    ASSUME CoreInv, NEW s \in DOMAIN scope, Asks(s)
    PROVE  Preserved /\ StillOpening /\ marks' = marks /\ link' = link
BY IssueKeeps, GivingUpKeeps, SendKeeps DEF Asks

LEMMA ReturnKeeps ==
    ASSUME CoreInv, NEW s \in DOMAIN scope, scope[s].pc = "body",
           Return(s) \/ Throw(s)
    PROVE  Preserved /\ StillOpening /\ marks' = marks /\ link' = link
<1>1. /\ \/ Fail(s, scope, queue)
         \/ /\ ~Abandoned(s)
            /\ Proceed(s, "draining", "drain", Closed(scope, s), queue)
      /\ SameServer /\ SameHistory /\ Rest(queue)
  BY DEF Return, Throw, Closed, Rest
<1>2. HistoryTyped' /\ ran' = ran /\ issuer' = issuer
  BY <1>1, QuietHistory
<1>3. ServerTyped' /\ Cut /\ link' = link /\ marks' = marks
  BY <1>1, <1>2, QuietServer
<1>4. TypeOK /\ ScopeInv(s) /\ Touched(scope, s) /\ ShapeInv /\ JobInv
  BY TouchedNone DEF CoreInv, ShapeInv
<1>5. Alive(s) /\ Free(s, queue)
  BY <1>1, <1>4, FreeWhileIdle DEF Alive
<1>6. CASE Fail(s, scope, queue)
  BY <1>1, <1>2, <1>3, <1>4, <1>5, <1>6, KeptByFail
<1>7. CASE /\ ~Abandoned(s)
           /\ Proceed(s, "draining", "drain", Closed(scope, s), queue)
  <2>1. /\ Touched(Closed(scope, s), s) /\ Closed(scope, s)[s].closing
        /\ Closed(scope, s)[s].undone = scope[s].undone
    BY <1>4, TouchedClosed
  <2>2. /\ "draining" \in Progress /\ "draining" \in Stage("drain")
        /\ "drain" \in Control \ {"savepoint", "begin"}
    BY DEF Progress, Stage, Control
  <2>3. \A c \in Children(s) : scope[c].settled # "open"
    BY <1>7 DEF Abandoned
  <2> QED
    BY <1>1, <1>2, <1>3, <1>4, <1>5, <1>7, <2>1, <2>2, <2>3, KeptByProceed
<1> QED
  BY <1>1, <1>3, <1>6, <1>7

LEMMA LoseKeeps ==
    ASSUME CoreInv, Lose
    PROVE  Preserved /\ StillOpening /\ link' = "down"
<1>1. /\ Fault /\ Disconnected
      /\ excused' \in {excused, excused \cup {Of}}
      /\ At("commit") \/ excused' = excused
      /\ durable' \in {durable, durable \cup Committable}
      /\ scope' = scope /\ stack' = stack /\ queue' = queue
      /\ client' = client /\ issuer' = issuer /\ ran' = ran
  BY DEF Lose
<1>2. /\ TypeOK /\ MarkInv /\ HistoryTyped /\ Touched(scope', 1)
      /\ 1 \in DOMAIN scope /\ Rest(queue) /\ IssuerGrows
      /\ DOMAIN scope \subseteq Scopes
  BY <1>1, TouchedNone, TypesOf, Typed DEF CoreInv, Rest, IssuerGrows
<1>3. HistoryTyped'
  <2>1. Committable \subseteq ran
    BY <1>2, WorksHaveRun DEF Committable
  <2>2. At("commit") => Of \in Scopes
    BY <1>2, FirstInQueue DEF At
  <2>3. faults' \in 0..MaxFault
    BY <1>1, <1>2, ScopeAssumption DEF HistoryTyped, Fault
  <2> QED
    BY <1>1, <1>2, <2>1, <2>2, <2>3 DEF HistoryTyped, Scopes
<1>4. ServerTyped' /\ marks' = <<>> /\ link' = "down"
  <2>1. marks' = <<>> /\ link' = "down" /\ aborted' = FALSE
    BY <1>1 DEF Disconnected
  <2> QED
    BY <2>1, CutAll DEF ServerTyped, Cut
<1>5. Cut
  BY <1>4, CutAll
<1> QED
  BY <1>1, <1>2, <1>3, <1>4, <1>5, KeptByStay

LEMMA AbortKeeps ==
    ASSUME CoreInv, Abort
    PROVE  Preserved /\ StillOpening /\ marks' = <<>> /\ link' = "down"
<1>1. /\ Fault /\ client' = "destroyed"
      /\ IF Lost THEN SameServer ELSE Disconnected
      /\ scope' = [scope EXCEPT ![1].told = "rejected"]
      /\ stack' = stack /\ queue' = queue /\ UNCHANGED historyVars
  BY DEF Abort
<1>2. /\ TypeOK /\ MarkInv /\ HistoryTyped /\ ServerTyped
      /\ 1 \in DOMAIN scope /\ Rest(queue)
      /\ scope \in [DOMAIN scope -> ScopeRecord]
  BY TypesOf, Typed DEF CoreInv, Rest
<1>3. HistoryTyped' /\ issuer' = issuer /\ IssuerGrows /\ ran' = ran
  BY <1>1, <1>2, ScopeAssumption
  DEF HistoryTyped, historyVars, Fault, IssuerGrows
<1>4. ServerTyped' /\ marks' = <<>> /\ link' = "down"
  <2>1. /\ marks' = <<>> /\ link' = "down"
        /\ aborted' \in {aborted, FALSE}
    BY <1>1, <1>2 DEF Disconnected, SameServer, serverVars, MarkInv, Lost
  <2> QED
    BY <1>2, <2>1, CutAll DEF ServerTyped, Cut
<1>5. Cut
  BY <1>4, CutAll
<1>6. Touched(scope', 1) /\ scope'[1].undone = scope[1].undone
  <2> DEFINE r == [scope[1] EXCEPT !.told = "rejected"]
  <2>1. /\ r \in ScopeRecord /\ r.up = scope[1].up /\ r.kind = scope[1].kind
        /\ r.undo = scope[1].undo /\ r.pc = scope[1].pc
        /\ r.settled = scope[1].settled /\ r.closing = scope[1].closing
        /\ r.poison = scope[1].poison /\ r.undone = scope[1].undone
    BY <1>2 DEF ScopeRecord
  <2>2. scope' = [scope EXCEPT ![1] = r]
    BY <1>1
  <2> HIDE DEF r, ScopeRecord
  <2>3. /\ scope' \in [DOMAIN scope -> ScopeRecord] /\ scope'[1] = r
        /\ \A x \in DOMAIN scope : x # 1 => scope'[x] = scope[x]
    BY <1>2, <2>1, <2>2
  <2>4. Spreads(scope')
    BY <2>1, <2>3 DEF Spreads
  <2> QED
    BY <2>1, <2>3, <2>4 DEF Touched
<1> QED
  BY <1>1, <1>2, <1>3, <1>4, <1>5, <1>6, KeptByStay

LEMMA OpenKeeps ==
    ASSUME CoreInv, NEW s \in DOMAIN scope, scope[s].pc = "body",
           NEW undo \in BOOLEAN, NEW awaited \in BOOLEAN,
           NEW settled \in {"open", "resolved"},
           Open(s, undo, awaited, settled)
    PROVE  /\ Preserved /\ marks' = marks /\ link' = link
           /\ DOMAIN scope \subseteq DOMAIN scope'
           /\ \A x \in DOMAIN scope : scope'[x] = scope[x]
           /\ \A x \in DOMAIN scope' \ DOMAIN scope :
                 /\ scope'[x].pc \in {"opening", "done"}
                 /\ scope'[x].up = s /\ ~scope'[x].undone
<1> DEFINE kind == IF scope[s].kind = "pinned" /\ ~undo
                   THEN "transaction" ELSE "savepoint"
<1>0. PICK n, k, what, new, old :
          /\ n = Len(scope) + 1 /\ k = kind
          /\ what = IF k = "savepoint" THEN k ELSE "begin"
          /\ new = [Scope(s, k, undo, awaited, "opening")
                       EXCEPT !.settled = settled]
          /\ old = Refused(s, k, undo, awaited)
  OBVIOUS
<1>1. /\ Len(scope) < MaxScope /\ SameServer /\ SameHistory
      /\ client' = client
      /\ \/ /\ Usable(s)
            /\ scope' = Append(scope, new)
            /\ stack' = Append(stack, n)
            /\ queue' = Append(queue, Job(what, n, 0))
         \/ /\ scope' = Append(scope, old)
            /\ stack' = stack /\ queue' = queue
      /\ settled # "open" => k = "transaction" /\ ~AwaitsStreams
  BY <1>0 DEF Open, Enters, SameServer, SameHistory, Unaccounted
<1>2. /\ TypeOK /\ ShapeInv /\ JobInv /\ MarkInv /\ ScopesTyped
      /\ scope \in Seq(ScopeRecord) /\ Len(scope) \in Nat
      /\ DOMAIN scope = 1..Len(scope) /\ s \in Scopes /\ MaxScope \in Nat
      /\ stack \in Seq(Scopes) /\ queue \in Seq(JobRecord)
      /\ 0 \in 0..MaxWork /\ Rest(queue)
  BY TypesOf, Typed, ScopeAssumption DEF CoreInv, Rest
<1>3. HistoryTyped' /\ ran' = ran /\ issuer' = issuer /\ IssuerGrows
  BY <1>1, QuietHistory DEF IssuerGrows
<1>4. ServerTyped' /\ Cut /\ link' = link /\ marks' = marks
  BY <1>1, <1>3, QuietServer
<1>5. /\ n \in Scopes /\ n \in Nat /\ n > Len(scope) /\ n \notin DOMAIN scope
      /\ s \in 0..MaxScope
  BY <1>0, <1>1, <1>2 DEF Scopes
<1>6. k \in {"transaction", "savepoint"} /\ k \in Kinds
      /\ k = IF scope[s].kind = "pinned" /\ ~undo
             THEN "transaction" ELSE "savepoint"
  BY <1>0 DEF Kinds
<1>7. /\ new \in ScopeRecord /\ new.up = s /\ new.pc = "opening"
      /\ new.settled = settled /\ ~new.undone /\ new.kind = k
      /\ new.undo = undo
  BY <1>0, <1>5, <1>6 DEF Scope, ScopeRecord, Progress
<1>8. /\ old \in ScopeRecord /\ old.up = s /\ old.pc = "done"
      /\ old.closing /\ old.settled = "rejected" /\ old.kind = k
      /\ old.undo = undo
  BY <1>0, <1>5, <1>6 DEF Scope, Refused, ScopeRecord, Progress
<1>9. ASSUME NEW r \in ScopeRecord, scope' = Append(scope, r), r.up = s
      PROVE  /\ scope' \in Seq(ScopeRecord) /\ Len(scope') = n
             /\ DOMAIN scope' = DOMAIN scope \cup {n}
             /\ \A x \in DOMAIN scope : scope'[x] = scope[x]
             /\ scope'[n] = r /\ NewScope(s) /\ Len(scope') \in Scopes
  <2> HIDE DEF ScopeRecord
  <2>1. /\ scope' \in Seq(ScopeRecord) /\ Len(scope') = n
        /\ DOMAIN scope' = 1..n
        /\ \A x \in DOMAIN scope : scope'[x] = scope[x]
        /\ scope'[n] = r
    BY <1>0, <1>2, <1>9, Appended
  <2>2. 1..n = 1..Len(scope) \cup {n}
    BY <1>0, <1>2
  <2> QED
    BY <1>0, <1>2, <1>5, <1>9, <2>1, <2>2 DEF NewScope
<1>10. ASSUME DOMAIN scope' = DOMAIN scope \cup {n}, ShapeInv',
              \A x \in DOMAIN scope : scope'[x] = scope[x],
              scope'[n].pc \in {"opening", "done"}, ~scope'[n].undone
       PROVE  MarkInv' /\ Fates /\ Further(queue)
  <2>1. MarkInv'
    <3>1. \A x \in DOMAIN scope :
              Alive(x) /\ scope[x].kind = "transaction" =>
                 Alive(x)' /\ scope'[x].kind = "transaction"
      BY <1>10 DEF Alive
    <3>2. \A x \in DOMAIN scope' :
              scope'[x].pc = "opening" =>
                 x \notin DOMAIN scope \/ scope[x].pc = "opening"
      BY <1>10
    <3>3. \A x \in DOMAIN scope' :
              /\ Alive(x)' /\ scope'[x].kind = "transaction"
              /\ scope'[x].pc = "waiting" \/ scope'[x].undone
              => /\ x \in DOMAIN scope /\ Alive(x)
                 /\ scope[x].kind = "transaction"
                 /\ scope[x].pc = "waiting" \/ scope[x].undone
      BY <1>10 DEF Alive
    <3>4. \A x \in DOMAIN scope' \ DOMAIN scope : x \in Nat /\ x > Len(scope)
      BY <1>5, <1>10
    <3> QED
      BY <1>2, <1>4, <1>10, <3>1, <3>2, <3>3, <3>4, MarksCut
  <2>2. Fates
    BY <1>10 DEF Fates, Alive
  <2>3. Further(queue)
    BY <1>10 DEF Further
  <2> QED
    BY <2>1, <2>2, <2>3
<1>11. CASE /\ Usable(s)
            /\ scope' = Append(scope, new)
            /\ stack' = Append(stack, n)
            /\ queue' = Append(queue, Job(what, n, 0))
  <2>1. /\ scope' \in Seq(ScopeRecord) /\ Len(scope') \in Scopes
        /\ DOMAIN scope' = DOMAIN scope \cup {n}
        /\ \A x \in DOMAIN scope : scope'[x] = scope[x]
        /\ scope'[n] = new /\ NewScope(s)
    BY <1>7, <1>9, <1>11
  <2>2. Top(s)
    BY <1>11 DEF Usable, Admitted
  <2>3. ShapeInv'
    <3>1. stack' = Append(stack, Len(scope) + 1)
      BY <1>0, <1>11
    <3>2. /\ scope'[Len(scope) + 1].pc = "opening"
          /\ scope'[Len(scope) + 1].settled # "open" =>
                /\ scope'[Len(scope) + 1].kind = "transaction"
                /\ ~AwaitsStreams
          /\ ~scope'[Len(scope) + 1].undone
          /\ scope'[Len(scope) + 1].kind =
                IF scope[s].kind = "pinned" /\ ~scope'[Len(scope) + 1].undo
                THEN "transaction" ELSE "savepoint"
      BY <1>0, <1>1, <1>6, <1>7, <2>1
    <3> QED
      BY <1>2, <2>1, <2>2, <3>1, <3>2, ShapeOpens
  <2>4. MarkInv' /\ Fates /\ Further(queue)
    BY <1>7, <1>10, <2>1, <2>3
  <2> DEFINE j == Job(what, n, 0)
  <2>5. /\ j \in JobRecord /\ j.of = n /\ j.what = what
        /\ what \in {"savepoint", "begin"}
        /\ what = "savepoint" => k = "savepoint"
        /\ what = "begin" => k = "transaction"
    BY <1>0, <1>2, <1>5, <1>6 DEF Job, JobRecord, What
  <2>6. queue' = Append(queue, j)
    BY <1>11
  <2> HIDE DEF j, JobRecord
  <2>7. JobFits(j)'
    BY <1>7, <2>1, <2>5 DEF JobFits, Stage, Control
  <2>8. Free(n, queue) /\ j.what \notin Asked /\ MayJoin(j)
    BY <1>2, <1>5, <2>5 DEF Free, JobInv, JobFits, Asked, MayJoin
  <2>9. JobInv' /\ AskedKept
    BY <1>2, <1>3, <2>4, <2>5, <2>6, <2>7, <2>8, JobsJoined, AskedJoined
  <2>10. ScopesTyped'
    <3>1. stack' \in Seq(Scopes) /\ queue' \in Seq(JobRecord)
      <4> HIDE DEF Scopes
      <4> QED
        BY <1>2, <1>5, <1>11, <2>5, <2>6, Appended
    <3> QED
      BY <1>1, <1>2, <2>1, <3>1 DEF ScopesTyped, Scopes
  <2> QED
    BY <1>3, <1>4, <1>7, <2>1, <2>3, <2>4, <2>9, <2>10 DEF Preserved
<1>12. CASE /\ scope' = Append(scope, old)
            /\ stack' = stack /\ queue' = queue
  <2>1. /\ scope' \in Seq(ScopeRecord) /\ Len(scope') \in Scopes
        /\ DOMAIN scope' = DOMAIN scope \cup {n}
        /\ \A x \in DOMAIN scope : scope'[x] = scope[x]
        /\ scope'[n] = old /\ NewScope(s)
    BY <1>8, <1>9, <1>12
  <2>2. ~old.undone
    BY <1>0 DEF Refused, Scope
  <2>3. ShapeInv'
    <3>1. /\ scope'[Len(scope) + 1].pc = "done"
          /\ scope'[Len(scope) + 1].closing
          /\ scope'[Len(scope) + 1].settled # "open"
          /\ scope'[Len(scope) + 1].kind \in {"transaction", "savepoint"}
          /\ /\ scope'[Len(scope) + 1].kind = "savepoint"
             /\ scope[s].kind = "pinned"
             => scope'[Len(scope) + 1].undo
      BY <1>0, <1>6, <1>8, <2>1
    <3> QED
      BY <1>2, <1>12, <2>1, <3>1, ShapeRefuses
  <2>4. MarkInv' /\ Fates /\ Further(queue)
    BY <1>8, <1>10, <2>1, <2>2, <2>3
  <2>5. JobInv' /\ AskedKept
    BY <1>2, <1>3, <1>12, <2>4, JobsServed, AskedServed
  <2>6. ScopesTyped'
    BY <1>1, <1>2, <1>12, <2>1 DEF ScopesTyped, Scopes
  <2> QED
    BY <1>3, <1>4, <1>8, <2>1, <2>2, <2>3, <2>4, <2>5, <2>6 DEF Preserved
<1> QED
  BY <1>1, <1>11, <1>12

-----------------------------------------------------------------------------
(* The invariant.                                                          *)

LEMMA CoreFirst ==
    ASSUME Init
    PROVE  CoreInv
<1>1. PICK r, kind, pc, undo :
          /\ scope = <<Scope(0, kind, undo, TRUE, pc)>>
          /\ r = Scope(0, kind, undo, TRUE, pc) /\ undo \in BOOLEAN
          /\ \/ kind = "pinned" /\ pc = "body" /\ ~undo /\ queue = <<>>
             \/ /\ kind = "transaction" /\ pc = "opening"
                /\ queue = <<Job("begin", 1, 0)>>
  <2>1. PICK root \in Roots :
           IF root = "pinned"
           THEN /\ scope = <<Scope(0, "pinned", FALSE, TRUE, "body")>>
                /\ queue = <<>>
           ELSE /\ scope = <<Scope(0, "transaction", root = "scratch", TRUE,
                                  "opening")>>
                /\ queue = <<Job("begin", 1, 0)>>
    BY DEF Init
  <2>2. CASE root = "pinned"
    BY <2>1, <2>2
  <2>3. CASE root # "pinned"
    <3>1. (root = "scratch") \in BOOLEAN
      OBVIOUS
    <3> QED
      BY <2>1, <2>3, <3>1
  <2> QED
    BY <2>2, <2>3
<1>2. /\ stack = <<1>> /\ marks = <<>> /\ aborted = FALSE /\ link = "up"
      /\ client = "held" /\ faults = 0 /\ issuer = <<>> /\ ran = {}
      /\ durable = {} /\ excused = {}
  BY DEF Init
<1>3. 1 \in Scopes /\ 0 \in 0..MaxWork /\ 0 \in 0..MaxScope
      /\ 0 \in 0..MaxFault
  BY ScopeAssumption DEF Scopes
<1>4. /\ r \in ScopeRecord /\ r.up = 0 /\ r.kind = kind /\ r.pc = pc
      /\ r.settled = "open" /\ ~r.undone /\ r.undo = undo
  BY <1>1, <1>3 DEF Scope, ScopeRecord, Progress, Kinds
<1>5. /\ scope \in Seq(ScopeRecord) /\ Len(scope) = 1 /\ DOMAIN scope = {1}
      /\ scope[1] = r
  <2> HIDE DEF ScopeRecord
  <2>1. scope = <<r>>
    BY <1>1
  <2> QED
    BY <1>4, <2>1, Singleton
<1>6. /\ stack \in Seq(Scopes) /\ DOMAIN stack = {1} /\ stack[1] = 1
      /\ Len(stack) = 1 /\ stack # <<>>
  BY <1>2, <1>3
<1>7. /\ queue \in Seq(JobRecord)
      /\ \/ DOMAIN queue = {}
         \/ /\ DOMAIN queue = {1} /\ queue[1].what = "begin"
            /\ queue[1].of = 1 /\ kind = "transaction" /\ pc = "opening"
  <2> DEFINE j == Job("begin", 1, 0)
  <2>1. j \in JobRecord /\ j.what = "begin" /\ j.of = 1
    BY <1>3 DEF Job, JobRecord, What
  <2> HIDE DEF j
  <2>2. \/ queue = <<>>
        \/ queue = <<j>> /\ kind = "transaction" /\ pc = "opening"
    BY <1>1 DEF j
  <2> HIDE DEF JobRecord
  <2>3. CASE queue = <<>>
    BY <2>3
  <2>4. CASE queue = <<j>> /\ kind = "transaction" /\ pc = "opening"
    BY <2>1, <2>4, Singleton
  <2> QED
    BY <2>2, <2>3, <2>4
<1>8. ScopesTyped /\ ServerTyped /\ HistoryTyped
  <2>1. marks \in Seq(MarkRecord) /\ issuer \in Seq(Scopes)
    <3> HIDE DEF MarkRecord, Scopes
    <3> QED
      BY <1>2
  <2> QED
    BY <1>2, <1>3, <1>5, <1>6, <1>7, <2>1
    DEF ScopesTyped, ServerTyped, HistoryTyped
<1>9. TypeOK
  <2>1. \A i \in DOMAIN stack : scope[stack[i]].pc # "done"
    BY <1>1, <1>4, <1>5, <1>6
  <2> QED
    BY <1>6, <1>8, <2>1 DEF TypeOK, ScopesTyped, ServerTyped, HistoryTyped,
       ScopeRecord, Progress, JobRecord, What, MarkRecord
<1>10. ShapeInv
  <2>1. Children(1) = {}
    BY <1>4, <1>5 DEF Children
  <2>2. Top(1) /\ OnStack(1) /\ Alive(1)
    BY <1>1, <1>4, <1>5, <1>6 DEF Top, OnStack, Alive
  <2>3. ScopeInv(1)
    <3>1. /\ scope[1].up = 0 /\ ~(1 > 1) /\ 0 < 1
          /\ scope[1].kind \in {"pinned", "transaction"}
          /\ scope[1].settled = "open" /\ ~scope[1].undone
          /\ \/ scope[1].pc = "body"
             \/ scope[1].pc = "opening" /\ scope[1].kind = "transaction"
      <4>1. \/ kind = "pinned" /\ pc = "body"
            \/ kind = "transaction" /\ pc = "opening"
        BY <1>1
      <4>2. ~(1 > 1) /\ 0 < 1
        OBVIOUS
      <4> HIDE DEF ScopeRecord
      <4> QED
        BY <1>4, <1>5, <4>1, <4>2
    <3> QED
      BY <2>1, <2>2, <3>1 DEF ScopeInv, Ending
  <2>4. StackInv
    BY <1>5, <1>6, <2>2 DEF StackInv
  <2> QED
    BY <1>5, <2>3, <2>4 DEF ShapeInv
<1>11. JobInv
  <2>1. \A i \in DOMAIN queue : JobFits(queue[i])
    BY <1>4, <1>5, <1>7 DEF JobFits, Stage, Control
  <2> QED
    BY <1>7, <2>1 DEF JobInv, Asked
<1>12. MarkInv
  BY <1>2 DEF MarkInv
<1> QED
  BY <1>9, <1>10, <1>11, <1>12 DEF CoreInv

LEMMA CallbackKeeps ==
    ASSUME CoreInv, NEW s, Callback(s)
    PROVE  Preserved /\ marks' = marks /\ link' = link
<1>1. s \in DOMAIN scope /\ scope[s].pc = "body"
  BY DEF Callback, InBody
<1>2. ASSUME NEW undo \in BOOLEAN, NEW awaited \in BOOLEAN,
             NEW settled \in {"open", "resolved"},
             Open(s, undo, awaited, settled)
      PROVE  Preserved /\ marks' = marks /\ link' = link
  BY <1>1, <1>2, OpenKeeps
<1>3. ASSUME Issue(s) \/ Raw(s)
      PROVE  Preserved /\ marks' = marks /\ link' = link
  BY <1>1, <1>3, Asking, AsksKeep DEF InBody
<1>4. ASSUME Return(s) \/ Throw(s)
      PROVE  Preserved /\ marks' = marks /\ link' = link
  BY <1>1, <1>4, ReturnKeeps
<1> QED
  BY <1>2, <1>3, <1>4 DEF Callback

LEMMA StepKeeps ==
    ASSUME CoreInv, Next
    PROVE  Preserved
<1>1. ASSUME NEW s \in 1..MaxScope, Callback(s) \/ Fetch(s) \/ Regroup(s)
      PROVE  Preserved
  BY <1>1, CallbackKeeps, Asking, AsksKeep, RegroupKeeps
<1>2. CASE Serve
  <2>1. CASE ServeBegin
    BY <2>1, BeginKeeps
  <2>2. CASE ServeSavepoint
    BY <2>2, SavepointKeeps
  <2>3. CASE Refuse
    BY <2>3, RefuseKeeps
  <2>4. CASE WorkRuns
    BY <2>4, WorkRunsKeeps
  <2>5. CASE WorkFails
    BY <2>5, WorkFailsKeeps
  <2>6. CASE ServeFetch
    BY <2>6, FetchKeeps
  <2>7. CASE ServeRecover
    BY <2>7, RecoverKeeps
  <2>8. CASE ServeClose
    BY <2>8, CloseKeeps
  <2>9. CASE ServeRaw
    BY <2>9, RawKeeps
  <2>10. CASE ServeDrain
    BY <2>10, DrainKeeps
  <2>11. CASE ServeCommit
    BY <2>11, CommitKeeps
  <2>12. CASE ServeUndo
    BY <2>12, UndoKeeps
  <2>13. CASE ServeRelease
    BY <2>13, ReleaseKeeps
  <2>14. CASE ServeRevert
    BY <2>14, RevertKeeps
  <2>15. CASE ServeForget
    BY <2>15, ForgetKeeps
  <2> QED
    BY <1>2, <2>1, <2>2, <2>3, <2>4, <2>5, <2>6, <2>7, <2>8, <2>9, <2>10,
       <2>11, <2>12, <2>13, <2>14, <2>15 DEF Serve
<1>3. CASE Lose
  BY <1>3, LoseKeeps
<1>4. CASE Abort
  BY <1>4, AbortKeeps
<1> QED
  BY <1>1, <1>2, <1>3, <1>4 DEF Next

LEMMA CoreNext ==
    ASSUME CoreInv, [Next]_vars
    PROVE  CoreInv'
<1>1. CASE Next
  BY <1>1, StepKeeps, PreservedCore
<1>2. CASE UNCHANGED vars
  <2> USE <1>2 DEF vars, serverVars, historyVars
  <2>1. TypeOK'
    BY DEF CoreInv, TypeOK
  <2>2. ShapeInv'
    BY DEF CoreInv, ShapeInv, StackInv, ScopeInv, OnStack, Alive, PinnedUp,
           Top, Children
  <2>3. JobInv'
    BY DEF CoreInv, JobInv, JobFits, Alive
  <2>4. MarkInv'
    BY DEF CoreInv, MarkInv, OnStack, Alive, Lost
  <2> QED
    BY <2>1, <2>2, <2>3, <2>4 DEF CoreInv
<1> QED
  BY <1>1, <1>2

LEMMA CoreHolds == Spec => []CoreInv
<1>1. Init => CoreInv
  BY CoreFirst
<1>2. CoreInv /\ [Next]_vars => CoreInv'
  BY CoreNext
<1> QED
  BY <1>1, <1>2, PTL DEF Spec

(* The scopes, the stack, the queue and the levels are what the comments   *)
(* of the model say they are, no scope is twice on the stack and none that *)
(* releaseScope has let go of is on it: of every callback, with streams    *)
(* that fail in their query or in their rows.                              *)
THEOREM SpecTypeOK == Spec => []TypeOK
<1>1. CoreInv => TypeOK
  BY DEF CoreInv
<1> QED
  BY <1>1, CoreHolds, PTL

-----------------------------------------------------------------------------
(* What a statement may run in.                                            *)

Pending(s) ==
    \E i \in DOMAIN queue : queue[i].what \in Asked /\ queue[i].of = s

(* Nothing of the scope runs any more: it or one around it has failed, or  *)
(* is at its end with nothing left of what the callbacks have asked for.   *)
Spoiled(s) ==
    \E t \in DOMAIN scope :
        /\ t <= s /\ Alive(t) /\ scope[t].kind # "pinned"
        /\ scope[t].poison \/ (scope[t].closing /\ ~Pending(s))

Opened(s) ==
    Alive(s) /\ scope[s].kind # "pinned" /\ scope[s].pc # "opening"

(* A stream only rolls back a scope that is poisoned.  This is what the    *)
(* theorems about the work of a scope suppose of the streams.              *)
RecoversPoisoned ==
    \A i \in DOMAIN queue :
        queue[i].what = "recover" /\ Alive(queue[i].of) =>
            scope[queue[i].of].poison

(* What is poisoned has poisoned all within it, a FETCH on its way is of   *)
(* the innermost scope and not of a pinned one, and a stream only rolls    *)
(* back what is poisoned.                                                  *)
StreamInv ==
    /\ \A s, t \in DOMAIN scope :
          Alive(s) /\ scope[s].poison /\ s < t /\ Alive(t) => scope[t].poison
    /\ \A i \in DOMAIN queue :
          queue[i].what = "fetch" /\ Alive(queue[i].of) =>
             Top(queue[i].of) /\ scope[queue[i].of].kind # "pinned"
    /\ RecoversPoisoned

LevelInv ==
    /\ \A s \in DOMAIN scope :
          Opened(s) /\ ~Lost => Level(s) # {} \/ Spoiled(s)
    /\ StreamInv

LEMMA TopIsLast ==
    ASSUME CoreInv, NEW t, Top(t), NEW x \in DOMAIN scope, Alive(x)
    PROVE  x <= t
<1>1. TypeOK /\ StackInv
  BY DEF CoreInv, ShapeInv
<1>2. /\ DOMAIN stack = 1..Len(stack) /\ Len(stack) \in Nat
      /\ DOMAIN scope = 1..Len(scope) /\ Len(scope) \in Nat
  BY <1>1, Typed
<1>3. PICK i \in DOMAIN stack : stack[i] = x
  BY <1>1 DEF StackInv, OnStack
<1>4. Len(stack) \in DOMAIN stack /\ stack[Len(stack)] = t
  BY <1>2 DEF Top
<1>5. i = Len(stack) \/ i < Len(stack)
  BY <1>2, <1>3
<1>6. t \in DOMAIN scope /\ t \in Nat /\ x \in Nat
  <2>1. t \in DOMAIN scope
    BY <1>1, <1>4 DEF StackInv
  <2> QED
    BY <1>2, <2>1
<1> QED
  BY <1>1, <1>3, <1>4, <1>5, <1>6 DEF StackInv

LEMMA SpoiledStays ==
    ASSUME CoreInv, Preserved, NEW s \in DOMAIN scope, Alive(s)', Spoiled(s)
    PROVE  Spoiled(s)'
<1>1. PICK t \in DOMAIN scope :
          /\ t <= s /\ Alive(t) /\ scope[t].kind # "pinned"
          /\ scope[t].poison \/ (scope[t].closing /\ ~Pending(s))
  BY DEF Spoiled
<1>2. Fates /\ AskedKept /\ TypeOK
  BY DEF Preserved, CoreInv
<1>3. Alive(s)
  BY <1>2 DEF Fates
<1>4. Alive(t)'
  <2> SUFFICES ASSUME ~Alive(t)' PROVE FALSE
    OBVIOUS
  <2>1. Top(t)
    BY <1>1, <1>2 DEF Fates
  <2>2. s <= t
    BY <1>3, <2>1, TopIsLast
  <2>3. s \in Nat /\ t \in Nat
    BY <1>2, Typed
  <2> QED
    BY <1>1, <2>2, <2>3
<1>5. t \in DOMAIN scope' /\ scope'[t].kind # "pinned"
  BY <1>1, <1>2 DEF Fates
<1>6. CASE scope[t].poison
  <2>1. scope'[t].poison
    BY <1>2, <1>4, <1>6 DEF Fates
  <2> QED
    BY <1>1, <1>4, <1>5, <2>1 DEF Spoiled
<1>7. CASE scope[t].closing /\ ~Pending(s)
  <2>1. scope'[t].closing
    BY <1>2, <1>7 DEF Fates
  <2>2. ~Usable(s)
    BY <1>1, <1>7 DEF Usable, CoreInv, ShapeInv, StackInv, OnStack
  <2>3. ~Pending(s)'
    BY <1>2, <1>7, <2>2 DEF Pending, AskedKept, MayJoin
  <2> QED
    BY <1>1, <1>4, <1>5, <2>1, <2>3 DEF Spoiled
<1> QED
  BY <1>1, <1>6, <1>7

LEMMA LastIsTop ==
    ASSUME TypeOK', StackInv', NEW t \in DOMAIN scope', Alive(t)',
           \A x \in DOMAIN scope' : Alive(x)' => ~(t < x)
    PROVE  Top(t)'
<1>1. /\ DOMAIN stack' = 1..Len(stack') /\ Len(stack') \in Nat
  <2>1. stack' \in Seq(Scopes')
    BY DEF TypeOK
  <2> QED
    BY <2>1
<1>2. PICK i \in DOMAIN stack' : stack'[i] = t
  BY DEF StackInv, OnStack
<1>3. i = Len(stack')
  <2> SUFFICES ASSUME i # Len(stack') PROVE FALSE
    OBVIOUS
  <2>1. Len(stack') \in DOMAIN stack' /\ i < Len(stack')
    BY <1>1, <1>2
  <2>2. PICK x : x = stack'[Len(stack')]
    OBVIOUS
  <2>3. t < x
    BY <1>2, <2>1, <2>2 DEF StackInv
  <2>4. x \in DOMAIN scope' /\ Alive(x)'
    BY <2>1, <2>2 DEF StackInv, OnStack
  <2> QED
    BY <2>3, <2>4
<1> QED
  BY <1>1, <1>2, <1>3 DEF Top

(* A scope is only opened where nothing is poisoned and no FETCH waits.    *)
OpensCalm ==
    \A s \in DOMAIN scope' \ DOMAIN scope :
        Alive(s)' =>
           /\ \A x \in DOMAIN scope : Alive(x)' => ~scope'[x].poison
           /\ ~scope'[s].poison
           /\ \A i \in DOMAIN queue' :
                 queue'[i].what = "fetch" => ~Alive(queue[i].of)'

LEMMA NothingOpens ==
    ASSUME DOMAIN scope' = DOMAIN scope
    PROVE  OpensCalm
BY DEF OpensCalm

LEMMA OpensCalmly ==
    ASSUME CoreInv, StreamInv, NEW s \in DOMAIN scope,
           NEW undo \in BOOLEAN, NEW awaited \in BOOLEAN,
           NEW settled \in {"open", "resolved"},
           Open(s, undo, awaited, settled)
    PROVE  OpensCalm
<1>0. PICK k, n, new, old, j :
          /\ k = IF scope[s].kind = "pinned" /\ ~undo
                 THEN "transaction" ELSE "savepoint"
          /\ n = Len(scope) + 1
          /\ new = [Scope(s, k, undo, awaited, "opening")
                       EXCEPT !.settled = settled]
          /\ old = Refused(s, k, undo, awaited)
          /\ j = Job(IF k = "savepoint" THEN k ELSE "begin", n, 0)
  OBVIOUS
<1>1. /\ ~new.poison /\ old.pc = "done"
      /\ j.what \in {"savepoint", "begin"}
  BY <1>0 DEF Scope, Refused, Job
<1>2. \/ /\ Enters(s, k)
         /\ scope' = Append(scope, new) /\ queue' = Append(queue, j)
      \/ scope' = Append(scope, old)
  BY <1>0 DEF Open
<1>3. /\ Len(scope) \in Nat /\ DOMAIN scope = 1..Len(scope)
      /\ Len(queue) \in Nat /\ DOMAIN queue = 1..Len(queue)
      /\ DOMAIN stack = 1..Len(stack) /\ Len(stack) \in Nat
  BY Typed DEF CoreInv
<1>4. ASSUME NEW r, scope' = Append(scope, r)
      PROVE  /\ DOMAIN scope' = DOMAIN scope \cup {n} /\ scope'[n] = r
             /\ \A x \in DOMAIN scope : scope'[x] = scope[x]
  BY <1>0, <1>3, <1>4
<1>5. CASE scope' = Append(scope, old)
  BY <1>1, <1>4, <1>5 DEF OpensCalm, Alive
<1>6. CASE /\ Enters(s, k)
           /\ scope' = Append(scope, new) /\ queue' = Append(queue, j)
  <2>1. /\ DOMAIN scope' = DOMAIN scope \cup {n} /\ ~scope'[n].poison
        /\ \A x \in DOMAIN scope : scope'[x] = scope[x]
    BY <1>1, <1>4, <1>6
  <2>2. \A x \in DOMAIN scope : Alive(x)' => ~scope'[x].poison
    BY <1>6, <2>1 DEF Enters, Usable, Admitted, CoreInv, ShapeInv, StackInv,
       OnStack, Alive
  <2>3. ASSUME NEW i \in DOMAIN queue', queue'[i].what = "fetch"
        PROVE  ~Alive(queue[i].of)'
    <3>1. i \in DOMAIN queue /\ queue'[i] = queue[i]
      BY <1>1, <1>3, <1>6, <2>3
    <3>2. k = "transaction"
      BY <1>6, <2>3, <3>1, <1>0 DEF Enters
    <3>3. scope[s].kind = "pinned" /\ Top(s)
      BY <1>0, <1>6, <3>2 DEF Enters, Usable, Admitted
    <3>4. queue[i].of \in DOMAIN scope
      BY <3>1 DEF CoreInv, JobInv, JobFits
    <3>5. ~Alive(queue[i].of)
      BY <2>3, <3>1, <3>3 DEF StreamInv, Top
    <3> QED
      BY <2>1, <3>1, <3>4, <3>5 DEF Alive
  <2> QED
    BY <2>1, <2>2, <2>3 DEF OpensCalm
<1> QED
  BY <1>2, <1>5, <1>6

LEMMA StreamsStep ==
    ASSUME CoreInv, StreamInv, Preserved, RecoversPoisoned', OpensCalm
    PROVE  StreamInv'
<1>1. /\ Fates /\ AskedKept /\ JobInv /\ CoreInv' /\ TypeOK /\ JobInv'
      /\ TypeOK' /\ StackInv'
  BY PreservedCore DEF Preserved, CoreInv, ShapeInv
<1>2. ASSUME NEW s \in DOMAIN scope', NEW t \in DOMAIN scope',
             Alive(s)', scope'[s].poison, s < t, Alive(t)'
      PROVE  scope'[t].poison
  <2>1. CASE s \in DOMAIN scope /\ t \in DOMAIN scope
    BY <1>1, <1>2, <2>1 DEF Fates, StreamInv
  <2>2. CASE s \notin DOMAIN scope
    BY <1>2, <2>2 DEF OpensCalm
  <2>3. CASE s \in DOMAIN scope /\ t \notin DOMAIN scope
    BY <1>2, <2>3 DEF OpensCalm
  <2> QED
    BY <2>1, <2>2, <2>3
<1>3. ASSUME NEW i \in DOMAIN queue', NEW s, s = queue'[i].of,
             queue'[i].what = "fetch", Alive(s)'
      PROVE  Top(s)' /\ scope'[s].kind # "pinned"
  <2>1. /\ Top(s) /\ s \in DOMAIN scope /\ scope[s].kind # "pinned"
    <3>1. CASE \E k \in DOMAIN queue : queue'[i] = queue[k]
      <4>1. PICK k \in DOMAIN queue : queue'[i] = queue[k]
        BY <3>1
      <4>2. s \in DOMAIN scope
        BY <1>1, <1>3, <4>1 DEF JobInv, JobFits
      <4>3. Alive(s)
        BY <1>1, <1>3, <4>2 DEF Fates
      <4> QED
        BY <1>3, <4>1, <4>2, <4>3 DEF StreamInv
    <3>2. CASE MayJoin(queue'[i])
      <4>1. Usable(s) /\ scope[s].kind # "pinned"
        BY <1>3, <3>2 DEF MayJoin, Asked
      <4>2. Top(s)
        BY <4>1 DEF Usable, Admitted
      <4>3. Len(stack) \in DOMAIN stack
        BY <1>1, <4>2, Typed DEF Top
      <4>4. s \in DOMAIN scope
        BY <4>2, <4>3 DEF Top, CoreInv, ShapeInv, StackInv
      <4> QED
        BY <4>1, <4>2, <4>4
    <3> QED
      BY <1>1, <3>1, <3>2 DEF AskedKept
  <2>2. s \in DOMAIN scope' /\ scope'[s].kind # "pinned"
    BY <1>1, <2>1 DEF Fates
  <2>3. ASSUME NEW x \in DOMAIN scope', Alive(x)'
        PROVE  ~(s < x)
    <3>1. x \in DOMAIN scope
      BY <1>3, <2>3 DEF OpensCalm
    <3>2. x <= s
      BY <1>1, <2>1, <2>3, <3>1, TopIsLast DEF Fates
    <3>3. x \in Nat /\ s \in Nat
      BY <1>1, <2>1, <3>1, Typed
    <3> QED
      BY <3>2, <3>3
  <2>4. Top(s)'
    BY <1>1, <1>3, <2>2, <2>3, LastIsTop
  <2> QED
    BY <2>2, <2>4
<1> QED
  BY <1>2, <1>3 DEF StreamInv

(* A stream that does not stray finds its scope poisoned: its query has    *)
(* failed, or its FETCH was refused, of the innermost scope, for a poison  *)
(* that is below and so on it as well.                                     *)
LEMMA RecoversStep ==
    ASSUME CoreInv, StreamInv, Preserved, ~Strays
    PROVE  RecoversPoisoned'
<1>1. Fates /\ AskedKept /\ JobInv /\ TypeOK
  BY DEF Preserved, CoreInv
<1>2. ASSUME NEW i \in DOMAIN queue', queue'[i].what = "recover",
             Alive(queue[i].of)'
      PROVE  scope'[queue'[i].of].poison
  <2>0. PICK j : j = queue'[i]
    OBVIOUS
  <2>1. CASE \E k \in DOMAIN queue : queue'[i] = queue[k]
    <3>1. PICK k \in DOMAIN queue : j = queue[k]
      BY <2>0, <2>1
    <3>2. j.of \in DOMAIN scope
      BY <1>1, <3>1 DEF JobInv, JobFits
    <3>3. Alive(j.of)' /\ Alive(j.of)
      BY <1>1, <1>2, <2>0, <3>2 DEF Fates
    <3>4. scope[j.of].poison
      BY <1>2, <2>0, <3>1, <3>3 DEF StreamInv, RecoversPoisoned
    <3> QED
      BY <1>1, <2>0, <3>2, <3>3, <3>4 DEF Fates
  <2>2. CASE MayJoin(queue'[i]) /\ Turned(queue'[i].of)
    <3>1. /\ queue # <<>> /\ queue[1].what = "fetch" /\ queue[1].of = j.of
          /\ OnStack(j.of) /\ ~Admitted(j.of) /\ 1 \in DOMAIN queue
      BY <1>1, <2>0, <2>2, Typed DEF Turned, Of
    <3>2. j.of \in DOMAIN scope /\ Alive(j.of)
      BY <3>1 DEF CoreInv, ShapeInv, StackInv, JobInv, JobFits
    <3>3. Top(j.of)
      BY <3>1, <3>2 DEF StreamInv, RecoversPoisoned
    <3>4. PICK k \in DOMAIN stack : scope[stack[k]].poison
      BY <3>1, <3>3 DEF Admitted
    <3>5. /\ stack[k] \in DOMAIN scope /\ Alive(stack[k])
      BY <3>4 DEF CoreInv, ShapeInv, StackInv, OnStack
    <3>6. stack[k] = j.of \/ stack[k] < j.of
      <4>1. stack[k] <= j.of
        BY <3>3, <3>5, TopIsLast
      <4> QED
        BY <1>1, <3>2, <3>5, <4>1, Typed
    <3>7. scope[j.of].poison
      BY <3>2, <3>4, <3>5, <3>6 DEF StreamInv, RecoversPoisoned
    <3> QED
      BY <1>1, <1>2, <2>0, <3>2, <3>7 DEF Fates
  <2>3. CASE MayJoin(queue'[i]) /\ ~Turned(queue'[i].of)
    BY <1>2, <2>3 DEF MayJoin
  <2> QED
    BY <1>1, <2>1, <2>2, <2>3 DEF AskedKept
<1> QED
  BY <1>2 DEF RecoversPoisoned

(* What an action may do to the levels.                                    *)
LEMMA LevelsStep ==
    ASSUME CoreInv, LevelInv, Preserved, RecoversPoisoned',
           link' \in {link, "down"},
           \A s \in DOMAIN scope :
              Opened(s) /\ Alive(s)' /\ Level(s) # {} =>
                 Lost \/ Level(s)' # {} \/ Spoiled(s)',
           \A s \in DOMAIN scope :
              /\ scope[s].pc = "opening" /\ Alive(s)'
              /\ scope'[s].pc # "opening"
              => Lost \/ Level(s)' # {} \/ Spoiled(s)',
           \A s \in DOMAIN scope' \ DOMAIN scope :
              scope'[s].pc \in {"opening", "done"},
           OpensCalm
    PROVE  LevelInv'
<1>1. Fates /\ AskedKept /\ JobInv
  BY DEF Preserved, CoreInv
<1>2. ASSUME NEW s \in DOMAIN scope', Opened(s)', ~Lost'
      PROVE  Level(s)' # {} \/ Spoiled(s)'
  <2>1. Alive(s)' /\ scope'[s].pc # "opening" /\ scope'[s].kind # "pinned"
    BY <1>2 DEF Opened
  <2>2. s \in DOMAIN scope
    BY <2>1 DEF Alive
  <2>3. ~Lost
    BY <1>2 DEF Lost
  <2>4. Alive(s) /\ scope[s].kind # "pinned"
    BY <1>1, <2>1, <2>2 DEF Fates
  <2>5. CASE scope[s].pc = "opening"
    BY <2>1, <2>2, <2>3, <2>5
  <2>6. CASE scope[s].pc # "opening"
    <3>1. Opened(s)
      BY <2>4, <2>6 DEF Opened
    <3>2. Level(s) # {} \/ Spoiled(s)
      BY <2>2, <2>3, <3>1 DEF LevelInv
    <3>3. CASE Level(s) # {}
      BY <2>1, <2>2, <2>3, <3>1, <3>3
    <3>4. CASE Spoiled(s)
      BY <2>1, <2>2, <3>4, SpoiledStays
    <3> QED
      BY <3>2, <3>3, <3>4
  <2> QED
    BY <2>5, <2>6
<1>3. StreamInv'
  BY StreamsStep DEF LevelInv
<1> QED
  BY <1>2, <1>3 DEF LevelInv

(* The levels stay.                                                        *)
LEMMA LevelsStay ==
    ASSUME CoreInv, LevelInv, Preserved, RecoversPoisoned',
           link' \in {link, "down"}, StillOpening,
           \/ DOMAIN marks' = DOMAIN marks
              /\ \A i \in DOMAIN marks : marks'[i].of = marks[i].of
           \/ link' = "down"
    PROVE  LevelInv'
<1>1. CASE DOMAIN marks' = DOMAIN marks
           /\ \A i \in DOMAIN marks : marks'[i].of = marks[i].of
  <2>1. \A s : Level(s)' = Level(s)
    BY <1>1 DEF Level
  <2>2. /\ \A s \in DOMAIN scope :
              scope[s].pc = "opening" /\ Alive(s)' =>
                 scope'[s].pc = "opening"
        /\ DOMAIN scope' \ DOMAIN scope = {} /\ OpensCalm
    BY NothingOpens DEF StillOpening
  <2> QED
    BY <2>1, <2>2, LevelsStep
<1>2. CASE link' = "down"
  <2>1. \A s \in DOMAIN scope' : ~(Opened(s)' /\ ~Lost')
    BY <1>2 DEF Lost
  <2>2. StreamInv'
    BY NothingOpens, StreamsStep DEF LevelInv, StillOpening
  <2> QED
    BY <2>1, <2>2 DEF LevelInv
<1> QED
  BY <1>1, <1>2

(* The levels of a scope go, and those above them.                         *)
LEMMA LevelsGo ==
    ASSUME CoreInv, LevelInv, Preserved, RecoversPoisoned',
           link' = link, StillOpening, NEW s \in DOMAIN scope, Below(s),
           \A x \in DOMAIN scope :
              Opened(x) /\ Alive(x)' /\ s <= x => Spoiled(x)'
    PROVE  LevelInv'
<1>1. ASSUME NEW x \in DOMAIN scope, Opened(x), Alive(x)', Level(x) # {}
      PROVE  Level(x)' # {} \/ Spoiled(x)'
  <2>1. s \in Nat /\ x \in Nat
    BY Typed DEF CoreInv
  <2>2. CASE x < s
    <3>1. PICK i \in DOMAIN marks : marks[i].of = x
      BY <1>1 DEF Level
    <3>2. i \in DOMAIN marks' /\ marks'[i].of = x
      BY <2>2, <3>1 DEF Below
    <3> QED
      BY <3>2 DEF Level
  <2>3. CASE s <= x
    BY <1>1, <2>3
  <2> QED
    BY <2>1, <2>2, <2>3
<1>2. /\ \A x \in DOMAIN scope :
            scope[x].pc = "opening" /\ Alive(x)' => scope'[x].pc = "opening"
      /\ DOMAIN scope' \ DOMAIN scope = {} /\ OpensCalm
  BY NothingOpens DEF StillOpening
<1> QED
  BY <1>1, <1>2, LevelsStep

(* The scope whose ending is served has nothing left in the queue, and     *)
(* neither has one within it.                                              *)
LEMMA NoneAfterTheEnd ==
    ASSUME CoreInv, Preserved, NEW s \in DOMAIN scope, s = Of,
           queue # <<>>, queue[1].what \in Control, Alive(s),
           scope[s].closing \/ queue' = Served,
           NEW x \in DOMAIN scope, s <= x
    PROVE  ~Pending(x)'
<1>1. JobInv /\ TypeOK /\ AskedKept
  BY DEF CoreInv, Preserved
<1>2. 1 \in DOMAIN queue /\ DOMAIN queue \subseteq Nat \ {0}
  <2>1. DOMAIN queue = 1..Len(queue) /\ Len(queue) \in Nat
        /\ queue \in Seq(JobRecord)
    BY <1>1, Typed
  <2> HIDE DEF JobRecord
  <2> QED
    BY <2>1
<1>3. ASSUME NEW k \in DOMAIN queue, queue[k].what \in Asked,
             queue[k].of = x
      PROVE  FALSE
  <2>1. k < 1
    BY <1>1, <1>2, <1>3 DEF JobInv, Of
  <2> QED
    BY <1>2, <2>1
<1>4. scope[s].closing => ~Usable(x)
  BY DEF Usable, CoreInv, ShapeInv, StackInv, OnStack
<1>5. queue' = Served => \A i \in DOMAIN queue' :
                            \E k \in DOMAIN queue : queue'[i] = queue[k]
  BY <1>1, RestOfQueue DEF Rest, Served
<1> QED
  BY <1>1, <1>3, <1>4, <1>5 DEF Pending, AskedKept, MayJoin

LEMMA LevelsEnd ==
    ASSUME CoreInv, LevelInv, Preserved, RecoversPoisoned',
           link' = link, StillOpening, NEW s \in DOMAIN scope, s = Of,
           queue # <<>>, queue[1].what \in Control, Alive(s),
           scope[s].closing, scope[s].kind # "pinned", Below(s)
    PROVE  LevelInv'
<1>1. Fates
  BY DEF Preserved
<1>2. ASSUME NEW x \in DOMAIN scope, Opened(x), Alive(x)', s <= x
      PROVE  Spoiled(x)'
  <2>1. Alive(s)'
    <3> SUFFICES ASSUME ~Alive(s)' PROVE FALSE
      OBVIOUS
    <3>1. Top(s)
      BY <1>1 DEF Fates
    <3>2. x <= s
      BY <1>2, <3>1, TopIsLast DEF Opened
    <3>3. s \in Nat /\ x \in Nat
      BY Typed DEF CoreInv
    <3> QED
      BY <1>2, <3>2, <3>3
  <2>2. /\ s \in DOMAIN scope' /\ scope'[s].kind # "pinned"
        /\ scope'[s].closing
    BY <1>1 DEF Fates
  <2>3. ~Pending(x)'
    BY <1>2, NoneAfterTheEnd
  <2> QED
    BY <1>2, <2>1, <2>2, <2>3 DEF Spoiled
<1> QED
  BY <1>2, LevelsGo

LEMMA LevelsOfRecover ==
    ASSUME CoreInv, LevelInv, ServeRecover, RecoversPoisoned'
    PROVE  LevelInv'
<1>0. PICK s : s = Of
  OBVIOUS
<1>1. /\ Preserved /\ StillOpening /\ link' = link
      /\ s \in DOMAIN scope /\ scope'[s].pc = scope[s].pc
      /\ \/ marks' = marks
         \/ Alive(s) /\ scope[s].kind # "pinned" /\ Below(s)
  BY <1>0, RecoverKeeps
<1>2. CASE marks' = marks
  BY <1>1, <1>2, LevelsStay
<1>3. CASE Alive(s) /\ scope[s].kind # "pinned" /\ Below(s)
  <2>1. scope[s].poison
    <3>1. queue # <<>> /\ queue[1].what = "recover" /\ s = queue[1].of
      BY <1>0 DEF ServeRecover, At, Of
    <3>2. 1 \in DOMAIN queue
      BY <3>1, Typed DEF CoreInv
    <3> QED
      BY <1>3, <3>1, <3>2 DEF LevelInv, StreamInv, RecoversPoisoned
  <2>2. /\ s \in DOMAIN scope' /\ scope'[s].poison /\ Alive(s)'
        /\ scope'[s].kind # "pinned"
    BY <1>1, <1>3, <2>1 DEF Preserved, Fates, Alive
  <2>3. \A x \in DOMAIN scope : s <= x => Spoiled(x)'
    BY <2>2 DEF Spoiled
  <2> QED
    BY <1>1, <1>3, <2>3, LevelsGo
<1> QED
  BY <1>1, <1>2, <1>3

LEMMA LevelsOfRaw ==
    ASSUME CoreInv, LevelInv, ServeRaw, RecoversPoisoned'
    PROVE  LevelInv'
<1>1. /\ Preserved /\ StillOpening /\ link' = link
      /\ Lost \/ \A x \in DOMAIN scope : OnStack(x) => scope'[x].poison
  BY RawKeeps
<1>2. ASSUME NEW x \in DOMAIN scope, Opened(x), Alive(x)'
      PROVE  Lost \/ Spoiled(x)'
  <2>1. OnStack(x)
    BY <1>2 DEF Opened, CoreInv, ShapeInv, StackInv
  <2>2. x \in DOMAIN scope' /\ scope'[x].kind # "pinned" /\ x <= x
    <3>1. x \in Nat
      BY Typed DEF CoreInv
    <3> QED
      BY <1>1, <1>2, <3>1 DEF Preserved, Fates, Opened
  <2> QED
    BY <1>1, <1>2, <2>1, <2>2 DEF Spoiled
<1>3. /\ \A x \in DOMAIN scope :
            scope[x].pc = "opening" /\ Alive(x)' => scope'[x].pc = "opening"
      /\ DOMAIN scope' \ DOMAIN scope = {} /\ OpensCalm
  BY <1>1, NothingOpens DEF StillOpening
<1> QED
  BY <1>1, <1>2, <1>3, LevelsStep

LEMMA LevelsOfBegin ==
    ASSUME CoreInv, LevelInv, ServeBegin, RecoversPoisoned'
    PROVE  LevelInv'
<1>0. PICK s : s = Of
  OBVIOUS
<1>1. /\ Preserved /\ link' = link /\ DOMAIN scope' = DOMAIN scope
      /\ s \in DOMAIN scope /\ scope[s].pc = "opening"
      /\ \A x \in DOMAIN scope : x # s => scope'[x].pc = scope[x].pc
      /\ \/ marks' = marks /\ scope'[s].closing
         \/ marks' = <<[of |-> s, works |-> {}]>>
      /\ marks = <<>> /\ queue' = Served
  BY <1>0, BeginKeeps
<1>2. \A x : Level(x) = {}
  BY <1>1 DEF Level
<1>3. ASSUME Alive(s)', scope'[s].pc # "opening"
      PROVE  Level(s)' # {} \/ Spoiled(s)'
  <2>1. CASE marks' = <<[of |-> s, works |-> {}]>>
    <3>1. 1 \in DOMAIN marks' /\ marks'[1].of = s
      BY <2>1
    <3> QED
      BY <3>1 DEF Level
  <2>2. CASE scope'[s].closing
    <3>1. /\ queue # <<>> /\ queue[1].what = "begin"
      BY DEF ServeBegin, At
    <3>2. s \in Nat /\ Alive(s)
      BY <1>1, Typed DEF CoreInv, Alive
    <3>3. s <= s
      BY <3>2
    <3>4. ~Pending(s)'
      BY <1>0, <1>1, <3>1, <3>2, <3>3, NoneAfterTheEnd DEF Control
    <3>5. scope[s].kind # "pinned"
      BY <1>1 DEF CoreInv, ShapeInv, ScopeInv
    <3>6. s \in DOMAIN scope' /\ scope'[s].kind # "pinned"
      BY <1>1, <3>5 DEF Preserved, Fates
    <3> QED
      BY <1>3, <2>2, <3>3, <3>4, <3>6 DEF Spoiled
  <2> QED
    BY <1>1, <2>1, <2>2
<1>4. \A x \in DOMAIN scope :
         scope[x].pc = "opening" /\ Alive(x)' /\ scope'[x].pc # "opening"
         => Level(x)' # {} \/ Spoiled(x)'
  BY <1>1, <1>3
<1> QED
  BY <1>1, <1>2, <1>4, NothingOpens, LevelsStep

LEMMA LevelsOfSavepoint ==
    ASSUME CoreInv, LevelInv, ServeSavepoint, RecoversPoisoned'
    PROVE  LevelInv'
<1>0. PICK s : s = Of
  OBVIOUS
<1>1. /\ Preserved /\ link' = link /\ DOMAIN scope' = DOMAIN scope
      /\ s \in DOMAIN scope /\ scope[s].pc = "opening"
      /\ \A x \in DOMAIN scope : x # s => scope'[x].pc = scope[x].pc
      /\ \/ marks' = marks /\ ~Alive(s)'
         \/ marks' = marks /\ scope'[s].pc = "opening"
         \/ marks' = Append(marks, [of |-> s, works |-> {}])
  BY <1>0, SavepointKeeps
<1>2. CASE marks' = Append(marks, [of |-> s, works |-> {}])
  <2>1. /\ Len(marks) \in Nat /\ DOMAIN marks = 1..Len(marks)
        /\ marks \in Seq(MarkRecord)
    BY Typed DEF CoreInv
  <2>2. /\ DOMAIN marks' = 1..(Len(marks) + 1)
        /\ \A i \in 1..Len(marks) : marks'[i] = marks[i]
        /\ marks'[Len(marks) + 1] = [of |-> s, works |-> {}]
    <3>1. [of |-> s, works |-> {}] \in MarkRecord
      BY <1>1, Typed DEF CoreInv, MarkRecord
    <3> HIDE DEF MarkRecord
    <3> QED
      BY <1>2, <2>1, <3>1, Appended
  <2>3. \A x : Level(x) # {} => Level(x)' # {}
    <3> TAKE x
    <3> HAVE Level(x) # {}
    <3>1. PICK i \in DOMAIN marks : marks[i].of = x
      BY DEF Level
    <3>2. i \in DOMAIN marks' /\ marks'[i].of = x
      BY <2>1, <2>2, <3>1
    <3> QED
      BY <3>2 DEF Level
  <2>4. Level(s)' # {}
    <3>1. Len(marks) + 1 \in DOMAIN marks'
      BY <2>1, <2>2
    <3> QED
      BY <2>2, <3>1 DEF Level
  <2>5. \A x \in DOMAIN scope :
           scope[x].pc = "opening" /\ Alive(x)' /\ scope'[x].pc # "opening"
           => Level(x)' # {}
    BY <1>1, <2>4
  <2> QED
    BY <1>1, <2>3, <2>5, NothingOpens, LevelsStep
<1>3. CASE marks' = marks
  <2>1. \A x : Level(x)' = Level(x)
    BY <1>3 DEF Level
  <2>2. \A x \in DOMAIN scope :
           scope[x].pc = "opening" /\ Alive(x)' /\ scope'[x].pc # "opening"
           => Level(x)' # {}
    <3>1. CASE marks' = Append(marks, [of |-> s, works |-> {}])
      <4>1. FALSE
        <5>1. marks \in Seq(MarkRecord) /\ Len(marks) \in Nat
          BY Typed DEF CoreInv
        <5>2. Len(marks') = Len(marks) + 1
          BY <3>1, <5>1
        <5> QED
          BY <1>3, <5>1, <5>2
      <4> QED
        BY <4>1
    <3>2. CASE ~Alive(s)' \/ scope'[s].pc = "opening"
      BY <1>1, <3>2
    <3> QED
      BY <1>1, <3>1, <3>2
  <2> QED
    BY <1>1, <2>1, <2>2, NothingOpens, LevelsStep
<1> QED
  BY <1>1, <1>2, <1>3

(* A scope that sends the statement it ends with.                          *)
LEMMA LevelsOfEnding ==
    ASSUME CoreInv, LevelInv, RecoversPoisoned',
           \/ ServeCommit \/ ServeUndo \/ ServeRelease \/ ServeRevert
           \/ ServeForget
    PROVE  LevelInv'
<1>0. PICK s : s = Of
  OBVIOUS
<1>1. queue # <<>> /\ queue[1].what \in Control
  BY DEF ServeCommit, ServeUndo, ServeRelease, ServeRevert, ServeForget, At,
         Control
<1>2. CASE ServeCommit
  <2>1. /\ Preserved /\ StillOpening /\ link' = link
        /\ s \in DOMAIN scope /\ Alive(s)
        /\ scope[s].closing /\ scope[s].kind = "transaction"
    BY <1>0, <1>2, CommitKeeps
  <2>2. Below(s)
    BY <2>1, BelowStays
  <2> QED
    BY <1>0, <1>1, <2>1, <2>2, LevelsEnd
<1>3. CASE ServeUndo \/ ServeRelease \/ ServeRevert \/ ServeForget
  <2>1. /\ Preserved /\ StillOpening /\ link' = link
        /\ s \in DOMAIN scope /\ Alive(s)
        /\ scope[s].closing /\ scope[s].kind # "pinned" /\ Below(s)
    BY <1>0, <1>3, UndoKeeps, ReleaseKeeps, RevertKeeps, ForgetKeeps
  <2> QED
    BY <1>0, <1>1, <2>1, LevelsEnd
<1> QED
  BY <1>2, <1>3

LEMMA LevelsOfCallback ==
    ASSUME CoreInv, LevelInv, NEW s, Callback(s), RecoversPoisoned'
    PROVE  LevelInv'
<1>1. s \in DOMAIN scope /\ scope[s].pc = "body"
  BY DEF Callback, InBody
<1>2. ASSUME NEW undo \in BOOLEAN, NEW awaited \in BOOLEAN,
             NEW settled \in {"open", "resolved"},
             Open(s, undo, awaited, settled)
      PROVE  LevelInv'
  <2>1. /\ Preserved /\ marks' = marks /\ link' = link
        /\ \A x \in DOMAIN scope : scope'[x] = scope[x]
        /\ \A x \in DOMAIN scope' \ DOMAIN scope :
              scope'[x].pc \in {"opening", "done"}
    BY <1>1, <1>2, OpenKeeps
  <2>2. \A x : Level(x)' = Level(x)
    BY <2>1 DEF Level
  <2>3. OpensCalm
    BY <1>1, <1>2, OpensCalmly DEF LevelInv
  <2> QED
    BY <2>1, <2>2, <2>3, LevelsStep
<1>3. CASE Issue(s) \/ Raw(s)
  <2>1. Preserved /\ StillOpening /\ marks' = marks /\ link' = link
    BY <1>1, <1>3, Asking, AsksKeep DEF InBody
  <2> QED
    BY <2>1, LevelsStay
<1>4. CASE Return(s) \/ Throw(s)
  <2>1. Preserved /\ StillOpening /\ marks' = marks /\ link' = link
    BY <1>1, <1>4, ReturnKeeps
  <2> QED
    BY <2>1, LevelsStay
<1> QED
  BY <1>2, <1>3, <1>4 DEF Callback

LEMMA LevelsOfStep ==
    ASSUME CoreInv, LevelInv, Next, RecoversPoisoned'
    PROVE  LevelInv'
<1>1. ASSUME NEW s \in 1..MaxScope, Callback(s)
      PROVE  LevelInv'
  BY <1>1, LevelsOfCallback
<1>2. ASSUME NEW s \in 1..MaxScope, Fetch(s) \/ Regroup(s)
      PROVE  LevelInv'
  BY <1>2, Asking, AsksKeep, RegroupKeeps, LevelsStay
<1>3. CASE Serve
  <2>1. CASE ServeBegin
    BY <2>1, LevelsOfBegin
  <2>2. CASE ServeSavepoint
    BY <2>2, LevelsOfSavepoint
  <2>3. CASE Refuse \/ WorkFails \/ ServeFetch \/ ServeClose \/ ServeDrain
    <3>1. Preserved /\ StillOpening /\ marks' = marks /\ link' = link
      BY <2>3, RefuseKeeps, WorkFailsKeeps, FetchKeeps, CloseKeeps, DrainKeeps
    <3> QED
      BY <3>1, LevelsStay
  <2>4. CASE WorkRuns
    <3>1. /\ Preserved /\ StillOpening /\ link' = link
          /\ DOMAIN marks' = DOMAIN marks
          /\ \A i \in DOMAIN marks : marks'[i].of = marks[i].of
      BY <2>4, WorkRunsKeeps
    <3> QED
      BY <3>1, LevelsStay
  <2>5. CASE ServeRecover
    BY <2>5, LevelsOfRecover
  <2>6. CASE ServeRaw
    BY <2>6, LevelsOfRaw
  <2>7. CASE \/ ServeCommit \/ ServeUndo \/ ServeRelease \/ ServeRevert
             \/ ServeForget
    BY <2>7, LevelsOfEnding
  <2> QED
    BY <1>3, <2>1, <2>2, <2>3, <2>4, <2>5, <2>6, <2>7 DEF Serve
<1>4. CASE Lose \/ Abort
  <2>1. Preserved /\ StillOpening /\ link' = "down"
    BY <1>4, LoseKeeps, AbortKeeps
  <2> QED
    BY <2>1, LevelsStay
<1> QED
  BY <1>1, <1>2, <1>3, <1>4 DEF Next

LEMMA LevelsNext ==
    ASSUME CoreInv, LevelInv, [Next]_vars, RecoversPoisoned'
    PROVE  LevelInv'
<1>1. CASE Next
  BY <1>1, LevelsOfStep
<1>2. CASE UNCHANGED vars
  BY <1>2 DEF vars, serverVars, LevelInv, StreamInv, RecoversPoisoned, Opened,
     Spoiled, Level, Lost, Pending, Alive, Top
<1> QED
  BY <1>1, <1>2

LEMMA LevelsFirst ==
    ASSUME Init
    PROVE  LevelInv
<1>1. PICK s : s = scope
  OBVIOUS
<1>2. /\ \E e \in {"body", "opening"}, root \in {"pinned", "transaction"},
            u \in BOOLEAN :
            /\ s = <<Scope(0, root, u, TRUE, e)>>
            /\ e = "body" => root = "pinned"
      /\ queue = <<>> \/ queue = <<Job("begin", 1, 0)>>
  BY <1>1 DEF Init
<1>3. \A x \in DOMAIN s : ~Opened(x)
  BY <1>1, <1>2 DEF Opened, Scope
<1>4. \A i \in DOMAIN queue : queue[i].what \notin {"fetch", "recover"}
  BY <1>2 DEF Job
<1>5. \A x \in DOMAIN s : ~s[x].poison
  BY <1>2 DEF Scope
<1> QED
  BY <1>1, <1>3, <1>4, <1>5 DEF LevelInv, StreamInv, RecoversPoisoned

(* Whatever opens a scope finds its streams at rest.                       *)
LEMMA StepOpens ==
    ASSUME CoreInv, StreamInv, Next
    PROVE  OpensCalm
<1>1. ASSUME NEW s \in 1..MaxScope, Callback(s)
      PROVE  OpensCalm
  <2>1. s \in DOMAIN scope /\ scope[s].pc = "body"
    BY <1>1 DEF Callback, InBody
  <2>2. CASE \E undo, awaited \in BOOLEAN, settled \in {"open", "resolved"} :
                Open(s, undo, awaited, settled)
    BY <2>1, <2>2, OpensCalmly
  <2>3. CASE Issue(s) \/ Raw(s) \/ Return(s) \/ Throw(s)
    BY <1>1, <2>1, <2>3, Asking, AsksKeep, ReturnKeeps, NothingOpens
    DEF StillOpening, InBody
  <2> QED
    BY <1>1, <2>2, <2>3 DEF Callback
<1>2. ASSUME NEW s \in 1..MaxScope, Fetch(s) \/ Regroup(s)
      PROVE  OpensCalm
  BY <1>2, Asking, AsksKeep, RegroupKeeps, NothingOpens DEF StillOpening
<1>3. CASE Serve
  <2>1. PICK s : s = Of
    OBVIOUS
  <2>2. CASE ServeBegin \/ ServeSavepoint
    BY <2>1, <2>2, BeginKeeps, SavepointKeeps, NothingOpens
  <2>3. CASE \/ Refuse \/ WorkRuns \/ WorkFails \/ ServeFetch \/ ServeClose
             \/ ServeRaw \/ ServeDrain
    BY <2>3, RefuseKeeps, WorkRunsKeeps, WorkFailsKeeps, FetchKeeps,
       CloseKeeps, RawKeeps, DrainKeeps, NothingOpens DEF StillOpening
  <2>4. CASE \/ ServeRecover \/ ServeCommit \/ ServeUndo \/ ServeRelease
             \/ ServeRevert \/ ServeForget
    BY <2>1, <2>4, RecoverKeeps, CommitKeeps, UndoKeeps, ReleaseKeeps,
       RevertKeeps, ForgetKeeps, NothingOpens DEF StillOpening
  <2> QED
    BY <1>3, <2>2, <2>3, <2>4 DEF Serve
<1>4. CASE Lose \/ Abort
  BY <1>4, LoseKeeps, AbortKeeps, NothingOpens DEF StillOpening
<1> QED
  BY <1>1, <1>2, <1>3, <1>4 DEF Next

LEMMA StreamsNext ==
    ASSUME CoreInv, StreamInv, [Next]_vars, ~Strays
    PROVE  StreamInv'
<1>1. CASE Next
  BY <1>1, StepKeeps, StepOpens, RecoversStep, StreamsStep
<1>2. CASE UNCHANGED vars
  BY <1>2 DEF vars, StreamInv, RecoversPoisoned, Alive, Top
<1> QED
  BY <1>1, <1>2

(* streamFailureRecovery() rolls a scope back that its stream has failed   *)
(* in.  Of a stream whose query fails, or whose FETCH is refused for the   *)
(* poison of its scope or of one around it, the scope is poisoned by then, *)
(* so that nothing of it follows in autocommit.  Callbacks that wait for   *)
(* their streams have no others; the FETCH of a stream left behind is      *)
(* refused by a scope that is closing or covered, which poisons nothing.   *)
THEOREM AwaitedStreamsRecoverPoisoned ==
    ASSUME "rows" \notin Streams, AwaitsStreams
    PROVE  Spec => []RecoversPoisoned
<1>0. ~Strays
  BY DEF Strays
<1>1. Init => StreamInv
  BY LevelsFirst DEF LevelInv
<1>2. CoreInv /\ StreamInv /\ [Next]_vars => StreamInv'
  BY <1>0, StreamsNext
<1>3. StreamInv => RecoversPoisoned
  BY DEF StreamInv
<1> QED
  BY <1>1, <1>2, <1>3, CoreHolds, PTL DEF Spec

(* What the server has executed grows by the statement it runs.            *)
LEMMA RanGrows ==
    ASSUME CoreInv, [Next]_vars
    PROVE  ran' = ran \/ WorkRuns
BY DEF Next, vars, historyVars, SameHistory, Serve, Callback, Open, Issue,
       Raw, Fetch, Return, Throw, Regroup, Lose, Abort, ServeBegin, ServeSavepoint,
       Refuse, WorkFails, ServeFetch, ServeRecover, ServeClose, ServeRaw,
       ServeDrain, ServeCommit, ServeUndo, ServeRelease, ServeRevert,
       ServeForget

LEMMA RunsInItsScope ==
    ASSUME CoreInv, LevelInv, WorkRuns
    PROVE  \A w \in ran' \ ran :
              scope[issuer[w]].kind = "pinned" \/ Level(issuer[w]) # {}
<1>0. PICK s : s = Of
  OBVIOUS
<1>1. /\ queue # <<>> /\ queue[1].what = "work" /\ queue[1].of = s
      /\ Admitted(s) /\ ~Lost /\ ran' = ran \cup {queue[1].work}
  BY <1>0 DEF WorkRuns, At, Of
<1>2. 1 \in DOMAIN queue
  BY <1>1, Typed DEF CoreInv
<1>3. /\ s \in DOMAIN scope /\ scope[s].pc # "opening"
      /\ issuer[queue[1].work] = s
  BY <1>1, <1>2 DEF CoreInv, JobInv, JobFits, Control
<1>4. Pending(s)
  BY <1>1, <1>2 DEF Pending, Asked
<1>5. Top(s) /\ \A x \in DOMAIN scope : Alive(x) => ~scope[x].poison
  BY <1>1 DEF Admitted, CoreInv, ShapeInv, StackInv, OnStack
<1>6. Alive(s)
  <2>1. Len(stack) \in DOMAIN stack
    BY <1>5, Typed DEF Top, CoreInv
  <2> QED
    BY <1>3, <1>5, <2>1 DEF Top, CoreInv, ShapeInv, StackInv, OnStack
<1>7. ~Spoiled(s)
  BY <1>4, <1>5 DEF Spoiled
<1>8. scope[s].kind = "pinned" \/ Level(s) # {}
  BY <1>1, <1>3, <1>6, <1>7 DEF LevelInv, Opened
<1> QED
  BY <1>1, <1>3, <1>8

(* A statement of a transaction or of a nested one is executed while the   *)
(* level its own scope began stands on the server, whatever the callbacks  *)
(* leave un-awaited and whatever fails, is lost or is aborted: the stack,  *)
(* the closing and poison marks and the shared lock of transaction() see   *)
(* to it in every behaviour whose streams only roll back poisoned scopes:  *)
(* this is all that is asked of the callbacks and of how their streams     *)
(* fail.  It is not vacuous (AwaitedStreamsRecoverPoisoned), and without   *)
(* it statements run in autocommit (the run of ClientScopes_stream_left).  *)
THEOREM StatementsStayInTheirScope ==
    Spec /\ []RecoversPoisoned => NothingOutsideItsScope
<1>1. Init => LevelInv
  BY LevelsFirst
<1>2. CoreInv /\ LevelInv /\ [Next]_vars /\ RecoversPoisoned' => LevelInv'
  BY LevelsNext
<1>3. CoreInv /\ LevelInv /\ [Next]_vars =>
        [\A w \in ran' \ ran :
            scope[issuer[w]].kind = "pinned" \/ Level(issuer[w]) # {}]_vars
  BY RanGrows, RunsInItsScope
<1> QED
  BY <1>1, <1>2, <1>3, CoreHolds, PTL DEF Spec, NothingOutsideItsScope

-----------------------------------------------------------------------------
(* How the client comes back.                                              *)

Rests(s) == scope[s].undone \/ scope[s].pc = "waiting"

(* Nothing is left to run of a scope that is rolled back or waits for its  *)
(* children, nor within it, and a failed stream rolls its scope back after *)
(* what the callbacks asked for before.                                    *)
QuietInv ==
    /\ \A s \in DOMAIN scope :
          Alive(s) /\ scope[s].undone => scope[s].poison \/ scope[s].closing
    /\ \A t, s \in DOMAIN scope :
          /\ Alive(t) /\ t <= s /\ scope[t].kind # "pinned" /\ Rests(t)
          => ~Pending(s)
    /\ \A i, j \in DOMAIN queue :
          /\ queue[i].what \in Asked
          /\ queue[j].what = "recover"
          /\ Alive(queue[j].of)
          /\ queue[j].of <= queue[i].of
          => i < j

(* A pinned connection whose callback is done has no scratch work left.    *)
HomeInv ==
    AwaitsScratch /\ scope[1].kind = "pinned" /\ scope[1].pc # "body" =>
        \A c \in Children(1) : scope[c].undo => ~Alive(c)

(* What a step does to the queue, to where scopes rest and to the root.    *)
Joins(q) ==
    \/ queue' = q
    \/ \E j \in JobRecord :
          /\ j.what \in Asked => Usable(j.of)
          /\ queue' = Append(q, j)

QueueGrows == Joins(queue) \/ (queue # <<>> /\ Joins(Served))

Calm ==
    /\ \A x \in DOMAIN scope :
          /\ Alive(x)' /\ scope'[x].undone =>
                scope[x].undone \/ scope'[x].closing \/ scope'[x].poison
          /\ Alive(x)' /\ scope'[x].kind # "pinned" /\ Rests(x)' =>
                \/ Rests(x)
                \/ \A s \in DOMAIN scope : x <= s => ~Pending(s)'
    /\ \A x \in DOMAIN scope' \ DOMAIN scope : ~Rests(x)'

BodyStep ==
    /\ scope[1].pc = "body" /\ scope'[1].pc # "body" =>
          ~Scratching(1) /\ DOMAIN scope' = DOMAIN scope
    /\ \A x \in DOMAIN scope' \ DOMAIN scope :
          scope'[x].up = 1 => scope'[1].pc = "body"

Returns ==
    /\ Alive(1) /\ ~Alive(1)' /\ DOMAIN scope' = DOMAIN scope
    /\ scope[1].kind # "pinned" \/ scope[1].pc \in Ending
    /\ \A x \in DOMAIN scope : ~Pending(x)'

ClientStep == client' \in {client, "destroyed"} \/ Returns

Moves == QueueGrows /\ Calm /\ BodyStep /\ ClientStep

LEMMA QuietStep ==
    ASSUME CoreInv, LevelInv, QuietInv, Preserved, QueueGrows, Calm,
           RecoversPoisoned'
    PROVE  QuietInv'
<1>1. Fates /\ AskedKept /\ JobInv /\ TypeOK /\ StackInv
  BY DEF Preserved, CoreInv, ShapeInv
<1>2. DOMAIN scope \subseteq Nat
  <2>1. DOMAIN scope = 1..Len(scope) /\ Len(scope) \in Nat
    BY <1>1, Typed
  <2> QED
    BY <2>1
<1>3. ASSUME NEW t \in DOMAIN scope, NEW s, Alive(t), t <= s,
             scope[t].kind # "pinned", Rests(t)
      PROVE  ~Usable(s)
  <2>1. scope[t].closing \/ scope[t].poison
    BY <1>3 DEF Rests, QuietInv, CoreInv, ShapeInv, ScopeInv
  <2>2. OnStack(t)
    BY <1>1, <1>3 DEF StackInv
  <2> QED
    BY <2>1, <2>2 DEF Usable, Admitted, OnStack
<1>4. ASSUME NEW s, Pending(s)'
      PROVE  s \in DOMAIN scope /\ (Pending(s) \/ Usable(s))
  <2>1. PICK i \in DOMAIN queue' :
           queue'[i].what \in Asked /\ queue'[i].of = s
    BY <1>4 DEF Pending
  <2>2. CASE \E k \in DOMAIN queue : queue'[i] = queue[k]
    <3>1. PICK k \in DOMAIN queue : queue'[i] = queue[k]
      BY <2>2
    <3>2. queue[k].of \in DOMAIN scope
      BY <1>1 DEF JobInv, JobFits
    <3> QED
      BY <2>1, <3>1, <3>2 DEF Pending
  <2>3. CASE MayJoin(queue'[i])
    <3>1. Usable(s)
      BY <2>1, <2>3 DEF MayJoin
    <3>2. s \in DOMAIN scope
      <4>1. /\ stack \in Seq(Scopes)
            /\ DOMAIN stack = 1..Len(stack) /\ Len(stack) \in Nat
        BY <1>1, Typed
      <4>2. Len(stack) \in DOMAIN stack /\ stack[Len(stack)] = s
        BY <3>1, <4>1 DEF Usable, Admitted, Top
      <4> QED
        BY <1>1, <4>2 DEF StackInv
    <3> QED
      BY <3>1, <3>2
  <2> QED
    BY <1>1, <2>2, <2>3 DEF AskedKept
<1>5. ASSUME NEW s \in DOMAIN scope', Alive(s)', scope'[s].undone
      PROVE  scope'[s].poison \/ scope'[s].closing
  <2>1. s \in DOMAIN scope
    BY <1>5 DEF Calm, Rests
  <2>2. CASE scope[s].undone
    <3>1. Alive(s) /\ (scope[s].poison \/ scope[s].closing)
      BY <1>1, <1>5, <2>1, <2>2 DEF Fates, QuietInv
    <3> QED
      BY <1>1, <1>5, <2>1, <3>1 DEF Fates
  <2> QED
    BY <1>5, <2>1, <2>2 DEF Calm
<1>6. ASSUME NEW t \in DOMAIN scope', NEW s \in DOMAIN scope', Alive(t)',
             t <= s, scope'[t].kind # "pinned", Rests(t)', Pending(s)'
      PROVE  FALSE
  <2>1. t \in DOMAIN scope /\ s \in DOMAIN scope
    BY <1>4, <1>6 DEF Calm
  <2>2. Alive(t) /\ scope[t].kind # "pinned"
    BY <1>1, <1>6, <2>1 DEF Fates
  <2>3. Rests(t)
    BY <1>6, <2>1 DEF Calm
  <2>4. ~Pending(s)
    BY <1>6, <2>1, <2>2, <2>3 DEF QuietInv
  <2>5. ~Usable(s)
    BY <1>3, <1>6, <2>1, <2>2, <2>3
  <2> QED
    BY <1>4, <1>6, <2>4, <2>5
<1>7. PICK q : Rest(q) /\ Joins(q)
  BY DEF QueueGrows, Rest, Served
<1>8. /\ q \in Seq(JobRecord) /\ Len(q) \in Nat /\ DOMAIN q = 1..Len(q)
      /\ \E d \in {0, 1} : \A i \in DOMAIN q :
            i + d \in DOMAIN queue /\ q[i] = queue[i + d]
  BY <1>1, <1>7, RestOfQueue
<1>9. ASSUME NEW i \in DOMAIN q, NEW j \in DOMAIN q,
             q[i].what \in Asked, q[j].what = "recover",
             scope'[q[j].of].pc # "done", q[j].of <= q[i].of
      PROVE  i < j
  <2>1. PICK d \in {0, 1} : \A k \in DOMAIN q :
           k + d \in DOMAIN queue /\ q[k] = queue[k + d]
    BY <1>8
  <2>2. q[j].of \in DOMAIN scope
    BY <1>1, <2>1 DEF JobInv, JobFits
  <2>3. Alive(q[j].of)
    BY <1>1, <1>9, <2>2 DEF Fates, Alive
  <2>4. i + d < j + d
    BY <1>9, <2>1, <2>3 DEF QuietInv
  <2> QED
    BY <1>8, <2>4
<1>10. ASSUME NEW i \in DOMAIN queue', NEW j \in DOMAIN queue',
              queue'[i].what \in Asked, queue'[j].what = "recover",
              scope'[queue'[j].of].pc # "done", queue'[j].of <= queue'[i].of
       PROVE  i < j
  <2>1. CASE queue' = q
    BY <1>9, <1>10, <2>1
  <2>2. CASE queue' # q
    <3>1. PICK job \in JobRecord :
             /\ job.what \in Asked => Usable(job.of)
             /\ queue' = Append(q, job)
      BY <1>7, <2>2 DEF Joins
    <3> DEFINE n == Len(q) + 1
    <3>2. /\ DOMAIN queue' = 1..n /\ queue'[n] = job
          /\ \A k \in DOMAIN q : queue'[k] = q[k] /\ k < n
          /\ \A k \in DOMAIN queue' : k \in DOMAIN q \/ k = n
      <4> HIDE DEF JobRecord
      <4> QED
        BY <1>8, <3>1, Appended
    <3> HIDE DEF n
    <3>3. CASE i \in DOMAIN q /\ j \in DOMAIN q
      BY <1>9, <1>10, <3>2, <3>3
    <3>4. CASE i \in DOMAIN q /\ j = n
      BY <3>2, <3>4
    <3>5. CASE i = n /\ j = n
      BY <1>10, <3>2, <3>5 DEF Asked
    <3>6. CASE i = n /\ j \in DOMAIN q
      <4>1. PICK k \in DOMAIN queue : q[j] = queue[k]
        BY <1>8, <3>6
      <4>2. queue'[j] = queue[k]
        BY <3>2, <3>6, <4>1
      <4>3. queue[k].of \in DOMAIN scope
        BY <1>1 DEF JobInv, JobFits
      <4>4. Alive(queue[k].of)
        BY <1>1, <1>10, <4>2, <4>3 DEF Fates, Alive
      <4>5. scope[queue[k].of].poison /\ OnStack(queue[k].of)
        BY <1>1, <1>10, <4>2, <4>3, <4>4
        DEF LevelInv, StreamInv, RecoversPoisoned, StackInv
      <4>6. ~Usable(job.of)
        BY <4>5 DEF Usable, Admitted, OnStack
      <4> QED
        BY <1>10, <3>1, <3>2, <3>6, <4>6
    <3> QED
      BY <3>2, <3>3, <3>4, <3>5, <3>6
  <2> QED
    BY <2>1, <2>2
<1> QED
  BY <1>5, <1>6, <1>10 DEF QuietInv, Alive

LEMMA HomeStep ==
    ASSUME CoreInv, HomeInv, Preserved, BodyStep
    PROVE  HomeInv'
<1>1. Fates /\ 1 \in DOMAIN scope
  BY Typed DEF Preserved, CoreInv
<1>2. SUFFICES ASSUME AwaitsScratch, scope'[1].kind = "pinned",
                      scope'[1].pc # "body", NEW c \in DOMAIN scope',
                      scope'[c].up = 1, scope'[c].undo
               PROVE  ~Alive(c)'
  BY DEF HomeInv, Children
<1>3. c \in DOMAIN scope
  BY <1>2 DEF BodyStep
<1>4. scope[c].up = 1 /\ scope[c].undo /\ scope[1].kind = "pinned"
  BY <1>1, <1>2, <1>3 DEF Fates
<1>5. CASE scope[1].pc # "body"
  <2>1. ~Alive(c)
    BY <1>2, <1>3, <1>4, <1>5 DEF HomeInv, Children
  <2> QED
    BY <1>1, <1>3, <2>1 DEF Fates
<1>6. CASE scope[1].pc = "body"
  <2>1. ~Scratching(1)
    BY <1>2, <1>6 DEF BodyStep
  <2>2. ~Alive(c)
    BY <1>2, <1>3, <1>4, <2>1 DEF Scratching, Children, Alive
  <2> QED
    BY <1>1, <1>3, <2>2 DEF Fates
<1> QED
  BY <1>5, <1>6

(* The root is the last of the scopes to be left.                          *)
LEMMA LastOne ==
    ASSUME CoreInv, HomeInv, Fates, AwaitsScratch, AwaitsStreams,
           Alive(1), ~Alive(1)',
           scope[1].kind # "pinned" \/ scope[1].pc \in Ending,
           NEW x \in DOMAIN scope, Alive(x)
    PROVE  x = 1
<1>1. /\ TypeOK /\ StackInv /\ \A s \in DOMAIN scope : ScopeInv(s)
      /\ 1 \in DOMAIN scope
      /\ DOMAIN stack = 1..Len(stack) /\ Len(stack) \in Nat
  BY Typed DEF CoreInv, ShapeInv
<1>2. \A s \in DOMAIN scope : s \in Nat /\ s >= 1
  <2>1. DOMAIN scope = 1..Len(scope) /\ Len(scope) \in Nat
    BY <1>1, Typed
  <2> QED
    BY <2>1
<1>3. CASE scope[1].kind # "pinned"
  <2>1. Top(1)
    BY <1>1, <1>3 DEF Fates
  <2>2. x <= 1
    BY <2>1, TopIsLast
  <2> QED
    BY <1>2, <2>2
<1>4. CASE scope[1].kind = "pinned" /\ x # 1
  <2>1. PICK i \in DOMAIN stack, j \in DOMAIN stack :
           stack[i] = 1 /\ stack[j] = x
    BY <1>1 DEF StackInv, OnStack
  <2>2. i # j
    BY <1>4, <2>1
  <2>3. 1 \in DOMAIN stack /\ 2 \in DOMAIN stack
    BY <1>1, <2>2
  <2>4. stack[1] = 1
    <3>1. i = 1 \/ 1 < i
      BY <1>1
    <3>2. 1 < i => stack[1] < stack[i]
      BY <1>1, <2>3 DEF StackInv
    <3>3. stack[1] \in DOMAIN scope
      BY <1>1, <2>3 DEF StackInv
    <3> QED
      BY <1>2, <2>1, <3>1, <3>2, <3>3
  <2>5. PICK c \in DOMAIN scope : c = stack[2]
    BY <1>1, <2>3 DEF StackInv
  <2>6. scope[c].up = 1 /\ Alive(c)
    <3>1. scope[stack[2]].up = stack[2 - 1]
      BY <1>1, <2>3 DEF StackInv
    <3>2. OnStack(c)
      BY <2>3, <2>5 DEF OnStack
    <3> QED
      BY <1>1, <2>4, <2>5, <3>1, <3>2 DEF StackInv
  <2>7. c \in Children(1)
    BY <2>6 DEF Children
  <2>8. scope[c].settled # "open" /\ scope[1].pc # "body"
    BY <1>1, <1>4, <2>7 DEF ScopeInv, Ending
  <2>9. scope[c].undo
    BY <1>1, <2>6, <2>8 DEF ScopeInv
  <2> QED
    BY <1>4, <2>6, <2>7, <2>8, <2>9 DEF HomeInv
<1> QED
  BY <1>3, <1>4

LEMMA ReturnsClean ==
    ASSUME CoreInv, HomeInv, Preserved, AwaitsScratch, AwaitsStreams, Returns
    PROVE  CleanReturn'
<1>1. /\ Fates /\ StackInv' /\ JobInv' /\ MarkInv' /\ TypeOK'
      /\ DOMAIN scope' = DOMAIN scope
  BY PreservedCore DEF Preserved, CoreInv, ShapeInv, Returns
<1>2. \A x \in DOMAIN scope' : ~Alive(x)'
  BY <1>1, LastOne DEF Returns, Fates
<1>3. stack' = <<>>
  <2>1. DOMAIN stack' = {}
    BY <1>1, <1>2 DEF StackInv, OnStack
  <2>2. stack' \in Seq(Scopes)
    BY DEF Preserved, ScopesTyped, Scopes
  <2> QED
    BY <2>1, <2>2
<1>4. marks' = <<>>
  BY <1>1, <1>3 DEF MarkInv, OnStack
<1>5. ASSUME NEW i \in DOMAIN queue'
      PROVE  queue'[i].what \in {"recover", "close"}
  <2>1. JobFits(queue[i])'
    BY <1>1 DEF JobInv
  <2>2. queue'[i].of \in DOMAIN scope'
    BY <2>1 DEF JobFits
  <2>3. queue'[i].what \notin Control
    <3> SUFFICES ASSUME queue'[i].what \in Control PROVE FALSE
      OBVIOUS
    <3>1. scope'[queue'[i].of].pc \in Stage(queue'[i].what)
      BY <2>1 DEF JobFits
    <3>2. scope'[queue'[i].of].pc = "done"
      BY <1>2, <2>2 DEF Alive
    <3> QED
      BY <3>1, <3>2 DEF Stage
  <2>4. queue'[i].what \notin Asked
    BY <1>1, <2>2 DEF Returns, Pending
  <2>5. queue'[i].what \in What
    <3>1. queue' \in Seq(JobRecord)
      BY DEF Preserved, ScopesTyped, JobRecord, Scopes
    <3>2. queue'[i] \in JobRecord
      <4> HIDE DEF JobRecord
      <4> QED
        BY <3>1
    <3> QED
      BY <3>2 DEF JobRecord
  <2> QED
    BY <2>3, <2>4, <2>5 DEF What, Control, Asked
<1> QED
  BY <1>3, <1>4, <1>5 DEF CleanReturn

(* Once it is back, only what streams still send is served.                *)
LEMMA CleanStays ==
    ASSUME CoreInv, CleanReturn, client = "returned", Next
    PROVE  CleanReturn'
<1>1. /\ marks = <<>> /\ stack = <<>>
      /\ \A i \in DOMAIN queue : queue[i].what \in {"recover", "close"}
  BY DEF CleanReturn
<1>2. \A x : ~OnStack(x)
  BY <1>1 DEF OnStack
<1>3. \A x \in DOMAIN scope : scope[x].pc = "done"
  BY <1>2 DEF CoreInv, ShapeInv, StackInv, Alive
<1>4. /\ \A s : ~Callback(s) /\ ~Fetch(s) /\ ~Regroup(s)
      /\ ~Lose /\ ~Abort
  BY <1>3 DEF Callback, InBody, Fetch, Called, Regroup, Lose, Abort
<1>5. Serve
  BY <1>4 DEF Next
<1>6. queue # <<>>
  BY <1>5 DEF Serve, ServeBegin, ServeSavepoint, Refuse, WorkRuns, WorkFails,
     ServeFetch, ServeRecover, ServeClose, ServeRaw, ServeDrain, ServeCommit,
     ServeUndo, ServeRelease, ServeRevert, ServeForget, At
<1>7. /\ 1 \in DOMAIN queue /\ Rest(Served)
      /\ queue[1].what \in {"recover", "close"}
  <2>1. DOMAIN queue = 1..Len(queue) /\ Len(queue) \in Nat
        /\ queue \in Seq(JobRecord)
    BY Typed DEF CoreInv
  <2>2. 1 \in DOMAIN queue
    <3> HIDE DEF JobRecord
    <3> QED
      BY <1>6, <2>1
  <2> QED
    BY <1>1, <1>6, <2>2, FirstInQueue
<1>8. ServeRecover \/ ServeClose
  BY <1>5, <1>7 DEF Serve, ServeBegin, ServeSavepoint, Refuse, WorkRuns,
     WorkFails, ServeFetch, ServeRaw, ServeDrain, ServeCommit, ServeUndo,
     ServeRelease, ServeRevert, ServeForget, At
<1>9. /\ queue' = Served /\ marks' = marks /\ stack' = stack
  BY <1>2, <1>8 DEF ServeRecover, ServeClose, SameServer, serverVars, Error
<1>10. \A i \in DOMAIN Served : \E k \in DOMAIN queue : Served[i] = queue[k]
  BY <1>7, RestOfQueue DEF CoreInv
<1> QED
  BY <1>1, <1>9, <1>10 DEF CleanReturn

-----------------------------------------------------------------------------
(* The steps.                                                              *)

Exit(s, sc, q) ==
    \/ Wait(s, sc, q)
    \/ Fail(s, sc, q)
    \/ \E pc \in Progress, what \in Control : Proceed(s, pc, what, sc, q)
    \/ \E v \in {"resolved", "rejected"} : Leave(s, v, sc, q)

LEMMA ExitOf ==
    ASSUME NEW s, NEW sc, NEW q, Exit(s, sc, q)
    PROVE  /\ DOMAIN scope' = DOMAIN sc
           /\ \A x \in DOMAIN sc : x # s => scope'[x] = sc[x]
           /\ \/ queue' = q
              \/ \E what \in Control : queue' = Append(q, Job(what, s, 0))
<1>1. CASE Wait(s, sc, q)
  BY <1>1 DEF Wait
<1>2. ASSUME NEW pc \in Progress, NEW what \in Control,
             Proceed(s, pc, what, sc, q)
      PROVE  /\ DOMAIN scope' = DOMAIN sc
             /\ \A x \in DOMAIN sc : x # s => scope'[x] = sc[x]
             /\ queue' = Append(q, Job(what, s, 0))
  BY <1>2 DEF Proceed
<1>3. CASE Fail(s, sc, q)
  <2>1. PICK t : t = [sc EXCEPT ![s].closing = TRUE]
    OBVIOUS
  <2>2. DOMAIN t = DOMAIN sc /\ \A x \in DOMAIN sc : x # s => t[x] = sc[x]
    BY <2>1
  <2>3. CASE Wait(s, t, q)
    BY <2>2, <2>3 DEF Wait
  <2>4. CASE Proceed(s, "undoing", "undo", t, q)
    BY <2>2, <2>4 DEF Proceed, Control
  <2> QED
    BY <1>3, <2>1, <2>3, <2>4 DEF Fail
<1>4. ASSUME NEW v \in {"resolved", "rejected"}, Leave(s, v, sc, q)
      PROVE  /\ DOMAIN scope' = DOMAIN sc
             /\ \A x \in DOMAIN sc : x # s => scope'[x] = sc[x]
             /\ queue' = q
  BY <1>4 DEF Leave
<1> QED
  BY <1>1, <1>2, <1>3, <1>4 DEF Exit

(* Only leaving the root gives the client back.                            *)
LEMMA ExitClient ==
    ASSUME TypeOK, NEW s \in DOMAIN scope,
           NEW sc \in [DOMAIN scope -> ScopeRecord],
           NEW q, Exit(s, sc, q), client' # client
    PROVE  /\ s = 1
           /\ \E v \in {"resolved", "rejected"} : Leave(s, v, sc, q)
           /\ ~Alive(1)'
<1>1. ~Wait(s, sc, q) /\ ~Fail(s, sc, q)
  BY DEF Wait, Fail, Proceed
<1>2. PICK v \in {"resolved", "rejected"} : Leave(s, v, sc, q)
  BY <1>1 DEF Exit, Proceed
<1>3. s = 1
  BY <1>2 DEF Leave
<1>4. scope'[s].pc = "done"
  <2>1. scope' = [sc EXCEPT ![s] = Left(sc[s], v)]
    BY <1>2 DEF Leave, Left
  <2>2. sc[s] \in ScopeRecord
    OBVIOUS
  <2>3. Left(sc[s], v).pc = "done"
    BY <2>2, LeftRecord
  <2> HIDE DEF ScopeRecord, Left
  <2> QED
    BY <2>1, <2>3
<1> QED
  BY <1>2, <1>3, <1>4 DEF Alive

LEMMA ExitGrows ==
    ASSUME CoreInv, NEW s \in DOMAIN scope, NEW sc, NEW q \in {queue, Served},
           q = queue \/ queue # <<>>, Exit(s, sc, q)
    PROVE  QueueGrows
<1>1. s \in Scopes /\ 0 \in 0..MaxWork
  BY Typed, ScopeAssumption DEF CoreInv
<1>2. \A what \in Control :
         Job(what, s, 0) \in JobRecord /\ Job(what, s, 0).what \notin Asked
  BY <1>1 DEF Job, JobRecord, What, Control, Asked
<1>3. Joins(q)
  BY <1>2, ExitOf DEF Joins
<1> QED
  BY <1>3 DEF QueueGrows

LEMMA MovesEnd ==
    ASSUME CoreInv, Preserved, NEW s, s = Of, s \in DOMAIN scope,
           queue # <<>>, queue[1].what \in Control, Alive(s),
           scope[s].closing, scope[s].pc \notin {"opening", "body", "waiting"},
           NEW sc \in {scope, Undone(s), PoisonStack}, Exit(s, sc, Served)
    PROVE  Moves
<1>1. TypeOK /\ ShapeInv /\ ScopeInv(s) /\ Fates /\ 1 \in DOMAIN scope
  BY Typed DEF CoreInv, ShapeInv, Preserved
<1>2. /\ Touched(sc, s) /\ sc \in [DOMAIN scope -> ScopeRecord]
      /\ \A x \in DOMAIN scope : x # s => sc[x].undone = scope[x].undone
  <2>1. Touched(sc, s)
    BY <1>1, TouchedNone, TouchedUndone, TouchedPoisoned
  <2>2. \A x \in DOMAIN scope : x # s => sc[x].undone = scope[x].undone
    BY <1>1, TouchedUndone, TouchedPoisoned
  <2> QED
    BY <2>1, <2>2 DEF Touched
<1>3. /\ DOMAIN scope' = DOMAIN scope
      /\ \A x \in DOMAIN scope :
            x # s => /\ scope'[x].pc = scope[x].pc
                     /\ scope'[x].undone = scope[x].undone
  <2>1. DOMAIN sc = DOMAIN scope
    BY <1>2
  <2>2. /\ DOMAIN scope' = DOMAIN scope
        /\ \A x \in DOMAIN scope : x # s => scope'[x] = sc[x]
    BY <2>1, ExitOf
  <2> QED
    BY <1>2, <2>2 DEF Touched
<1>4. \A x \in DOMAIN scope : s <= x => ~Pending(x)'
  BY NoneAfterTheEnd
<1>5. QueueGrows
  BY ExitGrows
<1>6. Calm
  BY <1>1, <1>3, <1>4 DEF Calm, Rests, Fates
<1>7. BodyStep
  BY <1>1, <1>3 DEF BodyStep
<1>8. ClientStep
  <2> SUFFICES ASSUME client' # client PROVE Returns
    BY DEF ClientStep
  <2>1. s = 1 /\ ~Alive(1)'
    BY <1>1, <1>2, ExitClient
  <2>2. scope[1].kind # "pinned" \/ scope[1].pc \in Ending
    <3>1. scope[1].pc \in Progress
      BY <1>1, Typed DEF ScopeRecord
    <3> QED
      BY <1>1, <2>1, <3>1 DEF ScopeInv, Progress, Ending, Alive
  <2>3. \A x \in DOMAIN scope : 1 <= x
    <3>1. DOMAIN scope = 1..Len(scope) /\ Len(scope) \in Nat
      BY <1>1, Typed
    <3> QED
      BY <3>1
  <2> QED
    BY <1>3, <1>4, <2>1, <2>2, <2>3 DEF Returns
<1> QED
  BY <1>5, <1>6, <1>7, <1>8 DEF Moves

LEMMA EndsMove ==
    ASSUME CoreInv, Preserved,
           \/ ServeDrain \/ ServeCommit \/ ServeUndo \/ ServeRelease
           \/ ServeRevert \/ ServeForget
    PROVE  Moves
<1>0. PICK s : s = Of
  OBVIOUS
<1>1. /\ queue # <<>>
      /\ queue[1].what \in {"drain", "commit", "undo", "release", "revert",
                            "forget"}
  BY DEF ServeDrain, ServeCommit, ServeUndo, ServeRelease, ServeRevert,
         ServeForget, At
<1>2. /\ queue[1].what \in Control
      /\ \A e \in Stage(queue[1].what) :
            e \notin {"opening", "body", "waiting"}
  BY <1>1 DEF Control, Stage
<1>3. /\ s \in DOMAIN scope /\ Alive(s)
      /\ scope[s].pc \notin {"opening", "body", "waiting"}
  BY <1>0, <1>1, <1>2, FirstInQueue
<1>4. scope[s].closing
  BY <1>3 DEF CoreInv, ShapeInv, ScopeInv
<1>5. /\ {"cleaning", "committing", "releasing", "reverting", "forgetting"}
            \subseteq Progress
      /\ {"undo", "commit", "release", "revert", "forget"} \subseteq Control
  BY DEF Progress, Control
<1>6. CASE ServeDrain
  <2>1. Exit(s, scope, Served)
    BY <1>0, <1>5, <1>6 DEF ServeDrain, Exit
  <2> QED
    BY <1>0, <1>1, <1>2, <1>3, <1>4, <2>1, MovesEnd
<1>7. CASE ServeCommit
  <2>1. Exit(s, scope, Served)
    BY <1>0, <1>7 DEF ServeCommit, Exit
  <2> QED
    BY <1>0, <1>1, <1>2, <1>3, <1>4, <2>1, MovesEnd
<1>8. CASE ServeUndo
  <2>1. Exit(s, scope, Served) \/ Exit(s, Undone(s), Served)
    BY <1>0, <1>5, <1>8 DEF ServeUndo, Exit, Undone
  <2> QED
    BY <1>0, <1>1, <1>2, <1>3, <1>4, <2>1, MovesEnd
<1>9. CASE ServeRelease
  <2>1. Exit(s, scope, Served)
    BY <1>0, <1>5, <1>9 DEF ServeRelease, Exit
  <2> QED
    BY <1>0, <1>1, <1>2, <1>3, <1>4, <2>1, MovesEnd
<1>10. CASE ServeRevert
  <2>1. Exit(s, scope, Served) \/ Exit(s, PoisonStack, Served)
    BY <1>0, <1>5, <1>10 DEF ServeRevert, Exit
  <2> QED
    BY <1>0, <1>1, <1>2, <1>3, <1>4, <2>1, MovesEnd
<1>11. CASE ServeForget
  <2>1. Exit(s, scope, Served)
    BY <1>0, <1>11 DEF ServeForget, Exit
  <2> QED
    BY <1>0, <1>1, <1>2, <1>3, <1>4, <2>1, MovesEnd
<1> QED
  BY <1>6, <1>7, <1>8, <1>9, <1>10, <1>11

(* A step after which every scope is where it was.                         *)
LEMMA MovesStill ==
    ASSUME CoreInv, DOMAIN scope' = DOMAIN scope, QueueGrows,
           \A x \in DOMAIN scope : /\ scope'[x].pc = scope[x].pc
                                   /\ scope'[x].undone = scope[x].undone,
           client' \in {client, "destroyed"}
    PROVE  Moves
<1>1. 1 \in DOMAIN scope
  BY Typed DEF CoreInv
<1> QED
  BY <1>1 DEF Moves, Calm, Rests, BodyStep, ClientStep

LEMMA PoisonedStill ==
    ASSUME CoreInv, NEW s \in DOMAIN scope,
           \/ scope' = scope \/ scope' = PoisonStack
           \/ scope' = PoisonSelf(s) /\ Top(s)
    PROVE  /\ DOMAIN scope' = DOMAIN scope
           /\ \A x \in DOMAIN scope : /\ scope'[x].pc = scope[x].pc
                                      /\ scope'[x].undone = scope[x].undone
<1>1. CASE scope' = scope
  BY <1>1
<1>2. CASE scope' = PoisonStack \/ (scope' = PoisonSelf(s) /\ Top(s))
  <2>1. /\ Touched(scope', s)
        /\ \A x \in DOMAIN scope : scope'[x].undone = scope[x].undone
    BY <1>2, TouchedPoisoned DEF CoreInv
  <2> QED
    BY <2>1 DEF Touched
<1> QED
  BY <1>1, <1>2

LEMMA AnswersMove ==
    ASSUME CoreInv, RecoversPoisoned',
           \/ Refuse \/ WorkRuns \/ WorkFails \/ ServeFetch \/ ServeClose
           \/ ServeRaw
    PROVE  Moves
<1>0. PICK s : s = Of
  OBVIOUS
<1>1. queue # <<>>
  BY DEF Refuse, WorkRuns, WorkFails, ServeFetch, ServeClose, ServeRaw, At
<1>2. s \in DOMAIN scope
  BY <1>0, <1>1, FirstInQueue
<1>3. /\ \/ scope' = scope \/ scope' = PoisonStack
         \/ scope' = PoisonSelf(s) /\ Top(s)
      /\ client' = client
      /\ queue' = Served \/ queue' = Append(Served, Job("recover", s, 0))
  BY <1>0 DEF Refuse, WorkRuns, WorkFails, ServeFetch, ServeClose, ServeRaw,
     Admitted
<1>4. /\ Job("recover", s, 0) \in JobRecord
      /\ Job("recover", s, 0).what \notin Asked
  <2>1. s \in Scopes /\ 0 \in 0..MaxWork
    BY <1>2, Typed, ScopeAssumption DEF CoreInv
  <2> QED
    BY <2>1 DEF Job, JobRecord, What, Asked
<1>5. QueueGrows
  BY <1>1, <1>3, <1>4 DEF QueueGrows, Joins
<1> QED
  BY <1>2, <1>3, <1>5, PoisonedStill, MovesStill

LEMMA RecoverMoves ==
    ASSUME CoreInv, LevelInv, QuietInv, Preserved, ServeRecover,
           RecoversPoisoned'
    PROVE  Moves
<1>0. PICK s : s = Of
  OBVIOUS
<1>1. /\ queue # <<>> /\ queue[1].what = "recover" /\ queue[1].of = s
  BY <1>0 DEF ServeRecover, At, Of
<1>2. s \in DOMAIN scope /\ 1 \in DOMAIN queue /\ DOMAIN queue \subseteq Nat
      /\ \A i \in DOMAIN queue : ~(i < 1)
  <2>1. DOMAIN queue = 1..Len(queue) /\ Len(queue) \in Nat
        /\ queue \in Seq(JobRecord)
    BY Typed DEF CoreInv
  <2>2. 1 \in DOMAIN queue
    <3> HIDE DEF JobRecord
    <3> QED
      BY <1>1, <2>1
  <2> QED
    BY <1>0, <1>1, <2>1, <2>2, FirstInQueue
<1>3. /\ scope' \in {scope, Undone(s)} /\ client' = client
      /\ queue' = Served \/ queue' = Append(Served, Job("close", s, 0))
  BY <1>0 DEF ServeRecover, CloseAfter, Undone
<1>4. Job("close", s, 0) \in JobRecord /\ Job("close", s, 0).what \notin Asked
  <2>1. s \in Scopes /\ 0 \in 0..MaxWork
    BY <1>2, Typed, ScopeAssumption DEF CoreInv
  <2> QED
    BY <2>1 DEF Job, JobRecord, What, Asked
<1>5. QueueGrows
  BY <1>1, <1>3, <1>4 DEF QueueGrows, Joins
<1>6. scope[s].pc # "opening"
  BY <1>1, <1>2 DEF CoreInv, JobInv, JobFits, Control
<1>7. /\ DOMAIN scope' = DOMAIN scope
      /\ \A x \in DOMAIN scope :
            /\ scope'[x].pc = scope[x].pc
            /\ x # s => scope'[x].undone = scope[x].undone
  <2>1. CASE scope' = scope
    BY <2>1
  <2>2. CASE scope' = Undone(s)
    <3>1. /\ Touched(scope', s)
          /\ \A x \in DOMAIN scope : x # s => scope'[x] = scope[x]
      BY <1>2, <1>6, <2>2, TouchedUndone DEF CoreInv
    <3> QED
      BY <3>1 DEF Touched
  <2> QED
    BY <1>3, <2>1, <2>2
<1>8. ASSUME Alive(s)'
      PROVE  scope'[s].poison /\ \A x \in DOMAIN scope : s <= x => ~Pending(x)'
  <2>1. Alive(s)
    BY <1>2, <1>7, <1>8 DEF Alive
  <2>2. scope[s].poison /\ OnStack(s)
    BY <1>1, <1>2, <2>1
    DEF LevelInv, StreamInv, RecoversPoisoned, CoreInv, ShapeInv, StackInv
  <2>3. scope'[s].poison
    BY <1>2, <1>8, <2>2 DEF Preserved, Fates
  <2>4. \A x : ~Usable(x)
    BY <2>2 DEF Usable, Admitted, OnStack
  <2>5. \A x \in DOMAIN scope : s <= x => ~Pending(x)
    BY <1>1, <1>2, <2>1 DEF QuietInv, Pending
  <2>6. \A x \in DOMAIN scope : s <= x => ~Pending(x)'
    BY <2>4, <2>5 DEF Pending, Preserved, AskedKept, MayJoin
  <2> QED
    BY <2>3, <2>6
<1>9. Calm
  BY <1>7, <1>8 DEF Calm, Rests
<1>10. BodyStep /\ ClientStep
  <2>1. 1 \in DOMAIN scope
    BY Typed DEF CoreInv
  <2> QED
    BY <1>3, <1>7, <2>1 DEF BodyStep, ClientStep
<1> QED
  BY <1>5, <1>9, <1>10 DEF Moves

LEMMA BeginMoves ==
    ASSUME CoreInv, ServeBegin
    PROVE  Moves
<1>0. PICK s : s = Of
  OBVIOUS
<1>1. /\ Preserved /\ DOMAIN scope' = DOMAIN scope
      /\ s \in DOMAIN scope /\ scope[s].pc = "opening"
      /\ \A x \in DOMAIN scope : x # s => scope'[x] = scope[x]
      /\ ~scope'[s].undone /\ queue' = Served
  BY <1>0, BeginKeeps
<1>2. /\ queue # <<>> /\ queue[1].what \in Control /\ client' = client
  BY DEF ServeBegin, At, Control, Wait
<1>3. \A x \in DOMAIN scope : s <= x => ~Pending(x)'
  BY <1>0, <1>1, <1>2, NoneAfterTheEnd DEF Alive
<1>4. QueueGrows
  BY <1>1, <1>2 DEF QueueGrows, Joins
<1>5. Calm
  BY <1>1, <1>3 DEF Calm, Rests
<1>6. BodyStep /\ ClientStep
  <2>1. 1 \in DOMAIN scope
    BY Typed DEF CoreInv
  <2> QED
    BY <1>1, <1>2, <2>1 DEF BodyStep, ClientStep
<1> QED
  BY <1>4, <1>5, <1>6 DEF Moves

LEMMA SavepointMoves ==
    ASSUME CoreInv, ServeSavepoint
    PROVE  Moves
<1>0. PICK s : s = Of
  OBVIOUS
<1>1. /\ Preserved /\ DOMAIN scope' = DOMAIN scope
      /\ s \in DOMAIN scope /\ scope[s].pc = "opening"
      /\ \A x \in DOMAIN scope : x # s => scope'[x] = scope[x]
      /\ Alive(s)' => /\ ~scope'[s].undone
                      /\ scope'[s].pc \in {"opening", "body"}
  BY <1>0, SavepointKeeps
<1>2. /\ queue # <<>> /\ queue[1].what = "savepoint"
  BY DEF ServeSavepoint, At
<1>3. s # 1
  BY <1>0, <1>1, <1>2, FirstInQueue DEF JobFits, CoreInv, ShapeInv, ScopeInv,
     Of
<1>4. client' = client
  BY <1>0, <1>3 DEF ServeSavepoint, BeginInstead, Leave
<1>5. queue' = Served \/ queue' = Append(Served, Job("begin", s, 0))
  BY <1>0 DEF ServeSavepoint, BeginInstead, Leave
<1>6. Job("begin", s, 0) \in JobRecord /\ Job("begin", s, 0).what \notin Asked
  <2>1. s \in Scopes /\ 0 \in 0..MaxWork
    BY <1>1, Typed, ScopeAssumption DEF CoreInv
  <2> QED
    BY <2>1 DEF Job, JobRecord, What, Asked
<1>7. QueueGrows
  BY <1>2, <1>5, <1>6 DEF QueueGrows, Joins
<1>8. Calm
  BY <1>1 DEF Calm, Rests
<1>9. BodyStep /\ ClientStep
  <2>1. 1 \in DOMAIN scope
    BY Typed DEF CoreInv
  <2> QED
    BY <1>1, <1>3, <1>4, <2>1 DEF BodyStep, ClientStep
<1> QED
  BY <1>7, <1>8, <1>9 DEF Moves

LEMMA OpenMoves ==
    ASSUME CoreInv, NEW s \in DOMAIN scope, scope[s].pc = "body",
           NEW undo \in BOOLEAN, NEW awaited \in BOOLEAN,
           NEW settled \in {"open", "resolved"},
           Open(s, undo, awaited, settled)
    PROVE  Moves
<1>1. /\ Preserved /\ DOMAIN scope \subseteq DOMAIN scope'
      /\ \A x \in DOMAIN scope : scope'[x] = scope[x]
      /\ \A x \in DOMAIN scope' \ DOMAIN scope :
            /\ scope'[x].pc \in {"opening", "done"}
            /\ scope'[x].up = s /\ ~scope'[x].undone
  BY OpenKeeps
<1>2. 1 \in DOMAIN scope /\ client' = client
  BY Typed DEF CoreInv, Open
<1>3. PICK n, what : /\ n = Len(scope) + 1 /\ what \in {"savepoint", "begin"}
                     /\ queue' \in {queue, Append(queue, Job(what, n, 0))}
                     /\ Len(scope) < MaxScope
  BY DEF Open
<1>4. Job(what, n, 0) \in JobRecord /\ Job(what, n, 0).what \notin Asked
  <2>1. n \in Scopes /\ 0 \in 0..MaxWork
    <3>1. Len(scope) \in Nat
      BY Typed DEF CoreInv
    <3> QED
      BY <1>3, <3>1, ScopeAssumption DEF Scopes
  <2> QED
    BY <1>3, <2>1 DEF Job, JobRecord, What, Asked
<1>5. QueueGrows
  BY <1>3, <1>4 DEF QueueGrows, Joins
<1>6. Calm
  <2>1. \A x \in DOMAIN scope' \ DOMAIN scope : ~Rests(x)'
    BY <1>1 DEF Rests
  <2> QED
    BY <1>1, <2>1 DEF Calm, Rests
<1>7. BodyStep /\ ClientStep
  BY <1>1, <1>2 DEF BodyStep, ClientStep
<1> QED
  BY <1>5, <1>6, <1>7 DEF Moves

LEMMA AskMoves ==
    ASSUME CoreInv, NEW s \in DOMAIN scope, Asks(s)
    PROVE  Moves
<1>1. PICK what, n :
          /\ what \in Asked \cup {"recover"} /\ n \in 0..MaxWork
          /\ queue' = Append(queue, Job(what, s, n))
          /\ what \in Asked => Usable(s)
          /\ scope' = scope /\ client' = client
  <2>1. /\ Len(issuer) < MaxWork => Len(issuer) + 1 \in 0..MaxWork
        /\ 0 \in 0..MaxWork
    <3>1. Len(issuer) \in Nat
      BY Typed DEF CoreInv
    <3> QED
      BY <3>1, ScopeAssumption
  <2>2. CASE Issue(s)
    BY <2>1, <2>2 DEF Issue, Asked
  <2>3. ASSUME NEW what \in {"fetch", "raw"}, Sends(s, what)
        PROVE  /\ queue' = Append(queue, Job(what, s, 0)) /\ Usable(s)
               /\ scope' = scope /\ client' = client /\ what \in Asked
    BY <2>3 DEF Sends, Asked
  <2>4. CASE GivesUp(s)
    BY <2>1, <2>4 DEF GivesUp, Asked
  <2> QED
    BY <2>1, <2>2, <2>3, <2>4 DEF Asks
<1>2. Job(what, s, n) \in JobRecord /\ Job(what, s, n).of = s
      /\ Job(what, s, n).what = what
  <2>1. s \in Scopes
    BY Typed DEF CoreInv
  <2> QED
    BY <1>1, <2>1 DEF Job, JobRecord, What, Asked
<1>3. QueueGrows
  BY <1>1, <1>2 DEF QueueGrows, Joins
<1> QED
  BY <1>1, <1>3, MovesStill

LEMMA ReturnMoves ==
    ASSUME CoreInv, NEW s \in DOMAIN scope, scope[s].pc = "body",
           ~Scratching(s), Return(s) \/ Throw(s)
    PROVE  Moves
<1>1. /\ \/ Fail(s, scope, queue)
         \/ Proceed(s, "draining", "drain", Closed(scope, s), queue)
      /\ SameHistory /\ Rest(queue)
  BY DEF Return, Throw, Closed, Rest
<1>2. issuer' = issuer
  BY <1>1, QuietHistory
<1>3. TypeOK /\ ShapeInv /\ JobInv /\ Touched(scope, s) /\ Alive(s)
  BY TouchedNone DEF CoreInv, Alive
<1>4. Free(s, queue)
  BY <1>1, <1>3, FreeWhileIdle
<1>5. PICK t : t = Closed(scope, s)
  OBVIOUS
<1>6. /\ Touched(t, s) /\ t[s].undone = scope[s].undone
      /\ t[s].closing /\ t \in [DOMAIN scope -> ScopeRecord]
      /\ \A x \in DOMAIN scope : x # s => t[x] = scope[x]
  <2>1. /\ Touched(t, s) /\ t[s].undone = scope[s].undone
        /\ t[s].closing /\ \A x \in DOMAIN scope : x # s => t[x] = scope[x]
    BY <1>3, <1>5, TouchedClosed
  <2> QED
    BY <2>1 DEF Touched
<1>7. PICK pc \in {"waiting", "undoing", "draining"} :
          /\ Moved(t, s, pc)
          /\ pc = "waiting" => scope[s].kind = "pinned" \/ scope[s].undone
  <2>1. CASE Fail(s, scope, queue)
    BY <1>1, <1>2, <1>3, <1>4, <1>5, <2>1, FailStep
  <2>2. CASE Proceed(s, "draining", "drain", Closed(scope, s), queue)
    <3>1. scope' = [t EXCEPT ![s].pc = "draining"]
      BY <1>5, <2>2 DEF Proceed
    <3>2. "draining" \in Progress
      BY DEF Progress
    <3> QED
      BY <1>6, <3>1, <3>2, MovedBy
  <2> QED
    BY <1>1, <2>1, <2>2
<1>8. /\ DOMAIN scope' = DOMAIN scope
      /\ \A x \in DOMAIN scope : x # s => scope'[x] = scope[x]
      /\ scope'[s].pc = pc /\ scope'[s].undone = scope[s].undone
      /\ scope'[s].kind = scope[s].kind
  <2>1. t[s] \in ScopeRecord /\ t[s].kind = scope[s].kind
    BY <1>6 DEF Touched
  <2>2. /\ scope'[s].pc = pc /\ scope'[s].undone = t[s].undone
        /\ scope'[s].kind = t[s].kind
    BY <1>7, <2>1 DEF Moved, ScopeRecord
  <2> QED
    BY <1>6, <1>7, <2>1, <2>2 DEF Moved
<1>9. client' = client
  BY <1>1 DEF Fail, Wait, Proceed
<1>10. QueueGrows
  <2>1. \/ queue' = queue
        \/ \E what \in Control : queue' = Append(queue, Job(what, s, 0))
    BY <1>1 DEF Fail, Wait, Proceed, Control
  <2>2. \A what \in Control : /\ Job(what, s, 0) \in JobRecord
                              /\ Job(what, s, 0).what \notin Asked
    <3>1. s \in Scopes /\ 0 \in 0..MaxWork
      BY <1>3, Typed, ScopeAssumption
    <3> QED
      BY <3>1 DEF Job, JobRecord, What, Control, Asked
  <2> QED
    BY <2>1, <2>2 DEF QueueGrows, Joins
<1>11. Calm
  BY <1>7, <1>8 DEF Calm, Rests
<1>12. BodyStep /\ ClientStep
  <2>1. 1 \in DOMAIN scope
    BY <1>3, Typed
  <2>2. scope[1].pc = "body" /\ scope'[1].pc # "body" => s = 1
    BY <1>8, <2>1
  <2> QED
    BY <1>8, <1>9, <2>2 DEF BodyStep, ClientStep
<1> QED
  BY <1>10, <1>11, <1>12 DEF Moves

LEMMA CallbackMoves ==
    ASSUME CoreInv, NEW s, Callback(s)
    PROVE  Moves
<1>1. s \in DOMAIN scope /\ scope[s].pc = "body"
  BY DEF Callback, InBody
<1>2. ASSUME NEW undo \in BOOLEAN, NEW awaited \in BOOLEAN,
             NEW settled \in {"open", "resolved"},
             Open(s, undo, awaited, settled)
      PROVE  Moves
  BY <1>1, <1>2, OpenMoves
<1>3. CASE Issue(s) \/ Raw(s)
  BY <1>1, <1>3, Asking, AskMoves DEF InBody
<1>4. CASE ~Scratching(s) /\ (Return(s) \/ Throw(s))
  BY <1>1, <1>4, ReturnMoves
<1> QED
  BY <1>2, <1>3, <1>4 DEF Callback

LEMMA RegroupMoves ==
    ASSUME CoreInv, QuietInv, NEW s, Regroup(s)
    PROVE  Moves
<1>1. /\ s \in DOMAIN scope /\ scope[s].pc = "waiting" /\ SameHistory
  BY DEF Regroup
<1>2. Preserved
  BY RegroupKeeps
<1>3. \/ Proceed(s, "leaving", "drain", scope, queue)
      \/ Proceed(s, "forgetting", "forget", scope, queue)
      \/ scope[s].kind # "pinned" /\ Leave(s, "rejected", scope, queue)
  BY DEF Regroup
<1>4. Exit(s, scope, queue)
  <2>1. /\ {"leaving", "forgetting"} \subseteq Progress
        /\ {"drain", "forget"} \subseteq Control
    BY DEF Progress, Control
  <2> QED
    BY <1>3, <2>1 DEF Exit
<1>5. /\ TypeOK /\ Fates /\ 1 \in DOMAIN scope
      /\ scope \in [DOMAIN scope -> ScopeRecord]
      /\ scope[s].closing /\ Alive(s)
  BY <1>1, <1>2, Typed DEF CoreInv, Preserved, ShapeInv, ScopeInv, Alive
<1>6. /\ DOMAIN scope' = DOMAIN scope
      /\ \A x \in DOMAIN scope : x # s => scope'[x] = scope[x]
  BY <1>4, ExitOf
<1>7. QueueGrows
  BY <1>1, <1>4, ExitGrows
<1>8. Calm
  BY <1>1, <1>5, <1>6 DEF Calm, Rests, Fates
<1>9. BodyStep
  BY <1>1, <1>5, <1>6 DEF BodyStep
<1>10. ClientStep
  <2> SUFFICES ASSUME client' # client PROVE Returns
    BY DEF ClientStep
  <2>1. s = 1 /\ ~Alive(1)'
    BY <1>1, <1>4, <1>5, ExitClient
  <2>2. scope[1].kind # "pinned" /\ queue' = queue
    BY <1>3, <2>1 DEF Proceed, Leave
  <2>3. \A x \in DOMAIN scope : 1 <= x
    <3>1. DOMAIN scope = 1..Len(scope) /\ Len(scope) \in Nat
      BY <1>5, Typed
    <3> QED
      BY <3>1
  <2>4. \A x \in DOMAIN scope : ~Pending(x)
    BY <1>1, <1>5, <2>1, <2>2, <2>3 DEF QuietInv, Rests
  <2>5. \A x \in DOMAIN scope : ~Pending(x)'
    BY <2>2, <2>4 DEF Pending
  <2> QED
    BY <1>5, <1>6, <2>1, <2>2, <2>5 DEF Returns
<1> QED
  BY <1>7, <1>8, <1>9, <1>10 DEF Moves

LEMMA OutsideMoves ==
    ASSUME CoreInv, Lose \/ Abort
    PROVE  Moves
<1>1. QueueGrows /\ client' \in {client, "destroyed"}
  BY DEF Lose, Abort, QueueGrows, Joins
<1>2. CASE Lose
  <2>1. scope' = scope
    BY <1>2 DEF Lose
  <2> QED
    BY <1>1, <2>1, MovesStill
<1>3. CASE Abort
  <2>1. /\ scope' = [scope EXCEPT ![1].told = "rejected"]
        /\ scope \in [DOMAIN scope -> ScopeRecord] /\ 1 \in DOMAIN scope
    BY <1>3, Typed DEF Abort, CoreInv
  <2>2. PICK r : r = [scope[1] EXCEPT !.told = "rejected"]
    OBVIOUS
  <2>3. scope' = [scope EXCEPT ![1] = r]
    BY <2>1, <2>2
  <2>4. r.pc = scope[1].pc /\ r.undone = scope[1].undone
    <3>1. scope[1] \in ScopeRecord
      BY <2>1
    <3> QED
      BY <2>2, <3>1 DEF ScopeRecord
  <2>5. /\ DOMAIN scope' = DOMAIN scope
        /\ \A x \in DOMAIN scope : /\ scope'[x].pc = scope[x].pc
                                   /\ scope'[x].undone = scope[x].undone
    <3> HIDE DEF ScopeRecord
    <3> QED
      BY <2>1, <2>3, <2>4
  <2> QED
    BY <1>1, <2>5, MovesStill
<1> QED
  BY <1>2, <1>3

LEMMA StepMoves ==
    ASSUME CoreInv, LevelInv, QuietInv, Next, RecoversPoisoned'
    PROVE  Moves
<1>1. Preserved
  BY StepKeeps
<1>2. ASSUME NEW s \in 1..MaxScope, Callback(s) \/ Fetch(s) \/ Regroup(s)
      PROVE  Moves
  BY <1>2, CallbackMoves, Asking, AskMoves, RegroupMoves
<1>3. CASE Serve
  <2>1. CASE ServeBegin
    BY <2>1, BeginMoves
  <2>2. CASE ServeSavepoint
    BY <2>2, SavepointMoves
  <2>3. CASE \/ Refuse \/ WorkRuns \/ WorkFails \/ ServeFetch
             \/ ServeClose \/ ServeRaw
    BY <2>3, AnswersMove
  <2>4. CASE ServeRecover
    BY <1>1, <2>4, RecoverMoves
  <2>5. CASE \/ ServeDrain \/ ServeCommit \/ ServeUndo \/ ServeRelease
             \/ ServeRevert \/ ServeForget
    BY <1>1, <2>5, EndsMove
  <2> QED
    BY <1>3, <2>1, <2>2, <2>3, <2>4, <2>5 DEF Serve
<1>4. CASE Lose \/ Abort
  BY <1>4, OutsideMoves
<1> QED
  BY <1>2, <1>3, <1>4 DEF Next

CleanInv == LevelInv /\ QuietInv /\ HomeInv /\ CleanReturn

LEMMA CleanNext ==
    ASSUME CoreInv, CleanInv, [Next]_vars, RecoversPoisoned',
           AwaitsScratch, AwaitsStreams
    PROVE  CleanInv'
<1>1. CASE Next
  <2>1. Preserved /\ Moves /\ LevelInv'
    BY <1>1, StepKeeps, StepMoves, LevelsNext DEF CleanInv
  <2>2. QuietInv'
    BY <2>1, QuietStep DEF CleanInv, Moves
  <2>3. HomeInv'
    BY <2>1, HomeStep DEF CleanInv, Moves
  <2>4. CleanReturn'
    <3>1. CASE Returns
      BY <2>1, <3>1, ReturnsClean DEF CleanInv
    <3>2. CASE client = "returned"
      BY <1>1, <3>2, CleanStays DEF CleanInv
    <3>3. CASE client # "returned" /\ ~Returns
      BY <2>1, <3>3 DEF Moves, ClientStep, CleanReturn
    <3> QED
      BY <3>1, <3>2, <3>3
  <2> QED
    BY <2>1, <2>2, <2>3, <2>4 DEF CleanInv
<1>2. CASE UNCHANGED vars
  <2>1. /\ scope' = scope /\ stack' = stack /\ queue' = queue
        /\ marks' = marks /\ client' = client
    BY <1>2 DEF vars, serverVars
  <2>2. LevelInv'
    BY <1>2, LevelsNext DEF CleanInv
  <2>3. QuietInv'
    BY <2>1 DEF CleanInv, QuietInv, Alive, Pending, Rests
  <2>4. HomeInv' /\ CleanReturn'
    BY <2>1 DEF CleanInv, HomeInv, CleanReturn, Children, Alive
  <2> QED
    BY <2>2, <2>3, <2>4 DEF CleanInv
<1> QED
  BY <1>1, <1>2

LEMMA CleanFirst ==
    ASSUME Init
    PROVE  CleanInv
<1>1. PICK s : s = scope
  OBVIOUS
<1>2. /\ \E e \in {"body", "opening"}, root \in {"pinned", "transaction"},
            u \in BOOLEAN :
            /\ s = <<Scope(0, root, u, TRUE, e)>>
            /\ e = "body" <=> root = "pinned"
      /\ queue = <<>> \/ queue = <<Job("begin", 1, 0)>>
      /\ client = "held"
  BY <1>1 DEF Init
<1>3. /\ DOMAIN s = {1} /\ s[1].up = 0
      /\ \A x \in DOMAIN s : ~s[x].undone /\ s[x].pc # "waiting"
  BY <1>2 DEF Scope
<1>4. \A i \in DOMAIN queue : queue[i].what = "begin"
  BY <1>2 DEF Job
<1>5. QuietInv
  BY <1>1, <1>3, <1>4 DEF QuietInv, Rests, Asked
<1>6. HomeInv
  BY <1>1, <1>3 DEF HomeInv, Children
<1> QED
  BY <1>2, <1>5, <1>6, LevelsFirst DEF CleanInv, CleanReturn

(* withPinnedConnection(), withScratchScope() and transaction() give the   *)
(* client back to the pool with no transaction on the server, no scope on  *)
(* its stack and no statement of a callback still to be sent: what the     *)
(* callbacks leave un-awaited is drained, refused or waited for before     *)
(* releaseClient() runs.  As long as streams only roll back poisoned       *)
(* scopes, and callbacks wait for the two things a pinned connection does  *)
(* not account for and could go back to the pool under: the scratch work   *)
(* they have asked of its adapter, which BeginInstead settles before its   *)
(* transaction has begun, and the streams they have opened on it.          *)
THEOREM ClientsComeBackClean ==
    ASSUME AwaitsScratch, AwaitsStreams
    PROVE  Spec /\ []RecoversPoisoned => []CleanReturn
<1>1. Init => CleanInv
  BY CleanFirst
<1>2. CoreInv /\ CleanInv /\ [Next]_vars /\ RecoversPoisoned' => CleanInv'
  BY CleanNext
<1>3. CleanInv => CleanReturn
  BY DEF CleanInv
<1> QED
  BY <1>1, <1>2, <1>3, CoreHolds, PTL DEF Spec

-----------------------------------------------------------------------------
(* The scopes around a scope.                                              *)

(* A set of numbers has a least one.                                       *)
LEMMA LeastScope ==
    ASSUME NEW T, T \subseteq Nat, T # {}
    PROVE  \E n \in T : \A m \in T : n <= m
<1>1. PICK n \in T : \A m \in T : <<m, n>> \notin OpToRel(<, Nat)
  BY NatLessThanWellFounded, WFMin
<1>2. \A m \in T : ~(m < n)
  BY <1>1 DEF OpToRel
<1> QED
  BY <1>2

(* What is so of a scope when it is so of those opened before it is so of  *)
(* all.                                                                    *)
LEMMA FromTheRoot ==
    ASSUME NEW n \in Nat, NEW good,
           \A k \in 1..n : (\A j \in 1..(k - 1) : j \in good) => k \in good
    PROVE  \A k \in 1..n : k \in good
<1> SUFFICES ASSUME NEW k \in 1..n, k \notin good PROVE FALSE
  OBVIOUS
<1>1. PICK m \in {j \in 1..n : j \notin good} :
          \A j \in {i \in 1..n : i \notin good} : m <= j
  <2>1. {j \in 1..n : j \notin good} \subseteq Nat
    OBVIOUS
  <2> QED
    BY <2>1, LeastScope
<1>2. \A j \in 1..(m - 1) : j \in good
  BY <1>1
<1> QED
  BY <1>1, <1>2

(* f holds the line of each of the first n scopes.                         *)
Lines(f, n) ==
    f = [s \in 1..n |->
            {s} \cup (IF scope[s].up = 0 THEN {} ELSE f[scope[s].up])]

(* The recursion of Line has a solution, as a scope is within an earlier   *)
(* one.                                                                    *)
LEMMA LinesExist ==
    ASSUME NEW n \in Nat, \A s \in 1..n : scope[s].up \in 0..(s - 1)
    PROVE  \E f : Lines(f, n)
<1> DEFINE good == {k \in 0..n : \E f : Lines(f, k)}
<1>1. 0 \in good
  <2>1. Lines([s \in 1..0 |-> {}], 0)
    BY DEF Lines
  <2> QED
    BY <2>1
<1>2. ASSUME NEW k \in 1..n, k - 1 \in good
      PROVE  k \in good
  <2>1. PICK h : Lines(h, k - 1)
    BY <1>2
  <2> DEFINE own == {k} \cup (IF scope[k].up = 0 THEN {} ELSE h[scope[k].up])
  <2> HIDE DEF own
  <2> DEFINE f == [s \in 1..k |-> IF s = k THEN own ELSE h[s]]
  <2>2. /\ f = [s \in 1..k |-> f[s]] /\ f[k] = own
        /\ \A s \in 1..(k - 1) : f[s] = h[s]
    OBVIOUS
  <2>3. ASSUME NEW s \in 1..(k - 1)
        PROVE  h[s] = {s} \cup (IF scope[s].up = 0 THEN {}
                                ELSE h[scope[s].up])
    BY <2>1, Zenon DEF Lines
  <2> HIDE DEF f
  <2>4. ASSUME NEW s \in 1..k
        PROVE  f[s] = {s} \cup (IF scope[s].up = 0 THEN {}
                                ELSE f[scope[s].up])
    <3>1. scope[s].up = 0 \/ scope[s].up \in 1..(s - 1)
      OBVIOUS
    <3>2. scope[s].up \in 1..(s - 1) => scope[s].up \in 1..(k - 1)
      OBVIOUS
    <3>3. CASE s = k
      BY <2>2, <3>1, <3>2, <3>3 DEF own
    <3>4. CASE s # k
      <4>1. s \in 1..(k - 1)
        BY <3>4
      <4> QED
        BY <2>2, <2>3, <3>1, <3>2, <4>1
    <3> QED
      BY <3>3, <3>4
  <2>5. Lines(f, k)
    BY <2>2, <2>4 DEF Lines
  <2> QED
    BY <2>5
<1> HIDE DEF good
<1>3. \A k \in 1..n : k \in good
  <2> DEFINE fine == good
  <2>1. ASSUME NEW k \in 1..n, \A j \in 1..(k - 1) : j \in good
        PROVE  k \in good
    <3>1. k - 1 = 0 \/ k - 1 \in 1..(k - 1)
      OBVIOUS
    <3> QED
      BY <1>1, <1>2, <2>1, <3>1
  <2> QED
    BY <2>1, FromTheRoot
<1>4. n \in good
  BY <1>1, <1>3
<1> QED
  BY <1>4 DEF good

(* What the scopes around a scope are.                                     *)
LEMMA LineIs ==
    ASSUME TypeOK, ShapeInv, NEW s \in DOMAIN scope
    PROVE  /\ scope[s].up \in 0..(s - 1)
           /\ scope[s].up # 0 => scope[s].up \in DOMAIN scope
           /\ scope[s].up = 0 => Line[s] = {s}
           /\ scope[s].up # 0 => Line[s] = {s} \cup Line[scope[s].up]
<1>1. DOMAIN scope = 1..Len(scope) /\ Len(scope) \in Nat
  BY Typed
<1>2. \A x \in 1..Len(scope) : scope[x].up \in 0..(x - 1)
  <2> SUFFICES ASSUME NEW x \in 1..Len(scope)
               PROVE  scope[x].up \in 0..(x - 1)
    OBVIOUS
  <2>1. scope[x].up < x
    BY <1>1 DEF ShapeInv, ScopeInv
  <2>2. scope[x] \in ScopeRecord
    BY <1>1, Typed
  <2>3. scope[x].up \in 0..MaxScope
    BY <2>2 DEF ScopeRecord
  <2> QED
    BY <2>1, <2>3, ScopeAssumption
<1>3. PICK f : Lines(f, Len(scope))
  BY <1>1, <1>2, LinesExist
<1>4. \E g : g = [x \in DOMAIN scope |->
                    {x} \cup (IF scope[x].up = 0 THEN {}
                              ELSE g[scope[x].up])]
  BY <1>1, <1>3 DEF Lines
<1>5. Line = [x \in DOMAIN scope |->
                {x} \cup (IF scope[x].up = 0 THEN {} ELSE Line[scope[x].up])]
  BY <1>4, Zenon DEF Line
<1>6. Line[s] = {s} \cup (IF scope[s].up = 0 THEN {} ELSE Line[scope[s].up])
  BY <1>5, Zenon
<1> QED
  BY <1>1, <1>2, <1>6

(* A scope is within itself and within earlier ones.                       *)
LEMMA LineUp ==
    ASSUME TypeOK, ShapeInv
    PROVE  \A s \in DOMAIN scope :
              s \in Line[s] /\ \A x \in Line[s] : x \in 1..s
<1>1. DOMAIN scope = 1..Len(scope) /\ Len(scope) \in Nat
  BY Typed
<1> DEFINE good == {s \in DOMAIN scope : \A x \in Line[s] : x \in 1..s}
<1>2. ASSUME NEW s \in 1..Len(scope), \A j \in 1..(s - 1) : j \in good
      PROVE  s \in good
  <2>1. CASE scope[s].up = 0
    BY <1>1, <2>1, LineIs
  <2>2. CASE scope[s].up # 0
    <3>1. scope[s].up \in 1..(s - 1)
      BY <1>1, <2>2, LineIs
    <3>2. Line[s] = {s} \cup Line[scope[s].up]
      BY <1>1, <2>2, LineIs
    <3> QED
      BY <1>1, <1>2, <3>1, <3>2
  <2> QED
    BY <2>1, <2>2
<1> HIDE DEF good
<1>3. \A s \in 1..Len(scope) : s \in good
  BY <1>1, <1>2, FromTheRoot
<1>4. \A s \in DOMAIN scope : s \in Line[s]
  BY LineIs
<1> QED
  BY <1>1, <1>3, <1>4 DEF good

(* What is around what is around a scope is around it, and of two scopes   *)
(* around it the earlier is around the later.                              *)
LEMMA LineOrder ==
    ASSUME TypeOK, ShapeInv
    PROVE  \A s \in DOMAIN scope :
              \A x \in Line[s] :
                 /\ x \in DOMAIN scope /\ x <= s
                 /\ Line[x] \subseteq Line[s]
                 /\ \A y \in Line[s] : y <= x => y \in Line[x]
<1>1. DOMAIN scope = 1..Len(scope) /\ Len(scope) \in Nat
  BY Typed
<1> DEFINE good == {s \in DOMAIN scope :
                       \A x \in Line[s] :
                          /\ Line[x] \subseteq Line[s]
                          /\ \A y \in Line[s] : y <= x => y \in Line[x]}
<1>2. ASSUME NEW s \in 1..Len(scope), \A j \in 1..(s - 1) : j \in good
      PROVE  s \in good
  <2>0. \A x \in Line[s] : x \in 1..s
    BY <1>1, LineUp
  <2>1. CASE scope[s].up = 0
    <3>1. Line[s] = {s}
      BY <1>1, <2>1, LineIs
    <3> QED
      BY <1>1, <3>1
  <2>2. CASE scope[s].up # 0
    <3> DEFINE p == scope[s].up
    <3>1. p \in 1..(s - 1) /\ Line[s] = {s} \cup Line[p]
      BY <1>1, <2>2, LineIs
    <3>2. p \in good
      BY <1>2, <3>1
    <3>3. \A x \in Line[p] : x \in 1..p
      BY <1>1, <3>1, LineUp
    <3> HIDE DEF p
    <3>4. ASSUME NEW x \in Line[s]
          PROVE  /\ Line[x] \subseteq Line[s]
                 /\ \A y \in Line[s] : y <= x => y \in Line[x]
      <4>1. CASE x = s
        BY <4>1
      <4>2. CASE x \in Line[p]
        <5>1. /\ Line[x] \subseteq Line[p]
              /\ \A y \in Line[p] : y <= x => y \in Line[x]
          BY <3>2, <4>2
        <5>2. ~(s <= x)
          BY <3>1, <3>3, <4>2
        <5> QED
          BY <3>1, <5>1, <5>2
      <4> QED
        BY <3>1, <4>1, <4>2
    <3> QED
      BY <1>1, <3>4
  <2> QED
    BY <2>1, <2>2
<1> HIDE DEF good
<1>3. \A s \in 1..Len(scope) : s \in good
  BY <1>1, <1>2, FromTheRoot
<1>4. \A s \in DOMAIN scope : \A x \in Line[s] : x \in DOMAIN scope /\ x <= s
  BY <1>1, LineUp
<1> QED
  BY <1>1, <1>3, <1>4 DEF good

(* What the recursion of Line comes to.                                    *)
LineRule ==
    \A s \in DOMAIN scope :
        /\ scope[s].up = 0 => Line[s] = {s}
        /\ scope[s].up # 0 => Line[s] = {s} \cup Line[scope[s].up]

LEMMA LinesFollow == TypeOK /\ ShapeInv => LineRule
BY LineIs DEF LineRule

(* The lines of the scopes there are stay as they are.                     *)
LEMMA LinesStay ==
    ASSUME TypeOK, ShapeInv, TypeOK', ShapeInv', Fates
    PROVE  \A s \in DOMAIN scope : s \in DOMAIN scope' /\ Line'[s] = Line[s]
<1>1. /\ DOMAIN scope = 1..Len(scope) /\ Len(scope) \in Nat
      /\ \A s \in DOMAIN scope : s \in DOMAIN scope'
      /\ \A s \in DOMAIN scope : scope'[s].up = scope[s].up
  BY Typed DEF Fates
<1> DEFINE good == {s \in DOMAIN scope : Line'[s] = Line[s]}
<1>2. \A s \in DOMAIN scope' :
         /\ scope'[s].up = 0 => Line'[s] = {s}
         /\ scope'[s].up # 0 => Line'[s] = {s} \cup Line'[scope'[s].up]
  <2>1. LineRule'
    BY LinesFollow, PTL
  <2> QED
    BY <2>1 DEF LineRule
<1>3. ASSUME NEW s \in 1..Len(scope), \A j \in 1..(s - 1) : j \in good
      PROVE  s \in good
  <2>1. /\ scope[s].up \in 0..(s - 1)
        /\ scope[s].up = 0 => Line[s] = {s}
        /\ scope[s].up # 0 => Line[s] = {s} \cup Line[scope[s].up]
    BY <1>1, LineIs
  <2>2. /\ scope[s].up = 0 => Line'[s] = {s}
        /\ scope[s].up # 0 => Line'[s] = {s} \cup Line'[scope[s].up]
    BY <1>1, <1>2
  <2>3. CASE scope[s].up = 0
    BY <1>1, <2>1, <2>2, <2>3
  <2>4. CASE scope[s].up # 0
    <3>1. scope[s].up \in 1..(s - 1)
      BY <2>1, <2>4
    <3> QED
      BY <1>1, <1>3, <2>1, <2>2, <2>4, <3>1
  <2> QED
    BY <2>3, <2>4
<1> HIDE DEF good
<1>4. \A s \in 1..Len(scope) : s \in good
  BY <1>1, <1>3, FromTheRoot
<1> QED
  BY <1>1, <1>4 DEF good

-----------------------------------------------------------------------------
(* What the server holds, and what has become of the rest.                 *)

Begins(s) == scope[s].kind # "pinned"

(* The scopes statement w was issued in.                                   *)
Around(w) == Line[issuer[w]]

Failing == {"undoing", "waiting", "reverting", "forgetting"}

(* A scope that will not be told it has resolved.                          *)
Doomed(s) == scope[s].poison \/ scope[s].pc \in Failing

(* A scope that holds nothing on the server any more: it is doomed, has    *)
(* been rolled back, or was a transaction that has come to its end.        *)
Over(s) ==
    /\ Begins(s)
    /\ IF Alive(s) THEN Doomed(s)
       ELSE \/ scope[s].kind = "transaction"
            \/ scope[s].told # "resolved" \/ scope[s].undo

(* A transaction is opened on a client or on a pinned connection, and a    *)
(* scope that is open is within one that is open.                          *)
FamilyInv ==
    \A s \in DOMAIN scope :
        /\ scope[s].kind = "transaction" => scope[s].up = 0 \/ PinnedUp(s)
        /\ Alive(s) /\ scope[s].up > 0 /\ ~PinnedUp(s) => Alive(scope[s].up)

(* A caller has its answer when its scope has ended, or its client is lost.*)
ToldInv ==
    /\ \A s \in DOMAIN scope :
          /\ Alive(s) /\ scope[s].told # "nothing" =>
                s = 1 /\ Lost /\ scope[s].told = "rejected"
          /\ ~Alive(s) => scope[s].told # "nothing"
          /\ scope[s].pc \in {"committing", "releasing"} => ~scope[s].undo
          /\ scope[s].pc = "cleaning" => scope[s].undo
    /\ client = "held" => Alive(1)

(* What has run was issued in a scope that has begun, within others that   *)
(* have.                                                                   *)
RanInv ==
    /\ ran \subseteq DOMAIN issuer
    /\ \A w \in DOMAIN issuer : issuer[w] \in DOMAIN scope
    /\ \A w \in ran : \A x \in Around(w) : scope[x].pc # "opening"

(* Nothing of what is within a scope that forgets its savepoint is to run. *)
SpentInv ==
    \A t, s \in DOMAIN scope :
        scope[t].pc = "forgetting" /\ t <= s => ~Pending(s)

(* What a level holds was issued within the scopes that are open at that   *)
(* level: they have levels, no later ones, and are not rolled back; and    *)
(* those it was issued in that have ended have resolved.                   *)
WorkFits(i, w) ==
    /\ \A x \in Around(w) :
          Begins(x) /\ Alive(x) => Level(x) # {} /\ x <= marks[i].of
    /\ \A x \in DOMAIN scope :
          Begins(x) /\ Alive(x) /\ x <= marks[i].of => x \in Around(w)
    /\ \A x \in Around(w) :
          Begins(x) /\ ~Alive(x) =>
             scope[x].told = "resolved" /\ ~scope[x].undo
    /\ \A x \in Around(w) :
          Begins(x) /\ Alive(x) =>
             ~scope[x].undone /\ scope[x].pc \notin {"waiting", "forgetting"}

(* What the server holds is of scopes that may still commit it.            *)
WorkInv == \A i \in DOMAIN marks : \A w \in marks[i].works : WorkFits(i, w)

(* What has run and is not held any more is of a scope that is over.       *)
FateInv ==
    \A w \in ran :
        \/ Lost \/ ~Begins(issuer[w]) \/ w \in Works(DOMAIN marks)
        \/ \E x \in Around(w) : Over(x)

(* A pinned connection is the root.                                        *)
LEMMA PinnedLine ==
    ASSUME CoreInv, NEW s \in DOMAIN scope, scope[s].kind = "pinned"
    PROVE  s = 1 /\ Line[s] = {s}
<1>1. TypeOK /\ ShapeInv
  BY DEF CoreInv
<1>2. s = 1
  BY <1>1 DEF ShapeInv, ScopeInv
<1>3. scope[s].up = 0
  BY <1>1, <1>2, LineIs
<1> QED
  BY <1>1, <1>2, <1>3, LineIs

(* No transaction is within another.                                       *)
LEMMA TransactionAround ==
    ASSUME CoreInv, FamilyInv, NEW s \in DOMAIN scope,
           scope[s].kind = "transaction", NEW x \in Line[s]
    PROVE  x = s \/ scope[x].kind = "pinned"
<1>1. TypeOK /\ ShapeInv
  BY DEF CoreInv
<1>2. CASE scope[s].up = 0
  BY <1>1, <1>2, LineIs
<1>3. CASE scope[s].up # 0
  <2>1. PinnedUp(s)
    BY <1>3 DEF FamilyInv
  <2>2. /\ scope[s].up \in DOMAIN scope
        /\ Line[s] = {s} \cup Line[scope[s].up]
    BY <1>1, <1>3, LineIs
  <2>3. Line[scope[s].up] = {scope[s].up}
    BY <2>1, <2>2, PinnedLine DEF PinnedUp
  <2> QED
    BY <2>1, <2>2, <2>3 DEF PinnedUp
<1> QED
  BY <1>2, <1>3

(* A statement is within one transaction at most.                          *)
LEMMA OneTransactionAround ==
    ASSUME CoreInv, FamilyInv, NEW s \in DOMAIN scope,
           NEW x \in Line[s], NEW y \in Line[s],
           scope[x].kind = "transaction", scope[y].kind = "transaction"
    PROVE  x = y
<1>1. TypeOK /\ ShapeInv /\ DOMAIN scope \subseteq Nat
  <2>1. DOMAIN scope = 1..Len(scope)
    BY Typed DEF CoreInv
  <2> QED
    BY <2>1 DEF CoreInv
<1>2. x \in DOMAIN scope /\ y \in DOMAIN scope
  BY <1>1, LineOrder
<1>3. CASE y <= x
  <2>1. y \in Line[x]
    BY <1>1, <1>3, LineOrder
  <2> QED
    BY <1>2, <2>1, TransactionAround
<1>4. CASE x <= y
  <2>1. x \in Line[y]
    BY <1>1, <1>4, LineOrder
  <2> QED
    BY <1>2, <2>1, TransactionAround
<1> QED
  BY <1>1, <1>2, <1>3, <1>4

(* A scope that is open is within scopes that are.                         *)
LEMMA OpenWithinOpen ==
    ASSUME CoreInv, FamilyInv
    PROVE  \A s \in DOMAIN scope : Alive(s) =>
              \A x \in Line[s] : Begins(x) => Alive(x)
<1>1. TypeOK /\ ShapeInv
  BY DEF CoreInv
<1>2. DOMAIN scope = 1..Len(scope) /\ Len(scope) \in Nat
  BY <1>1, Typed
<1> DEFINE good == {s \in DOMAIN scope : Alive(s) =>
                       \A x \in Line[s] : Begins(x) => Alive(x)}
<1>3. ASSUME NEW s \in 1..Len(scope), \A j \in 1..(s - 1) : j \in good
      PROVE  s \in good
  <2> SUFFICES ASSUME Alive(s), NEW x \in Line[s], Begins(x) PROVE Alive(x)
    BY <1>2
  <2>1. CASE x = s
    BY <2>1
  <2>2. CASE x # s
    <3>1. /\ scope[s].up # 0 /\ scope[s].up \in 1..(s - 1)
          /\ scope[s].up \in DOMAIN scope /\ x \in Line[scope[s].up]
      BY <1>1, <1>2, <2>2, LineIs
    <3>2. CASE PinnedUp(s)
      <4>1. x = scope[s].up
        BY <3>1, <3>2, PinnedLine DEF PinnedUp
      <4> QED
        BY <3>2, <4>1 DEF PinnedUp, Begins
    <3>3. CASE ~PinnedUp(s)
      <4>1. Alive(scope[s].up)
        BY <1>2, <3>1, <3>3 DEF FamilyInv
      <4> QED
        BY <1>3, <3>1, <4>1
    <3> QED
      BY <3>2, <3>3
  <2> QED
    BY <2>1, <2>2
<1> HIDE DEF good
<1>4. \A s \in 1..Len(scope) : s \in good
  BY <1>2, <1>3, FromTheRoot
<1> QED
  BY <1>2, <1>4 DEF good

(* The scopes that are open are within each other.                         *)
LEMMA OpenInLine ==
    ASSUME CoreInv, NEW x \in DOMAIN scope, NEW t \in DOMAIN scope,
           Alive(x), Alive(t), x <= t
    PROVE  x \in Line[t]
<1>1. TypeOK /\ ShapeInv /\ StackInv
  BY DEF CoreInv, ShapeInv
<1>2. /\ DOMAIN stack = 1..Len(stack) /\ Len(stack) \in Nat
      /\ DOMAIN scope = 1..Len(scope) /\ Len(scope) \in Nat
      /\ \A i \in DOMAIN stack : stack[i] \in DOMAIN scope
  BY <1>1, Typed DEF StackInv
<1>3. PICK i \in DOMAIN stack : stack[i] = x
  BY <1>1 DEF StackInv, OnStack
<1>4. PICK j \in DOMAIN stack : stack[j] = t
  BY <1>1 DEF StackInv, OnStack
<1>5. i <= j
  <2>1. ~(j < i)
    BY <1>1, <1>2, <1>3, <1>4 DEF StackInv
  <2> QED
    BY <1>2, <2>1
<1> DEFINE good == {k \in 1..Len(stack) : i <= k => x \in Line[stack[k]]}
<1>6. ASSUME NEW k \in 1..Len(stack), \A m \in 1..(k - 1) : m \in good
      PROVE  k \in good
  <2> SUFFICES ASSUME i <= k PROVE x \in Line[stack[k]]
    OBVIOUS
  <2>1. CASE i = k
    BY <1>1, <1>2, <1>3, <2>1, LineUp
  <2>2. CASE i # k
    <3>1. k > 1 /\ k - 1 \in 1..(k - 1) /\ i <= k - 1
      BY <1>2, <2>2
    <3>2. x \in Line[stack[k - 1]]
      BY <1>6, <3>1
    <3>3. scope[stack[k]].up = stack[k - 1]
      BY <1>1, <1>2, <3>1 DEF StackInv
    <3>4. stack[k - 1] # 0 /\ stack[k] \in DOMAIN scope
      <4>1. stack[k - 1] \in DOMAIN scope
        BY <1>2, <3>1
      <4> QED
        BY <1>2, <4>1
    <3>5. Line[stack[k]] = {stack[k]} \cup Line[stack[k - 1]]
      BY <1>1, <3>3, <3>4, LineIs
    <3> QED
      BY <3>2, <3>5
  <2> QED
    BY <2>1, <2>2
<1> HIDE DEF good
<1>7. \A k \in 1..Len(stack) : k \in good
  BY <1>2, <1>6, FromTheRoot
<1> QED
  BY <1>2, <1>4, <1>5, <1>7 DEF good

(* What a level holds has run, in scopes there are.                        *)
LEMMA HeldWork ==
    ASSUME CoreInv, RanInv, NEW i \in DOMAIN marks, NEW w \in marks[i].works
    PROVE  /\ w \in ran /\ issuer[w] \in DOMAIN scope
           /\ marks[i].of \in DOMAIN scope
           /\ Around(w) \subseteq DOMAIN scope /\ w \in Works(DOMAIN marks)
<1>1. w \in ran /\ marks[i].of \in DOMAIN scope
  BY DEF CoreInv, MarkInv
<1>2. issuer[w] \in DOMAIN scope
  BY <1>1 DEF RanInv
<1> QED
  BY <1>1, <1>2, LineOrder DEF Around, CoreInv, Works

(* Whether the server holds a statement issued within s; and whether it    *)
(* does after a step.                                                      *)
Holds(s) == \E i \in DOMAIN marks : \E w \in marks[i].works : s \in Around(w)

(* The scopes of which the server holds nothing.                           *)
LEMMA HoldsNothing ==
    ASSUME CoreInv, RanInv, WorkInv, NEW s \in DOMAIN scope, Begins(s),
           Alive(s),
           \/ scope[s].pc \in {"opening", "waiting", "forgetting"}
           \/ scope[s].undone \/ Level(s) = {} \/ marks = <<>> \/ Lost
    PROVE  ~Holds(s)
<1> SUFFICES ASSUME NEW i \in DOMAIN marks, NEW w \in marks[i].works,
                    s \in Around(w)
             PROVE  FALSE
  BY DEF Holds
<1>1. WorkFits(i, w) /\ w \in ran
  BY HeldWork DEF WorkInv
<1>2. marks # <<>> /\ ~Lost
  <2>1. marks # <<>>
    OBVIOUS
  <2> QED
    BY <2>1 DEF CoreInv, MarkInv
<1> QED
  BY <1>1, <1>2 DEF WorkFits, RanInv

(* What a transaction holds.                                               *)
LEMMA TransactionHolds ==
    ASSUME CoreInv, RanInv, WorkInv, NEW i \in DOMAIN marks,
           NEW w \in marks[i].works, NEW t \in DOMAIN scope, Alive(t),
           scope[t].kind = "transaction"
    PROVE  t \in Around(w)
<1>1. TypeOK /\ MarkInv /\ StackInv
  BY DEF CoreInv, ShapeInv
<1>2. /\ DOMAIN marks = 1..Len(marks) /\ Len(marks) \in Nat
      /\ DOMAIN scope = 1..Len(scope) /\ Len(scope) \in Nat
  BY <1>1, Typed
<1>3. /\ 1 \in DOMAIN marks /\ marks # <<>>
      /\ marks[1].of \in DOMAIN scope /\ marks[i].of \in DOMAIN scope
  BY <1>1, <1>2 DEF MarkInv
<1>4. marks[1].of = t
  <2>1. /\ Alive(marks[1].of)
        /\ scope[marks[1].of].kind = "transaction"
    BY <1>1, <1>3 DEF MarkInv, StackInv
  <2> QED
    BY <1>3, <2>1, OneTransaction
<1>5. t <= marks[i].of
  <2>1. i = 1 \/ 1 < i
    BY <1>2
  <2> QED
    BY <1>1, <1>2, <1>3, <1>4, <2>1 DEF MarkInv
<1> QED
  BY <1>5 DEF WorkInv, WorkFits, Begins

-----------------------------------------------------------------------------
(* What a step may do.                                                     *)

(* What becomes of the scopes, of their callers and of the client.         *)
Turns ==
    /\ \A x \in DOMAIN scope :
          /\ ~Alive(x) =>
                /\ scope'[x].told = scope[x].told
                /\ scope'[x].kind = scope[x].kind
          /\ Alive(x)' =>
                \/ scope'[x].told = scope[x].told
                \/ x = 1 /\ link' = "down" /\ scope'[x].told = "rejected"
          /\ Alive(x) /\ ~Alive(x)' =>
                /\ scope'[x].told # "nothing"
                /\ Begins(x) /\ Doomed(x) /\ scope'[x].told = "resolved" =>
                      scope[x].undo \/ scope'[x].kind = "transaction"
          /\ Begins(x) /\ Alive(x)' /\ scope[x].pc \in Failing =>
                scope'[x].pc \in Failing
          /\ \/ scope'[x].kind = scope[x].kind
             \/ /\ scope[x].pc = "opening" /\ PinnedUp(x)
                /\ scope'[x].kind = "transaction"
          /\ scope'[x].pc \in {"committing", "releasing"} =>
                ~scope[x].undo \/ scope'[x].pc = scope[x].pc
          /\ scope'[x].pc = "cleaning" =>
                scope[x].undo \/ scope'[x].pc = scope[x].pc
    /\ \A x \in DOMAIN scope' \ DOMAIN scope :
          /\ scope'[x].pc \in {"opening", "done"}
          /\ scope'[x].kind = "transaction" => PinnedUp(x)'
          /\ ~Alive(x)' => scope'[x].told # "nothing"
          /\ Alive(x)' =>
                /\ scope'[x].told = "nothing"
                /\ scope'[x].up \in DOMAIN scope
                /\ scope'[scope'[x].up].pc # "done"
    /\ client' = "held" => client = "held" /\ (Alive(1) => Alive(1)')
    /\ link' \in {link, "down"}

(* What the server holds after a step it held before, at that level or     *)
(* above, and the levels of the scopes it is of stay.                      *)
Sinks ==
    \A k \in DOMAIN marks' : \A w \in marks'[k].works :
        \E i \in DOMAIN marks :
            /\ w \in marks[i].works
            /\ marks'[k].of <= marks[i].of
            /\ \A x \in DOMAIN scope :
                  /\ Begins(x) /\ Alive(x)'
                  /\ Level(x) # {} /\ x <= marks[i].of
                  => Level(x)' # {} /\ x <= marks'[k].of

HoldsOn(s) ==
    \E k \in DOMAIN marks' : \E w \in marks'[k].works : s \in Around(w)

(* Of a scope that ends, or rests, it holds what has resolved only.        *)
LetsGo ==
    \A x \in DOMAIN scope :
        /\ Begins(x) /\ Alive(x) /\ ~Alive(x)' /\ HoldsOn(x) =>
              scope'[x].told = "resolved" /\ ~scope[x].undo
        /\ /\ Begins(x) /\ Alive(x)' /\ HoldsOn(x)
           /\ scope'[x].undone \/ scope'[x].pc \in {"waiting", "forgetting"}
           => scope[x].undone \/ scope[x].pc \in {"waiting", "forgetting"}

(* What it held and holds no more is of a scope that is over.              *)
Drops ==
    \A w \in Works(DOMAIN marks) :
        \/ Lost' \/ w \in Works(DOMAIN marks)'
        \/ \E x \in Around(w) : Over(x)'

(* A savepoint is forgotten when nothing within it is left to run.         *)
Spends ==
    \A t \in DOMAIN scope' :
        scope'[t].pc = "forgetting" =>
            \/ t \in DOMAIN scope /\ scope[t].pc = "forgetting"
            \/ \A s \in DOMAIN scope' : t <= s => ~Pending(s)'

(* The parts of the invariant, each from what it needs of a step.          *)
LEMMA FamilyNext ==
    ASSUME CoreInv, CoreInv', Fates, Turns, FamilyInv
    PROVE  FamilyInv'
<1>1. /\ DOMAIN scope = 1..Len(scope) /\ Len(scope) \in Nat
      /\ DOMAIN scope \subseteq DOMAIN scope'
  BY Typed DEF CoreInv, Fates
<1>2. ASSUME NEW s \in DOMAIN scope
      PROVE  /\ scope[s].up # 0 => scope[s].up \in DOMAIN scope
             /\ scope'[s].up = scope[s].up
             /\ scope[s].up < s
             /\ PinnedUp(s)' <=> PinnedUp(s)
  <2>1. /\ scope[s].up # 0 => scope[s].up \in DOMAIN scope
        /\ scope[s].up \in 0..(s - 1)
    BY LineIs DEF CoreInv
  <2>2. scope'[s].up = scope[s].up
    BY DEF Fates
  <2>3. scope[s].up > 0 => scope[s].up # 0
    BY <2>1
  <2>4. PinnedUp(s)' <=> PinnedUp(s)
    BY <2>1, <2>2, <2>3 DEF PinnedUp, Fates
  <2> QED
    BY <1>1, <2>1, <2>2, <2>4
<1>3. ASSUME NEW s \in DOMAIN scope'
      PROVE  scope'[s].kind = "transaction" =>
                scope'[s].up = 0 \/ PinnedUp(s)'
  <2>1. CASE s \in DOMAIN scope
    BY <1>2, <2>1 DEF FamilyInv, Turns
  <2>2. CASE s \notin DOMAIN scope
    BY <2>2 DEF Turns
  <2> QED
    BY <2>1, <2>2
<1>4. ASSUME NEW s \in DOMAIN scope', Alive(s)', scope'[s].up > 0,
             ~PinnedUp(s)'
      PROVE  scope'[scope'[s].up].pc # "done"
  <2>1. CASE s \in DOMAIN scope
    <3>1. PICK p : p = scope[s].up
      OBVIOUS
    <3>2. /\ p > 0 /\ p \in DOMAIN scope /\ p < s /\ ~PinnedUp(s)
          /\ scope'[s].up = p
      BY <1>1, <1>2, <1>4, <2>1, <3>1
    <3>3. Alive(s)
      BY <1>4, <2>1 DEF Fates
    <3>4. Alive(p) /\ scope[p].kind # "pinned"
      BY <2>1, <3>1, <3>2, <3>3 DEF FamilyInv, PinnedUp
    <3>5. Alive(p)'
      <4> SUFFICES ASSUME ~Alive(p)' PROVE FALSE
        OBVIOUS
      <4>1. Top(p)
        BY <3>2, <3>4 DEF Fates
      <4>2. s <= p
        BY <2>1, <3>3, <4>1, TopIsLast
      <4> QED
        BY <1>1, <2>1, <3>2, <4>2
    <3> QED
      BY <3>2, <3>5 DEF Alive
  <2>2. CASE s \notin DOMAIN scope
    BY <1>4, <2>2 DEF Turns
  <2> QED
    BY <2>1, <2>2
<1> QED
  BY <1>3, <1>4 DEF FamilyInv, Alive

LEMMA ToldNext ==
    ASSUME CoreInv, Fates, Turns, ToldInv
    PROVE  ToldInv'
<1>1. ASSUME NEW s \in DOMAIN scope'
      PROVE  /\ Alive(s)' /\ scope'[s].told # "nothing" =>
                   s = 1 /\ Lost' /\ scope'[s].told = "rejected"
             /\ ~Alive(s)' => scope'[s].told # "nothing"
             /\ scope'[s].pc \in {"committing", "releasing"} =>
                   ~scope'[s].undo
             /\ scope'[s].pc = "cleaning" => scope'[s].undo
  <2>1. CASE s \in DOMAIN scope
    <3>1. scope'[s].undo = scope[s].undo /\ (Alive(s)' => Alive(s))
      BY <2>1 DEF Fates
    <3>2. Lost => Lost'
      BY DEF Turns, Lost
    <3>3. Alive(s)' /\ scope'[s].told # "nothing" =>
                   s = 1 /\ Lost' /\ scope'[s].told = "rejected"
      BY <2>1, <3>1, <3>2 DEF ToldInv, Turns, Lost
    <3>4. ~Alive(s)' => scope'[s].told # "nothing"
      BY <2>1, <3>1 DEF ToldInv, Turns
    <3>5. /\ scope'[s].pc \in {"committing", "releasing"} =>
                   ~scope'[s].undo
          /\ scope'[s].pc = "cleaning" => scope'[s].undo
      BY <2>1, <3>1 DEF ToldInv, Turns
    <3> QED
      BY <3>3, <3>4, <3>5
  <2>2. CASE s \notin DOMAIN scope
    BY <2>2 DEF Turns
  <2> QED
    BY <2>1, <2>2
<1>2. client' = "held" => Alive(1)'
  BY DEF ToldInv, Turns
<1> QED
  BY <1>1, <1>2 DEF ToldInv, Alive

(* The statements the server has executed are those of scopes that have    *)
(* begun.                                                                  *)
LEMMA RanNext ==
    ASSUME CoreInv, CoreInv', Fates, Turns, RanInv, IssuerGrows,
           \A w \in DOMAIN issuer' \ DOMAIN issuer :
              issuer'[w] \in DOMAIN scope,
           \A w \in ran' \ ran :
              w \in DOMAIN issuer
              /\ \A x \in Around(w) : scope[x].pc # "opening"
    PROVE  /\ RanInv'
           /\ \A w \in ran \cup ran' :
                 /\ w \in DOMAIN issuer /\ issuer'[w] = issuer[w]
                 /\ issuer[w] \in DOMAIN scope
                 /\ Around(w)' = Around(w)
                 /\ Around(w) \subseteq DOMAIN scope
<1>1. /\ DOMAIN issuer \subseteq DOMAIN issuer'
      /\ \A w \in DOMAIN issuer : issuer'[w] = issuer[w]
  BY DEF IssuerGrows
<1>2. \A w \in DOMAIN issuer' : issuer'[w] \in DOMAIN scope
  BY <1>1 DEF RanInv
<1>3. \A s \in DOMAIN scope : s \in DOMAIN scope' /\ Line'[s] = Line[s]
  BY LinesStay DEF CoreInv
<1>4. ASSUME NEW w \in ran \cup ran'
      PROVE  /\ w \in DOMAIN issuer /\ issuer'[w] = issuer[w]
             /\ issuer[w] \in DOMAIN scope
             /\ Around(w)' = Around(w)
             /\ Around(w) \subseteq DOMAIN scope
             /\ \A x \in Around(w) : scope[x].pc # "opening"
  <2>1. w \in DOMAIN issuer /\ issuer'[w] = issuer[w]
    BY <1>1, <1>4 DEF RanInv
  <2>2. issuer[w] \in DOMAIN scope
    BY <2>1 DEF RanInv
  <2>3. \A x \in Around(w) : scope[x].pc # "opening"
    BY <1>4 DEF RanInv
  <2>4. Around(w) \subseteq DOMAIN scope
    BY <2>2, LineOrder DEF CoreInv, Around
  <2>5. Around(w)' = Around(w)
    BY <1>3, <2>1, <2>2 DEF Around
  <2> QED
    BY <2>1, <2>2, <2>3, <2>4, <2>5
<1>5. \A w \in ran' : \A x \in Around(w)' : scope'[x].pc # "opening"
  BY <1>4 DEF Fates
<1>6. /\ ran' \subseteq DOMAIN issuer'
      /\ \A w \in DOMAIN issuer' : issuer'[w] \in DOMAIN scope'
  BY <1>1, <1>2, <1>3, <1>4
<1>7. RanInv'
  BY <1>5, <1>6 DEF RanInv
<1> QED
  BY <1>4, <1>7

LEMMA SpentNext ==
    ASSUME CoreInv, Preserved, SpentInv, Spends
    PROVE  SpentInv'
<1>1. Fates /\ AskedKept /\ JobInv
  BY DEF Preserved, CoreInv
<1> SUFFICES ASSUME NEW t \in DOMAIN scope', NEW s \in DOMAIN scope',
                    scope'[t].pc = "forgetting", t <= s
             PROVE  ~Pending(s)'
  BY DEF SpentInv
<1>2. CASE t \in DOMAIN scope /\ scope[t].pc = "forgetting"
  <2>1. Alive(t) /\ scope[t].closing
    BY <1>2 DEF CoreInv, ShapeInv, ScopeInv, Alive
  <2>2. ~Usable(s)
    BY <1>2, <2>1 DEF Usable, CoreInv, ShapeInv, StackInv, OnStack
  <2>3. ASSUME NEW k \in DOMAIN queue, queue[k].what \in Asked,
               queue[k].of = s
        PROVE  FALSE
    <3>1. s \in DOMAIN scope
      BY <1>1, <2>3 DEF JobInv, JobFits
    <3>2. Pending(s)
      BY <2>3 DEF Pending
    <3> QED
      BY <1>2, <3>1, <3>2 DEF SpentInv
  <2> QED
    BY <1>1, <2>2, <2>3 DEF Pending, AskedKept, MayJoin
<1> QED
  BY <1>2 DEF Spends

(* The lines of the statements that have run stay as they are.             *)
LinesHold ==
    \A w \in ran \cup ran' :
        /\ w \in DOMAIN issuer /\ issuer'[w] = issuer[w]
        /\ issuer[w] \in DOMAIN scope
        /\ Around(w)' = Around(w)
        /\ Around(w) \subseteq DOMAIN scope

LEMMA WorkNext ==
    ASSUME CoreInv, CoreInv', Fates, Turns, RanInv, WorkInv, LinesHold,
           Sinks, LetsGo
    PROVE  WorkInv'
<1>1. /\ DOMAIN scope = 1..Len(scope) /\ Len(scope) \in Nat
      /\ DOMAIN scope' = 1..Len(scope') /\ Len(scope') \in Nat
      /\ DOMAIN scope \subseteq DOMAIN scope'
  <2>1. DOMAIN scope = 1..Len(scope) /\ Len(scope) \in Nat
    BY Typed DEF CoreInv
  <2>2. Len(scope') \in Nat /\ DOMAIN scope' = 1..Len(scope')
    BY DEF CoreInv, TypeOK, Scopes
  <2> QED
    BY <2>1, <2>2 DEF Fates
<1> SUFFICES ASSUME NEW k \in DOMAIN marks', NEW w \in marks'[k].works
             PROVE  WorkFits(k, w)'
  BY DEF WorkInv
<1>2. PICK i \in DOMAIN marks :
          /\ w \in marks[i].works
          /\ marks'[k].of <= marks[i].of
          /\ \A x \in DOMAIN scope :
                /\ Begins(x) /\ Alive(x)'
                /\ Level(x) # {} /\ x <= marks[i].of
                => Level(x)' # {} /\ x <= marks'[k].of
  BY DEF Sinks
<1>3. WorkFits(i, w) /\ w \in ran /\ marks[i].of \in DOMAIN scope
  BY <1>2, HeldWork DEF WorkInv
<1>4. Around(w)' = Around(w) /\ Around(w) \subseteq DOMAIN scope
  BY <1>3 DEF LinesHold
<1>5. \A x \in DOMAIN scope :
         /\ x \in DOMAIN scope' /\ scope'[x].undo = scope[x].undo
         /\ Begins(x)' <=> Begins(x)
         /\ Alive(x)' => Alive(x)
  BY DEF Fates, Begins
<1>6. ASSUME NEW x \in Around(w), Begins(x)', Alive(x)'
      PROVE  Level(x)' # {} /\ x <= marks'[k].of
  <2>1. x \in DOMAIN scope /\ Begins(x) /\ Alive(x)
    BY <1>4, <1>5, <1>6
  <2>2. Level(x) # {} /\ x <= marks[i].of
    BY <1>3, <2>1 DEF WorkFits
  <2> QED
    BY <1>2, <1>6, <2>1, <2>2
<1>7. ASSUME NEW x \in DOMAIN scope', Begins(x)', Alive(x)',
             x <= marks'[k].of
      PROVE  x \in Around(w)
  <2>1. x <= marks[i].of
    <3>1. marks'[k].of \in DOMAIN scope'
      BY DEF CoreInv, MarkInv
    <3> QED
      BY <1>1, <1>2, <1>3, <1>7, <3>1
  <2>2. x \in DOMAIN scope
    BY <1>1, <1>3, <2>1
  <2>3. Begins(x) /\ Alive(x)
    BY <1>5, <1>7, <2>2
  <2> QED
    BY <1>3, <2>1, <2>2, <2>3 DEF WorkFits
<1>8. ASSUME NEW x \in Around(w), Begins(x)', ~Alive(x)'
      PROVE  scope'[x].told = "resolved" /\ ~scope'[x].undo
  <2>1. x \in DOMAIN scope /\ Begins(x)
    BY <1>4, <1>5, <1>8
  <2>2. CASE Alive(x)
    BY <1>5, <1>8, <2>1, <2>2 DEF LetsGo, HoldsOn
  <2>3. CASE ~Alive(x)
    <3>1. scope[x].told = "resolved" /\ ~scope[x].undo
      BY <1>3, <2>1, <2>3 DEF WorkFits
    <3> QED
      BY <1>5, <2>1, <2>3, <3>1 DEF Turns
  <2> QED
    BY <2>2, <2>3
<1>9. ASSUME NEW x \in Around(w), Begins(x)', Alive(x)'
      PROVE  ~scope'[x].undone
             /\ scope'[x].pc \notin {"waiting", "forgetting"}
  <2>1. x \in DOMAIN scope /\ Begins(x) /\ Alive(x)
    BY <1>4, <1>5, <1>9
  <2>2. ~scope[x].undone /\ scope[x].pc \notin {"waiting", "forgetting"}
    BY <1>3, <2>1 DEF WorkFits
  <2> QED
    BY <1>9, <2>1, <2>2 DEF LetsGo, HoldsOn
<1> QED
  BY <1>4, <1>6, <1>7, <1>8, <1>9 DEF WorkFits

(* A scope that is over stays so.                                          *)
LEMMA OverStays ==
    ASSUME Fates, Turns, NEW x \in DOMAIN scope, Over(x)
    PROVE  Over(x)'
<1>1. /\ scope'[x].undo = scope[x].undo
      /\ Begins(x) /\ Begins(x)'
      /\ Alive(x)' => Alive(x)
      /\ Alive(x)' /\ scope[x].poison => scope'[x].poison
  BY DEF Fates, Over, Begins
<1>2. CASE Alive(x)'
  <2>1. Doomed(x)
    BY <1>1, <1>2 DEF Over
  <2>2. Doomed(x)'
    BY <1>1, <1>2, <2>1 DEF Doomed, Turns
  <2> QED
    BY <1>1, <1>2, <2>2 DEF Over
<1>3. CASE Alive(x) /\ ~Alive(x)'
  <2>1. Doomed(x)
    BY <1>3 DEF Over
  <2> QED
    BY <1>1, <1>3, <2>1 DEF Over, Turns
<1>4. CASE ~Alive(x)
  <2>1. ~Alive(x)' /\ scope'[x].told = scope[x].told
        /\ scope'[x].kind = scope[x].kind
    BY <1>1, <1>4 DEF Turns
  <2> QED
    BY <1>1, <1>4, <2>1 DEF Over
<1> QED
  BY <1>2, <1>3, <1>4

LEMMA FateNext ==
    ASSUME CoreInv, Fates, Turns, FateInv, LinesHold, Drops,
           \A w \in ran' \ ran :
              w \in Works(DOMAIN marks)' \/ ~Begins(issuer[w])
    PROVE  FateInv'
<1> SUFFICES ASSUME NEW w \in ran', ~Lost', w \notin Works(DOMAIN marks)',
                    Begins(issuer[w])'
             PROVE  \E x \in Around(w)' : Over(x)'
  BY DEF FateInv
<1>1. /\ issuer'[w] = issuer[w] /\ issuer[w] \in DOMAIN scope
      /\ Around(w)' = Around(w) /\ Around(w) \subseteq DOMAIN scope
  BY DEF LinesHold
<1>2. Begins(issuer[w]) /\ ~Lost
  <2>1. Begins(issuer[w])
    BY <1>1 DEF Fates, Begins
  <2> QED
    BY <2>1 DEF Turns, Lost
<1>3. w \in ran
  BY <1>2
<1>4. CASE w \in Works(DOMAIN marks)
  BY <1>1, <1>4 DEF Drops
<1>5. CASE \E x \in Around(w) : Over(x)
  BY <1>1, <1>5, OverStays
<1> QED
  BY <1>2, <1>3, <1>4, <1>5 DEF FateInv

-----------------------------------------------------------------------------
(* What a transaction has promised.                                        *)

(* No scope between statement w and t, nor t, has given w up.              *)
Whole(w, t) ==
    \A s \in Around(w) :
        t \in Line[s] => scope[s].told = "resolved" /\ ~scope[s].undo

(* What is committed of t is so with its promise, and is all of it.        *)
Outcome(t) ==
    /\ \A w \in durable :
          t \in Around(w) => scope[t].told = "resolved" /\ Whole(w, t)
    /\ scope[t].told = "resolved" =>
          \A w \in ran : t \in Around(w) /\ Whole(w, t) => w \in durable

PromiseInv ==
    \A t \in DOMAIN scope \ excused :
        scope[t].kind = "transaction" => Outcome(t)

(* The sets of AllOrNothing, by what is around a statement.                *)
LEMMA WorksOf ==
    ASSUME CoreInv, RanInv, NEW t, NEW w
    PROVE  /\ w \in WorkOf(t) <=> w \in ran /\ t \in Around(w)
           /\ w \in Kept(t) <=> w \in ran /\ t \in Around(w) /\ Whole(w, t)
<1>1. w \in ran =>
         /\ issuer[w] \in DOMAIN scope /\ Around(w) \subseteq DOMAIN scope
  BY LineOrder DEF RanInv, Around, CoreInv
<1>2. w \in WorkOf(t) <=> w \in ran /\ t \in Around(w)
  BY <1>1 DEF WorkOf, Under, Around
<1>3. w \in Kept(t) <=>
         /\ w \in WorkOf(t)
         /\ \A s \in Around(w) : s \in Under(t) =>
               scope[s].told = "resolved" /\ ~scope[s].undo
  BY DEF Kept, Around
<1>4. w \in ran => \A s \in Around(w) : s \in Under(t) <=> t \in Line[s]
  BY <1>1 DEF Under
<1> QED
  BY <1>2, <1>3, <1>4 DEF Whole

(* The promise is that of AllOrNothing.                                    *)
LEMMA PromiseKept ==
    CoreInv /\ RanInv => (PromiseInv <=> AllOrNothing)
<1> SUFFICES ASSUME CoreInv, RanInv PROVE PromiseInv <=> AllOrNothing
  OBVIOUS
<1>1. durable \subseteq ran
  BY DEF CoreInv, TypeOK
<1>2. ASSUME NEW t \in DOMAIN scope
      PROVE  Outcome(t) <=>
                durable \cap WorkOf(t) =
                   IF scope[t].told = "resolved" THEN Kept(t) ELSE {}
  <2>1. \A w : /\ w \in WorkOf(t) <=> w \in ran /\ t \in Around(w)
               /\ w \in Kept(t) <=>
                     w \in ran /\ t \in Around(w) /\ Whole(w, t)
    BY WorksOf
  <2>2. CASE scope[t].told = "resolved"
    <3>1. Outcome(t) <=> \A w \in ran : t \in Around(w) =>
                            (w \in durable <=> Whole(w, t))
      BY <1>1, <2>2 DEF Outcome
    <3>2. (durable \cap WorkOf(t) = Kept(t)) <=>
             \A w \in ran : t \in Around(w) =>
                (w \in durable <=> Whole(w, t))
      BY <1>1, <2>1
    <3> QED
      BY <2>2, <3>1, <3>2
  <2>3. CASE scope[t].told # "resolved"
    <3>1. Outcome(t) <=> \A w \in durable : t \notin Around(w)
      BY <2>3 DEF Outcome
    <3>2. (durable \cap WorkOf(t) = {}) <=>
             \A w \in durable : t \notin Around(w)
      BY <1>1, <2>1
    <3> QED
      BY <2>3, <3>1, <3>2
  <2> QED
    BY <2>2, <2>3
<1> QED
  BY <1>2 DEF PromiseInv, AllOrNothing

(* What the server commits is what a transaction that resolves promises.   *)
Commits ==
    \A w \in durable' \ durable :
        \A t \in DOMAIN scope \ excused' :
            scope'[t].kind = "transaction" /\ t \in Around(w) =>
                scope'[t].told = "resolved" /\ Whole(w, t)'

(* A transaction that resolves has committed what it is not to give up.    *)
Resolves ==
    \A t \in DOMAIN scope \ excused' :
        /\ scope'[t].kind = "transaction" /\ scope'[t].told = "resolved"
        /\ Alive(t) /\ ~Alive(t)' /\ ~scope[t].undo
        => \A w \in ran : t \in Around(w) /\ Whole(w, t)' => w \in durable'

LEMMA PromiseNext ==
    ASSUME CoreInv, CoreInv', Fates, Turns, FamilyInv, ToldInv, RanInv,
           PromiseInv, LinesHold, Commits, Resolves,
           excused \subseteq excused', durable \subseteq durable',
           \A w \in ran' \ ran : \A t \in Around(w) :
              scope'[t].kind = "transaction" => Alive(t)'
    PROVE  PromiseInv'
<1>1. durable \subseteq ran /\ durable' \subseteq ran'
  BY DEF CoreInv, TypeOK
<1>2. \A s \in DOMAIN scope : s \in DOMAIN scope' /\ Line'[s] = Line[s]
  BY LinesStay DEF CoreInv
<1>3. \A s \in DOMAIN scope :
         /\ scope'[s].undo = scope[s].undo
         /\ ~Alive(s) =>
               ~Alive(s)' /\ scope'[s].told = scope[s].told
               /\ scope'[s].kind = scope[s].kind
         /\ scope[s].told = "resolved" => ~Alive(s)
         /\ scope'[s].told = "resolved" => ~Alive(s)'
  <2>1. ToldInv'
    BY ToldNext
  <2> QED
    BY <1>2, <2>1 DEF Fates, Turns, ToldInv, Alive
<1> SUFFICES ASSUME NEW t \in DOMAIN scope' \ excused',
                    scope'[t].kind = "transaction"
             PROVE  Outcome(t)'
  BY DEF PromiseInv
<1>4. CASE t \notin DOMAIN scope
  <2>1. \A w \in ran' : t \notin Around(w)'
    BY <1>4 DEF LinesHold
  <2> QED
    BY <1>1, <2>1 DEF Outcome
<1>5. CASE t \in DOMAIN scope
  <2>1. t \notin excused
    OBVIOUS
  <2>2. ASSUME NEW w \in durable', t \in Around(w)
        PROVE  scope'[t].told = "resolved" /\ Whole(w, t)'
    <3>1. CASE w \in durable
      <4>1. w \in ran /\ scope[t].pc # "opening"
        BY <1>1, <2>2, <3>1 DEF RanInv
      <4>2. scope[t].kind = "transaction"
        BY <1>5, <4>1 DEF Turns
      <4>3. scope[t].told = "resolved" /\ Whole(w, t)
        BY <1>5, <2>1, <2>2, <3>1, <4>2 DEF PromiseInv, Outcome
      <4>4. scope'[t].told = "resolved"
        BY <1>3, <1>5, <4>3
      <4>5. ASSUME NEW s \in Around(w), t \in Line'[s]
            PROVE  scope'[s].told = "resolved" /\ ~scope'[s].undo
        <5>1. s \in DOMAIN scope
          BY <4>1 DEF LinesHold
        <5>2. scope[s].told = "resolved" /\ ~scope[s].undo
          BY <1>2, <4>3, <4>5, <5>1 DEF Whole
        <5> QED
          BY <1>3, <5>1, <5>2
      <4>6. Around(w)' = Around(w)
        BY <4>1 DEF LinesHold
      <4> QED
        BY <4>4, <4>5, <4>6 DEF Whole
    <3>2. CASE w \notin durable
      BY <1>5, <2>2, <3>2 DEF Commits
    <3> QED
      BY <3>1, <3>2
  <2>3. ASSUME scope'[t].told = "resolved", NEW w \in ran',
               t \in Around(w), Whole(w, t)'
        PROVE  w \in durable'
    <3>1. ~Alive(t)'
      BY <1>3, <1>5, <2>3
    <3>2. w \in ran
      BY <2>3, <3>1
    <3>3. CASE Alive(t)
      <4>1. Around(w)' = Around(w) /\ t \in Line'[t]
        BY <1>2, <1>5, <3>2, LineUp DEF LinesHold, CoreInv
      <4>2. ~scope[t].undo
        BY <1>3, <1>5, <2>3, <4>1 DEF Whole
      <4> QED
        BY <1>5, <2>3, <3>1, <3>2, <3>3, <4>2 DEF Resolves
    <3>4. CASE ~Alive(t)
      <4>1. /\ scope[t].told = "resolved" /\ scope[t].kind = "transaction"
            /\ Begins(t)
        BY <1>3, <1>5, <2>3, <3>4 DEF Begins
      <4>2. ASSUME NEW s \in Around(w), t \in Line[s]
            PROVE  scope[s].told = "resolved" /\ ~scope[s].undo
        <5>1. s \in DOMAIN scope /\ Around(w)' = Around(w)
          BY <3>2 DEF LinesHold
        <5>2. scope'[s].told = "resolved" /\ ~scope'[s].undo
          BY <1>2, <2>3, <4>2, <5>1 DEF Whole
        <5>3. ~Alive(s)
          BY <3>4, <4>1, <4>2, <5>1, OpenWithinOpen
        <5> QED
          BY <1>3, <5>1, <5>2, <5>3
      <4>3. Whole(w, t)
        BY <4>2 DEF Whole
      <4> QED
        BY <1>5, <2>1, <2>3, <3>2, <4>1, <4>3 DEF PromiseInv, Outcome
    <3> QED
      BY <3>3, <3>4
  <2>4. \A w \in ran' : Around(w)' = Around(w)
    BY DEF LinesHold
  <2> QED
    BY <1>1, <2>2, <2>3, <2>4 DEF Outcome
<1> QED
  BY <1>4, <1>5

(* What a transaction promises, and all it rests on.                       *)
HoldInv ==
    /\ FamilyInv /\ ToldInv /\ RanInv /\ SpentInv /\ WorkInv /\ FateInv
    /\ PromiseInv

(* The callers have no answer yet.                                         *)
Untold(sc) ==
    \A x \in DOMAIN scope : sc[x].told = scope[x].told

LEMMA UntoldBy ==
    ASSUME TypeOK, NEW s \in DOMAIN scope
    PROVE  /\ Untold(scope) /\ Untold(Undone(s)) /\ Untold(PoisonSelf(s))
           /\ Untold(PoisonStack) /\ Untold([scope EXCEPT ![s].closing = TRUE])
           /\ Untold(Closed(scope, s))
<1>1. scope \in [DOMAIN scope -> ScopeRecord] /\ scope[s] \in ScopeRecord
  BY Typed
<1>2. ASSUME NEW r \in {[scope[s] EXCEPT !.undone = TRUE],
                        [scope[s] EXCEPT !.poison = TRUE],
                        [scope[s] EXCEPT !.closing = TRUE]}
      PROVE  Untold([scope EXCEPT ![s] = r])
  <2>1. r.told = scope[s].told
    BY <1>1, <1>2 DEF ScopeRecord
  <2> HIDE DEF ScopeRecord
  <2> QED
    BY <1>1, <2>1 DEF Untold
<1>3. /\ Untold(Undone(s)) /\ Untold(PoisonSelf(s))
      /\ Untold([scope EXCEPT ![s].closing = TRUE])
      /\ Untold(Closed(scope, s))
  BY <1>2 DEF Undone, PoisonSelf, Closed
<1>4. Untold(PoisonStack)
  <2>1. \A x \in DOMAIN scope :
           [scope[x] EXCEPT !.poison = TRUE].told = scope[x].told
    BY <1>1 DEF ScopeRecord
  <2> HIDE DEF OnStack
  <2> QED
    BY <2>1 DEF Untold, PoisonStack
<1> QED
  BY <1>3, <1>4 DEF Untold

(* The scopes stay where they are.                                         *)
LEMMA StillTurns ==
    ASSUME CoreInv, NEW s, Touched(scope', s), Untold(scope'),
           client' = client, link' \in {link, "down"}
    PROVE  Turns /\ Spends /\ Resolves /\ DOMAIN scope' = DOMAIN scope
<1>1. DOMAIN scope' = DOMAIN scope /\ 1 \in DOMAIN scope
  BY Typed DEF Touched, CoreInv
<1>2. \A x \in DOMAIN scope :
         /\ scope'[x].told = scope[x].told /\ scope'[x].pc = scope[x].pc
         /\ scope'[x].kind = scope[x].kind
  BY DEF Touched, Untold
<1> QED
  BY <1>1, <1>2 DEF Turns, Spends, Resolves, Alive

(* One scope goes on.                                                      *)
LEMMA MovedTurns ==
    ASSUME CoreInv, NEW s \in DOMAIN scope, Alive(s), NEW sc, Touched(sc, s),
           Untold(sc), NEW pc \in Progress \ {"done"}, Moved(sc, s, pc),
           client' = client, link' \in {link, "down"},
           Begins(s) /\ scope[s].pc \in Failing => pc \in Failing,
           pc \in {"committing", "releasing"} => ~scope[s].undo,
           pc = "cleaning" => scope[s].undo
    PROVE  /\ Turns /\ Resolves /\ DOMAIN scope' = DOMAIN scope
           /\ pc # "forgetting" => Spends
           /\ scope'[s].pc = pc /\ scope'[s].undone = sc[s].undone
           /\ scope'[s].poison = sc[s].poison
           /\ \A x \in DOMAIN scope : x # s =>
                 scope'[x] = sc[x] /\ scope'[x].pc = scope[x].pc
<1>1. DOMAIN scope' = DOMAIN scope /\ 1 \in DOMAIN scope
      /\ sc[s] \in ScopeRecord
  BY Typed DEF Moved, Touched, CoreInv
<1>2. /\ scope'[s].pc = pc /\ scope'[s].kind = sc[s].kind
      /\ scope'[s].told = sc[s].told /\ scope'[s].undone = sc[s].undone
      /\ scope'[s].poison = sc[s].poison
  BY <1>1 DEF Moved, ScopeRecord
<1>3. \A x \in DOMAIN scope :
         /\ scope'[x].told = scope[x].told
         /\ scope'[x].kind = scope[x].kind
         /\ x # s => scope'[x] = sc[x] /\ scope'[x].pc = scope[x].pc
  <2>1. \A x \in DOMAIN scope : x # s => scope'[x] = sc[x]
    BY DEF Moved
  <2> QED
    BY <1>2, <2>1 DEF Touched, Untold
<1>4. \A x \in DOMAIN scope : Alive(x)' <=> Alive(x)
  BY <1>2, <1>3 DEF Alive
<1>5. Turns
  BY <1>1, <1>2, <1>3, <1>4 DEF Turns
<1>6. Resolves
  BY <1>4 DEF Resolves
<1>7. pc # "forgetting" => Spends
  BY <1>1, <1>2, <1>3 DEF Spends
<1> QED
  BY <1>1, <1>2, <1>3, <1>5, <1>6, <1>7

(* One scope comes to its end.                                             *)
LEMMA LeftTurns ==
    ASSUME CoreInv, ToldInv, NEW s \in DOMAIN scope, Alive(s),
           NEW sc, Touched(sc, s), Untold(sc),
           NEW v \in {"resolved", "rejected"},
           NEW sd \in Settling(sc, s), NEW q, Leave(s, v, sd, q),
           link' \in {link, "down"},
           Begins(s) /\ Doomed(s) /\ v = "resolved" =>
              scope[s].undo \/ scope[s].kind = "transaction"
    PROVE  /\ Turns /\ Spends /\ DOMAIN scope' = DOMAIN scope
           /\ ~Alive(s)' /\ scope'[s].kind = scope[s].kind
           /\ scope'[s].told =
                 IF scope[s].told = "nothing" THEN v ELSE "rejected"
           /\ \A x \in DOMAIN scope : x # s =>
                 scope'[x] = sc[x] /\ scope'[x].pc = scope[x].pc
           /\ \/ v = "rejected" \/ scope[s].kind # "transaction"
              \/ scope[s].undo
              => Resolves
<1>0. sc[s] \in ScopeRecord /\ sc \in [DOMAIN scope -> ScopeRecord]
  BY DEF Touched
<1>1. /\ sd \in [DOMAIN scope -> ScopeRecord] /\ sd[s] \in ScopeRecord
      /\ sd[s].told = sc[s].told /\ sd[s].kind = sc[s].kind
      /\ \A x \in DOMAIN scope : x # s => sd[x] = sc[x]
  <2> DEFINE r == [sc[s] EXCEPT !.settled = "resolved"]
  <2>1. r \in ScopeRecord /\ r.told = sc[s].told /\ r.kind = sc[s].kind
    BY <1>0 DEF ScopeRecord
  <2>2. sd = sc \/ sd = [sc EXCEPT ![s] = r]
    BY DEF Settling
  <2> HIDE DEF r, ScopeRecord
  <2> QED
    BY <1>0, <2>1, <2>2
<1>2. scope[s].told \in {"nothing", "rejected"}
  BY DEF ToldInv
<1>3. sc[s].told = scope[s].told /\ sc[s].kind = scope[s].kind
  BY DEF Untold, Touched
<1> DEFINE r == Left(sd[s], v)
<1>4. /\ r.pc = "done" /\ r.kind = scope[s].kind
      /\ r.told = IF scope[s].told = "nothing" THEN v ELSE "rejected"
  <2>1. r.pc = "done" /\ r.kind = scope[s].kind
    BY <1>1, <1>3, LeftRecord
  <2>2. sd[s].told = scope[s].told
    BY <1>1, <1>3
  <2>3. r.told = IF sd[s].told = "nothing" THEN v ELSE sd[s].told
    BY <1>1 DEF Left, ScopeRecord
  <2> QED
    BY <1>2, <2>1, <2>2, <2>3
<1>5. scope' = [sd EXCEPT ![s] = r]
  BY DEF Leave, Left
<1> HIDE DEF r, ScopeRecord
<1>6. /\ DOMAIN scope' = DOMAIN scope /\ scope'[s] = r
      /\ \A x \in DOMAIN scope : x # s => scope'[x] = sc[x]
  BY <1>1, <1>5
<1>7. \A x \in DOMAIN scope : x # s =>
         /\ scope'[x].pc = scope[x].pc /\ scope'[x].told = scope[x].told
         /\ scope'[x].kind = scope[x].kind
  BY <1>6 DEF Touched, Untold
<1>8. client' = "held" => client = "held" /\ (Alive(1) => Alive(1)')
  <2>1. 1 \in DOMAIN scope
    BY Typed DEF CoreInv
  <2>2. client' = IF s # 1 \/ client # "held" THEN client
                  ELSE IF link = "up" THEN "returned" ELSE "destroyed"
    BY DEF Leave
  <2> QED
    BY <1>7, <2>1, <2>2 DEF Alive
<1>9. ~Alive(s)'
  BY <1>4, <1>6 DEF Alive
<1>10. \A x \in DOMAIN scope : x # s => (Alive(x)' <=> Alive(x))
  BY <1>7 DEF Alive
<1>11. Turns
  BY <1>4, <1>6, <1>7, <1>8, <1>9, <1>10 DEF Turns
<1>12. Spends
  BY <1>4, <1>6, <1>7 DEF Spends
<1>13. ASSUME \/ v = "rejected" \/ scope[s].kind # "transaction"
              \/ scope[s].undo
       PROVE  Resolves
  <2>1. ASSUME NEW t \in DOMAIN scope, scope'[t].kind = "transaction",
               scope'[t].told = "resolved", Alive(t), ~Alive(t)'
        PROVE  scope[t].undo
    BY <1>4, <1>6, <1>10, <1>13, <2>1
  <2> QED
    BY <2>1 DEF Resolves
<1> QED
  BY <1>4, <1>6, <1>7, <1>9, <1>11, <1>12, <1>13

(* What the server does to what it holds.                                  *)
LEMMA HoldsSame ==
    ASSUME CoreInv,
           \A i \in DOMAIN marks : i \in DOMAIN marks' /\ marks'[i] = marks[i],
           \A k \in DOMAIN marks' \ DOMAIN marks : marks'[k].works = {}
    PROVE  Sinks /\ Drops /\ \A x : HoldsOn(x) => Holds(x)
<1>1. ASSUME NEW k \in DOMAIN marks', NEW w \in marks'[k].works
      PROVE  k \in DOMAIN marks /\ marks'[k] = marks[k]
  BY <1>1
<1>2. \A x : Level(x) # {} => Level(x)' # {}
  BY DEF Level
<1>3. \A i \in DOMAIN marks : marks[i].of \in Nat
  BY Typed DEF CoreInv, MarkInv
<1>4. Sinks
  BY <1>1, <1>2, <1>3 DEF Sinks
<1>5. Drops
  BY DEF Drops, Works
<1> QED
  BY <1>1, <1>4, <1>5 DEF Holds, HoldsOn

(* The server keeps what it holds.                                         *)
LEMMA HoldsAsBefore ==
    ASSUME CoreInv, marks' = marks
    PROVE  Sinks /\ Drops /\ \A x : HoldsOn(x) => Holds(x)
BY HoldsSame

(* The server holds nothing any more.                                      *)
LEMMA HoldsNoMore ==
    ASSUME marks' = <<>>
    PROVE  Sinks /\ \A x : ~HoldsOn(x)
BY DEF Sinks, HoldsOn

(* The levels of scope s and those above it are gone.                      *)
LEMMA HoldsBack ==
    ASSUME CoreInv, RanInv, WorkInv, NEW s \in DOMAIN scope, Begins(s),
           Alive(s), BackTo(s)
    PROVE  /\ Sinks /\ ~HoldsOn(s) /\ \A x : HoldsOn(x) => Holds(x)
           /\ Over(s)' => Drops
<1>1. PICK i \in Level(s) :
          marks' = [SubSeq(marks, 1, i) EXCEPT ![i].works = {}]
  BY DEF BackTo
<1>2. /\ marks \in Seq(MarkRecord) /\ Len(marks) \in Nat
      /\ DOMAIN marks = 1..Len(marks) /\ i \in 1..Len(marks)
      /\ marks[i].of = s
      /\ DOMAIN scope = 1..Len(scope) /\ Len(scope) \in Nat
  <2>1. /\ marks \in Seq(MarkRecord) /\ Len(marks) \in Nat
        /\ DOMAIN marks = 1..Len(marks)
        /\ DOMAIN scope = 1..Len(scope) /\ Len(scope) \in Nat
    BY Typed DEF CoreInv
  <2> HIDE DEF MarkRecord
  <2> QED
    BY <2>1 DEF Level
<1>3. /\ DOMAIN marks' = 1..i /\ marks'[i].works = {} /\ marks'[i].of = s
      /\ \A k \in 1..(i - 1) : marks'[k] = marks[k]
  <2>1. /\ SubSeq(marks, 1, i) \in [1..i -> MarkRecord]
        /\ \A k \in 1..i : SubSeq(marks, 1, i)[k] = marks[k]
    <3> HIDE DEF MarkRecord
    <3>1. i \in 0..Len(marks)
      BY <1>2
    <3> QED
      BY <1>2, <3>1, Prefix
  <2> DEFINE r == [marks[i] EXCEPT !.works = {}]
  <2>2. r.works = {} /\ r.of = s
    <3>1. marks[i] \in MarkRecord
      <4> HIDE DEF MarkRecord
      <4> QED
        BY <1>2
    <3> QED
      BY <1>2, <3>1 DEF MarkRecord
  <2>3. PICK m : m = SubSeq(marks, 1, i)
    OBVIOUS
  <2>4. marks' = [m EXCEPT ![i] = r]
    BY <1>1, <1>2, <2>1, <2>3
  <2> HIDE DEF r, MarkRecord
  <2>5. i \in 1..i /\ \A k \in 1..(i - 1) : k \in 1..i /\ k # i
    BY <1>2
  <2>6. /\ DOMAIN m = 1..i /\ \A k \in 1..i : m[k] = marks[k]
    BY <2>1, <2>3
  <2>7. DOMAIN marks' = 1..i /\ marks'[i] = r
    BY <2>4, <2>5, <2>6
  <2>8. \A k \in 1..(i - 1) : marks'[k] = marks[k]
    BY <2>4, <2>5, <2>6
  <2> QED
    BY <2>2, <2>7, <2>8
<1>4. \A k \in DOMAIN marks : marks[k].of \in DOMAIN scope
  BY DEF CoreInv, MarkInv
<1>5. \A k \in DOMAIN marks : k < i <=> marks[k].of < s
  <2> SUFFICES ASSUME NEW k \in DOMAIN marks
               PROVE  k < i <=> marks[k].of < s
    OBVIOUS
  <2>1. k < i => marks[k].of < marks[i].of
    BY <1>2 DEF CoreInv, MarkInv
  <2>2. i < k => marks[i].of < marks[k].of
    BY <1>2 DEF CoreInv, MarkInv
  <2>3. /\ k = i \/ k < i \/ i < k
        /\ ~(i < i) /\ ~(i < k /\ k < i)
    BY <1>2
  <2>4. marks[k].of \in Nat /\ s \in Nat
    BY <1>2, <1>4
  <2>5. marks[i].of = s
    BY <1>2
  <2> QED
    BY <2>1, <2>2, <2>3, <2>4, <2>5
<1>6. ASSUME NEW k \in DOMAIN marks', NEW w \in marks'[k].works
      PROVE  /\ k \in DOMAIN marks /\ k < i /\ marks'[k] = marks[k]
             /\ marks[k].of < s /\ s \notin Around(w)
  <2>1. k \in 1..(i - 1)
    BY <1>2, <1>3, <1>6
  <2>2. k \in DOMAIN marks /\ k < i /\ marks'[k] = marks[k]
    BY <1>2, <1>3, <2>1
  <2>3. marks[k].of < s
    BY <1>5, <2>2
  <2>4. WorkFits(k, w)
    BY <1>6, <2>2 DEF WorkInv
  <2>5. s \in Around(w) => s <= marks[k].of
    BY <2>4 DEF WorkFits
  <2>6. marks[k].of \in Nat /\ s \in Nat
    BY <1>2, <1>4, <2>2
  <2> QED
    BY <2>2, <2>3, <2>5, <2>6
<1>7. Sinks
  <2> SUFFICES ASSUME NEW k \in DOMAIN marks', NEW w \in marks'[k].works
               PROVE  /\ k \in DOMAIN marks /\ w \in marks[k].works
                      /\ marks'[k].of <= marks[k].of
                      /\ \A x \in DOMAIN scope :
                            /\ Begins(x) /\ Alive(x)'
                            /\ Level(x) # {} /\ x <= marks[k].of
                            => Level(x)' # {} /\ x <= marks'[k].of
    BY DEF Sinks
  <2>1. /\ k \in DOMAIN marks /\ k < i /\ marks'[k] = marks[k]
        /\ marks[k].of < s /\ w \in marks[k].works
    BY <1>6
  <2>2. marks'[k].of <= marks[k].of
    BY <1>2, <1>4, <2>1
  <2>3. ASSUME NEW x \in DOMAIN scope, Level(x) # {}, x <= marks[k].of
        PROVE  Level(x)' # {}
    <3>1. PICK j \in DOMAIN marks : marks[j].of = x
      BY <2>3 DEF Level
    <3>2. x < s
      BY <1>2, <1>4, <2>1, <2>3
    <3>3. j < i
      BY <1>5, <3>1, <3>2
    <3>4. j \in 1..(i - 1)
      BY <1>2, <3>1, <3>3
    <3>5. j \in DOMAIN marks' /\ marks'[j].of = x
      BY <1>2, <1>3, <3>1, <3>4
    <3> QED
      BY <3>5 DEF Level
  <2> QED
    BY <2>1, <2>2, <2>3
<1>8. ASSUME Over(s)'
      PROVE  Drops
  <2> SUFFICES ASSUME NEW w \in Works(DOMAIN marks),
                      w \notin Works(DOMAIN marks)'
               PROVE  s \in Around(w)
    BY <1>8 DEF Drops
  <2>1. PICK k \in DOMAIN marks : w \in marks[k].works
    BY DEF Works
  <2>2. ~(k < i)
    <3> SUFFICES ASSUME k < i PROVE FALSE
      OBVIOUS
    <3>1. k \in 1..(i - 1) /\ k \in DOMAIN marks'
      BY <1>2, <1>3, <2>1
    <3>2. w \in marks'[k].works
      BY <1>3, <2>1, <3>1
    <3> QED
      BY <3>1, <3>2 DEF Works
  <2>3. s <= marks[k].of
    BY <1>2, <1>4, <1>5, <2>1, <2>2
  <2>4. WorkFits(k, w)
    BY <2>1 DEF WorkInv
  <2> QED
    BY <2>3, <2>4 DEF WorkFits
<1> QED
  BY <1>6, <1>7, <1>8 DEF Holds, HoldsOn

(* The levels of scope s, the innermost, become part of the one below.     *)
LEMMA HoldsMerged ==
    ASSUME CoreInv, RanInv, WorkInv, Fates, NEW s \in DOMAIN scope,
           Top(s), ~Alive(s)', Merge(s), scope[s].kind = "savepoint"
    PROVE  Sinks /\ Drops /\ \A x : HoldsOn(x) => Holds(x)
<1>1. PICK i \in Level(s) :
          marks' = [SubSeq(marks, 1, i - 1) EXCEPT
                        ![i - 1].works = Works((i - 1) .. Len(marks))]
  BY DEF Merge
<1>2. /\ marks \in Seq(MarkRecord) /\ Len(marks) \in Nat
      /\ DOMAIN marks = 1..Len(marks) /\ i \in 1..Len(marks)
      /\ marks[i].of = s
      /\ DOMAIN scope = 1..Len(scope) /\ Len(scope) \in Nat
  <2>1. /\ marks \in Seq(MarkRecord) /\ Len(marks) \in Nat
        /\ DOMAIN marks = 1..Len(marks)
        /\ DOMAIN scope = 1..Len(scope) /\ Len(scope) \in Nat
    BY Typed DEF CoreInv
  <2> HIDE DEF MarkRecord
  <2> QED
    BY <2>1 DEF Level
<1> DEFINE W == Works((i - 1) .. Len(marks))
<1>3. /\ DOMAIN marks' = 1..(i - 1)
      /\ \A k \in 1..(i - 1) :
            /\ marks'[k].of = marks[k].of
            /\ marks'[k].works = IF k = i - 1 THEN W ELSE marks[k].works
  <2>1. /\ SubSeq(marks, 1, i - 1) \in [1..(i - 1) -> MarkRecord]
        /\ \A k \in 1..(i - 1) : SubSeq(marks, 1, i - 1)[k] = marks[k]
    <3> HIDE DEF MarkRecord
    <3>1. i - 1 \in 0..Len(marks)
      BY <1>2
    <3> QED
      BY <1>2, <3>1, Prefix
  <2>2. PICK m : m = SubSeq(marks, 1, i - 1)
    OBVIOUS
  <2> HIDE DEF W
  <2> DEFINE r == [m[i - 1] EXCEPT !.works = W]
  <2>3. marks' = [m EXCEPT ![i - 1] = r]
    BY <1>1, <2>2 DEF W
  <2>4. i - 1 \in 1..(i - 1) => r.works = W /\ r.of = marks[i - 1].of
    <3> SUFFICES ASSUME i - 1 \in 1..(i - 1)
                 PROVE  r.works = W /\ r.of = marks[i - 1].of
      OBVIOUS
    <3>1. m[i - 1] = marks[i - 1] /\ m[i - 1] \in MarkRecord
      <4> HIDE DEF MarkRecord
      <4> QED
        BY <2>1, <2>2
    <3> QED
      BY <3>1 DEF MarkRecord
  <2> HIDE DEF r, MarkRecord
  <2>5. DOMAIN marks' = 1..(i - 1)
    BY <2>1, <2>2, <2>3
  <2>6. \A k \in 1..(i - 1) :
           marks'[k] = IF k = i - 1 THEN r ELSE marks[k]
    BY <2>1, <2>2, <2>3
  <2> QED
    BY <2>4, <2>5, <2>6
<1> HIDE DEF W
<1>4. \A k \in DOMAIN marks : marks[k].of \in DOMAIN scope
  BY DEF CoreInv, MarkInv
<1>5. \A k \in DOMAIN marks : \A j \in DOMAIN marks :
         k <= j => marks[k].of <= marks[j].of
  <2> SUFFICES ASSUME NEW k \in DOMAIN marks, NEW j \in DOMAIN marks, k <= j
               PROVE  marks[k].of <= marks[j].of
    OBVIOUS
  <2>1. k < j => marks[k].of < marks[j].of
    BY DEF CoreInv, MarkInv
  <2>2. marks[k].of \in Nat /\ marks[j].of \in Nat
    BY <1>2, <1>4
  <2> QED
    BY <1>2, <2>1, <2>2
<1>6. ASSUME NEW k \in DOMAIN marks', NEW w \in marks'[k].works
      PROVE  \E j \in DOMAIN marks :
                /\ w \in marks[j].works /\ k <= j
                /\ j = k \/ k = i - 1
  <2>1. CASE k = i - 1
    <3>1. w \in W
      BY <1>3, <1>6, <2>1
    <3>2. PICK j \in (i - 1) .. Len(marks) : w \in marks[j].works
      BY <3>1 DEF W, Works
    <3>3. j \in DOMAIN marks /\ k <= j
      BY <1>2, <1>3, <2>1, <3>2
    <3> QED
      BY <2>1, <3>2, <3>3
  <2>2. CASE k # i - 1
    <3>1. k \in DOMAIN marks /\ w \in marks[k].works /\ k <= k
      BY <1>2, <1>3, <1>6, <2>2
    <3> QED
      BY <3>1
  <2> QED
    BY <2>1, <2>2
<1>7. ASSUME NEW x \in DOMAIN scope, Begins(x), Alive(x)', Level(x) # {}
      PROVE  \E j \in 1..(i - 1) : marks[j].of = x /\ marks'[j].of = x
  <2>1. x # s /\ Alive(x)
    BY <1>7 DEF Fates
  <2>2. x < s
    <3>1. x <= s
      BY <2>1, TopIsLast
    <3> QED
      BY <1>2, <2>1, <3>1
  <2>3. PICK j \in DOMAIN marks : marks[j].of = x
    BY <1>7 DEF Level
  <2>4. ~(i <= j)
    BY <1>2, <1>5, <2>2, <2>3
  <2>5. j \in 1..(i - 1)
    BY <1>2, <2>3, <2>4
  <2> QED
    BY <1>3, <2>3, <2>5
<1>8. Sinks
  <2> SUFFICES ASSUME NEW k \in DOMAIN marks', NEW w \in marks'[k].works
               PROVE  \E j \in DOMAIN marks :
                         /\ w \in marks[j].works
                         /\ marks'[k].of <= marks[j].of
                         /\ \A x \in DOMAIN scope :
                               /\ Begins(x) /\ Alive(x)'
                               /\ Level(x) # {} /\ x <= marks[j].of
                               => Level(x)' # {} /\ x <= marks'[k].of
    BY DEF Sinks
  <2>1. PICK j \in DOMAIN marks :
           w \in marks[j].works /\ k <= j /\ (j = k \/ k = i - 1)
    BY <1>6
  <2>2. k \in DOMAIN marks /\ k \in 1..(i - 1) /\ marks'[k].of = marks[k].of
    BY <1>2, <1>3
  <2>3. marks'[k].of <= marks[j].of
    BY <1>5, <2>1, <2>2
  <2>4. ASSUME NEW x \in DOMAIN scope, Begins(x), Alive(x)',
               Level(x) # {}, x <= marks[j].of
        PROVE  Level(x)' # {} /\ x <= marks'[k].of
    <3>1. PICK l \in 1..(i - 1) : marks[l].of = x /\ marks'[l].of = x
      BY <1>7, <2>4
    <3>2. Level(x)' # {}
      BY <1>3, <3>1 DEF Level
    <3>3. x <= marks'[k].of
      <4>1. CASE j = k
        BY <2>2, <2>4, <4>1
      <4>2. CASE k = i - 1
        <5>1. l \in DOMAIN marks /\ l <= k
          BY <1>2, <3>1, <4>2
        <5> QED
          BY <1>5, <2>2, <3>1, <5>1
      <4> QED
        BY <2>1, <4>1, <4>2
    <3> QED
      BY <3>2, <3>3
  <2> QED
    BY <2>1, <2>3, <2>4
<1>9. Drops
  <2> SUFFICES ASSUME NEW w \in Works(DOMAIN marks)
               PROVE  w \in Works(DOMAIN marks)'
    BY DEF Drops
  <2>1. PICK j \in DOMAIN marks : w \in marks[j].works
    BY DEF Works
  <2>2. i - 1 \in 1..(i - 1)
    <3>1. i # 1
      <4> SUFFICES ASSUME i = 1 PROVE FALSE
        OBVIOUS
      <4>1. 1 \in DOMAIN marks /\ marks # <<>> /\ marks[1].of = s
        BY <1>2
      <4>2. scope[s].kind = "transaction"
        BY <4>1 DEF CoreInv, MarkInv
      <4> QED
        BY <4>2
    <3> QED
      BY <1>2, <3>1
  <2>3. CASE j < i - 1
    <3>1. j \in 1..(i - 1) /\ j # i - 1
      BY <1>2, <2>1, <2>3
    <3>2. j \in DOMAIN marks' /\ w \in marks'[j].works
      BY <1>3, <2>1, <3>1
    <3> QED
      BY <3>2 DEF Works
  <2>4. CASE ~(j < i - 1)
    <3>1. j \in (i - 1) .. Len(marks)
      BY <1>2, <2>1, <2>4
    <3>2. w \in W
      BY <2>1, <3>1 DEF W, Works
    <3>3. i - 1 \in DOMAIN marks' /\ w \in marks'[i - 1].works
      BY <1>3, <2>2, <3>2
    <3> QED
      BY <3>3 DEF Works
  <2> QED
    BY <2>3, <2>4
<1>10. \A x : HoldsOn(x) => Holds(x)
  BY <1>6 DEF Holds, HoldsOn
<1> QED
  BY <1>8, <1>9, <1>10

(* Of what is held, only scope s may let go.                               *)
LEMMA LetsGoFrom ==
    ASSUME Fates, NEW s,
           \A x \in DOMAIN scope : x # s =>
              /\ scope'[x].pc = scope[x].pc
              /\ scope'[x].undone => scope[x].undone,
           \/ s \notin DOMAIN scope \/ ~Begins(s) \/ ~Alive(s) \/ ~HoldsOn(s)
           \/ /\ ~Alive(s)' /\ scope'[s].told = "resolved"
              /\ ~scope[s].undo
           \/ /\ Alive(s)'
              /\ scope'[s].undone \/ scope'[s].pc \in {"waiting", "forgetting"}
                 => \/ scope[s].undone
                    \/ scope[s].pc \in {"waiting", "forgetting"}
    PROVE  LetsGo
<1>1. ASSUME NEW x \in DOMAIN scope, x # s
      PROVE  /\ Alive(x)' <=> Alive(x)
             /\ /\ scope'[x].undone
                   \/ scope'[x].pc \in {"waiting", "forgetting"}
                => scope[x].undone \/ scope[x].pc \in {"waiting", "forgetting"}
  BY <1>1 DEF Alive
<1>2. \A x \in DOMAIN scope : Alive(x)' => Alive(x)
  BY DEF Fates
<1>3. ASSUME NEW x \in DOMAIN scope, Begins(x), Alive(x), ~Alive(x)',
             HoldsOn(x)
      PROVE  scope'[x].told = "resolved" /\ ~scope[x].undo
  <2>1. x = s
    BY <1>1, <1>3
  <2> QED
    BY <1>3, <2>1
<1>4. ASSUME NEW x \in DOMAIN scope, Begins(x), Alive(x)', HoldsOn(x),
             Alive(x),
             scope'[x].undone \/ scope'[x].pc \in {"waiting", "forgetting"}
      PROVE  scope[x].undone \/ scope[x].pc \in {"waiting", "forgetting"}
  <2>1. CASE x # s
    BY <1>1, <1>4, <2>1
  <2>2. CASE x = s
    BY <1>4, <2>2
  <2> QED
    BY <2>1, <2>2
<1> QED
  BY <1>2, <1>3, <1>4 DEF LetsGo

(* A transaction holds all that the server holds.                          *)
LEMMA EndDrops ==
    ASSUME CoreInv, RanInv, WorkInv, NEW s \in DOMAIN scope, Alive(s),
           scope[s].kind = "transaction", Over(s)'
    PROVE  Drops
<1> SUFFICES ASSUME NEW w \in Works(DOMAIN marks)
             PROVE  \E x \in Around(w) : Over(x)'
  BY DEF Drops
<1>1. PICK i \in DOMAIN marks : w \in marks[i].works
  BY DEF Works
<1>2. s \in Around(w)
  BY <1>1, TransactionHolds
<1> QED
  BY <1>2

LEMMA NothingDrops ==
    ASSUME marks = <<>> \/ Lost'
    PROVE  Drops
<1>1. marks = <<>> => Works(DOMAIN marks) = {}
  BY DEF Works
<1> QED
  BY <1>1 DEF Drops

(* A step that runs no statement keeps the invariant.                      *)
LEMMA HoldNext ==
    ASSUME CoreInv, Preserved, HoldInv, Turns, Spends, Resolves, Sinks,
           LetsGo, Drops, Commits, IssuerGrows,
           \A w \in DOMAIN issuer' \ DOMAIN issuer :
              issuer'[w] \in DOMAIN scope,
           ran' = ran, excused \subseteq excused', durable \subseteq durable'
    PROVE  HoldInv'
<1>1. /\ CoreInv' /\ Fates /\ FamilyInv /\ ToldInv /\ RanInv /\ SpentInv
      /\ WorkInv /\ FateInv /\ PromiseInv
  BY PreservedCore DEF Preserved, HoldInv
<1>2. FamilyInv' /\ ToldInv'
  BY <1>1, FamilyNext, ToldNext
<1>3. RanInv' /\ LinesHold
  BY <1>1, RanNext DEF LinesHold
<1>4. SpentInv'
  BY <1>1, SpentNext
<1>5. WorkInv'
  BY <1>1, <1>3, WorkNext
<1>6. FateInv'
  BY <1>1, <1>3, FateNext
<1>7. PromiseInv'
  BY <1>1, <1>3, PromiseNext
<1> QED
  BY <1>2, <1>3, <1>4, <1>5, <1>6, <1>7 DEF HoldInv

(* Nor commits one.                                                        *)
LEMMA HoldQuiet ==
    ASSUME CoreInv, Preserved, HoldInv, Turns, Spends, Resolves, Sinks,
           LetsGo, Drops, UNCHANGED historyVars
    PROVE  HoldInv'
<1>1. /\ issuer' = issuer /\ ran' = ran /\ durable' = durable
      /\ excused' = excused
  BY DEF historyVars
<1>2. Commits /\ IssuerGrows
  BY <1>1 DEF Commits, IssuerGrows
<1> QED
  BY <1>1, <1>2, HoldNext

(* A scope goes on.                                                        *)
LEMMA HoldMoved ==
    ASSUME CoreInv, HoldInv, Preserved, UNCHANGED historyVars,
           NEW s \in DOMAIN scope, Alive(s),
           NEW sc, Touched(sc, s), Untold(sc),
           NEW pc \in Progress \ {"done"}, scope' = [sc EXCEPT ![s].pc = pc],
           client' = client, link' \in {link, "down"},
           Begins(s) /\ scope[s].pc \in Failing => pc \in Failing,
           pc \in {"committing", "releasing"} => ~scope[s].undo,
           pc = "cleaning" => scope[s].undo,
           Sinks, Drops,
           pc = "forgetting" => \A x \in DOMAIN scope : s <= x => ~Pending(x)',
           \/ ~Begins(s) \/ ~HoldsOn(s)
           \/ sc[s].undone \/ pc \in {"waiting", "forgetting"}
              => scope[s].undone \/ scope[s].pc \in {"waiting", "forgetting"}
    PROVE  HoldInv'
<1>1. Moved(sc, s, pc)
  BY MovedBy DEF Touched
<1>2. /\ Turns /\ Resolves /\ DOMAIN scope' = DOMAIN scope
      /\ pc # "forgetting" => Spends
      /\ scope'[s].pc = pc /\ scope'[s].undone = sc[s].undone
      /\ \A x \in DOMAIN scope : x # s =>
            scope'[x] = sc[x] /\ scope'[x].pc = scope[x].pc
  BY <1>1, MovedTurns
<1>3. \A x \in DOMAIN scope : x # s => (scope'[x].undone => scope[x].undone)
  BY <1>2 DEF Touched
<1>4. LetsGo
  <2>1. Alive(s)'
    BY <1>2 DEF Alive
  <2> QED
    BY <1>2, <1>3, <2>1, LetsGoFrom DEF Preserved
<1>5. Spends
  <2>1. CASE pc = "forgetting"
    <3>1. \A t \in DOMAIN scope' : scope'[t].pc = "forgetting" =>
             t = s \/ (t \in DOMAIN scope /\ scope[t].pc = "forgetting")
      BY <1>2
    <3> QED
      BY <1>2, <2>1, <3>1 DEF Spends
  <2> QED
    BY <1>2, <2>1
<1> QED
  BY <1>2, <1>4, <1>5, HoldQuiet

(* A scope comes to its end.                                               *)
LEMMA HoldLeft ==
    ASSUME CoreInv, HoldInv, Preserved, UNCHANGED historyVars,
           NEW s \in DOMAIN scope, Alive(s),
           NEW sc, Touched(sc, s), Untold(sc),
           NEW v \in {"resolved", "rejected"}, NEW sd \in Settling(sc, s),
           NEW q, Leave(s, v, sd, q), link' \in {link, "down"},
           Begins(s) /\ Doomed(s) /\ v = "resolved" =>
              scope[s].undo \/ scope[s].kind = "transaction",
           \/ v = "rejected" \/ scope[s].kind # "transaction"
           \/ scope[s].undo,
           Sinks, Drops,
           \/ ~Begins(s) \/ ~HoldsOn(s)
           \/ v = "resolved" /\ scope[s].told = "nothing" /\ ~scope[s].undo
    PROVE  HoldInv'
<1>0. ToldInv
  BY DEF HoldInv
<1>1. /\ Turns /\ Spends /\ Resolves /\ ~Alive(s)'
      /\ scope'[s].told =
            IF scope[s].told = "nothing" THEN v ELSE "rejected"
      /\ \A x \in DOMAIN scope : x # s =>
            scope'[x] = sc[x] /\ scope'[x].pc = scope[x].pc
  BY <1>0, LeftTurns
<1>2. \A x \in DOMAIN scope : x # s => (scope'[x].undone => scope[x].undone)
  BY <1>1 DEF Touched
<1>3. LetsGo
  BY <1>1, <1>2, LetsGoFrom DEF Preserved
<1> QED
  BY <1>1, <1>3, HoldQuiet

(* The scopes stay where they are, and the server as it is.                *)
LEMMA HoldStill ==
    ASSUME CoreInv, HoldInv, Preserved, marks' = marks, NEW s,
           Touched(scope', s), Untold(scope'), client' = client,
           link' \in {link, "down"},
           s \in DOMAIN scope => (scope'[s].undone => scope[s].undone),
           IssuerGrows,
           \A w \in DOMAIN issuer' \ DOMAIN issuer :
              issuer'[w] \in DOMAIN scope,
           ran' = ran, excused' = excused, durable' = durable
    PROVE  HoldInv'
<1>1. Turns /\ Spends /\ Resolves /\ DOMAIN scope' = DOMAIN scope
  BY StillTurns
<1>2. Sinks /\ Drops
  BY HoldsAsBefore
<1>3. \A x \in DOMAIN scope :
         /\ scope'[x].pc = scope[x].pc
         /\ scope'[x].undone => scope[x].undone
  BY DEF Touched
<1>4. LetsGo
  BY <1>3 DEF LetsGo, Alive
<1>5. Commits
  BY DEF Commits
<1> QED
  BY <1>1, <1>2, <1>4, <1>5, HoldNext

(* A scope fails.  What each action does, one lemma each, follows.         *)
LEMMA HoldFails ==
    ASSUME CoreInv, HoldInv, Preserved, UNCHANGED historyVars,
           NEW s \in DOMAIN scope, Alive(s), NEW q, Fail(s, scope, q),
           link' \in {link, "down"},
           Sinks, Drops
    PROVE  HoldInv'
<1> DEFINE t == Closed(scope, s)
<1>1. /\ TypeOK /\ Touched(t, s) /\ Untold(t)
      /\ t[s].undone = scope[s].undone
  <2>1. TypeOK
    BY DEF CoreInv
  <2>2. Touched(scope, s)
    BY <2>1, TouchedNone
  <2> QED
    BY <2>1, <2>2, TouchedClosed, UntoldBy
<1>2. /\ client' = client
      /\ \/ /\ scope' = [t EXCEPT ![s].pc = "waiting"]
            /\ scope[s].kind = "pinned" \/ scope[s].undone
         \/ scope' = [t EXCEPT ![s].pc = "undoing"]
  BY DEF Fail, Closed, Wait, Proceed
<1>3. {"waiting", "undoing"} \subseteq (Progress \ {"done"}) \cap Failing
  BY DEF Progress, Failing
<1> HIDE DEF t
<1>4. CASE /\ scope' = [t EXCEPT ![s].pc = "waiting"]
           /\ scope[s].kind = "pinned" \/ scope[s].undone
  BY <1>1, <1>2, <1>3, <1>4, HoldMoved DEF Begins
<1>5. CASE scope' = [t EXCEPT ![s].pc = "undoing"]
  BY <1>1, <1>2, <1>3, <1>5, HoldMoved
<1> QED
  BY <1>2, <1>4, <1>5

LEMMA BeginHolds ==
    ASSUME CoreInv, HoldInv, ServeBegin
    PROVE  HoldInv'
<1>0. PICK s : s = Of
  OBVIOUS
<1>1. /\ queue # <<>> /\ queue[1].what = "begin" /\ SameHistory
      /\ UNCHANGED historyVars
      /\ \/ /\ Wait(s, Closed(scope, s), Served)
            /\ SameServer
         \/ /\ scope' = [scope EXCEPT ![s].pc = "body"]
            /\ client' = client
            /\ marks' = IF marks = <<>> THEN <<[of |-> s, works |-> {}]>>
                        ELSE marks
  BY <1>0 DEF ServeBegin, At, Closed, SameHistory
<1>2. /\ Preserved /\ link' = link /\ s \in DOMAIN scope
      /\ scope[s].pc = "opening" /\ marks = <<>>
  BY <1>0, BeginKeeps
<1>3. Alive(s) /\ scope[s].pc \notin Failing /\ TypeOK
  BY <1>2 DEF Alive, Failing, CoreInv
<1>4. /\ Touched(scope, s) /\ Untold(scope) /\ Touched(Closed(scope, s), s)
      /\ Untold(Closed(scope, s))
  <2>1. Touched(scope, s)
    BY <1>3, TouchedNone
  <2> QED
    BY <1>2, <1>3, <2>1, TouchedClosed, UntoldBy
<1>5. CASE Wait(s, Closed(scope, s), Served) /\ SameServer
  <2>1. marks' = <<>>
    BY <1>2, <1>5 DEF SameServer, serverVars
  <2>2. Sinks /\ ~HoldsOn(s) /\ Drops
    BY <1>2, <2>1, HoldsNoMore, NothingDrops
  <2>3. /\ scope' = [Closed(scope, s) EXCEPT ![s].pc = "waiting"]
        /\ client' = client
    BY <1>5 DEF Wait
  <2>4. "waiting" \in Progress \ {"done"}
    BY DEF Progress
  <2> QED
    BY <1>1, <1>2, <1>3, <1>4, <2>2, <2>3, <2>4, HoldMoved
<1>6. CASE /\ scope' = [scope EXCEPT ![s].pc = "body"]
           /\ client' = client
           /\ marks' = IF marks = <<>> THEN <<[of |-> s, works |-> {}]>>
                       ELSE marks
  <2>1. /\ DOMAIN marks = {} /\ \A k \in DOMAIN marks' : marks'[k].works = {}
    BY <1>2, <1>6
  <2>2. Sinks /\ Drops
    BY <2>1, HoldsSame
  <2>3. "body" \in Progress \ {"done"}
    BY DEF Progress
  <2> QED
    BY <1>1, <1>2, <1>3, <1>4, <1>6, <2>2, <2>3, HoldMoved
<1> QED
  BY <1>1, <1>5, <1>6

LEMMA RefuseHolds ==
    ASSUME CoreInv, HoldInv, Refuse \/ ServeClose
    PROVE  HoldInv'
<1>1. /\ Preserved /\ marks' = marks /\ link' = link /\ scope' = scope
      /\ client' = client /\ SameHistory
  BY RefuseKeeps, CloseKeeps DEF Refuse, ServeClose
<1>2. /\ Touched(scope', 1) /\ Untold(scope')
  BY <1>1, TouchedNone DEF CoreInv, Untold
<1>3. /\ issuer' = issuer /\ ran' = ran /\ durable' = durable
      /\ excused' = excused
  BY <1>1 DEF SameHistory, historyVars
<1>4. IssuerGrows
  BY <1>3 DEF IssuerGrows
<1> QED
  BY <1>1, <1>2, <1>3, <1>4, HoldStill

LEMMA FailsHolds ==
    ASSUME CoreInv, HoldInv, WorkFails \/ ServeFetch
    PROVE  HoldInv'
<1>0. PICK s : s = Of
  OBVIOUS
<1>1. /\ queue # <<>> /\ queue[1].what \in {"work", "fetch"}
      /\ scope' = scope \/ (scope' = PoisonSelf(s) /\ Top(s))
      /\ client' = client /\ UNCHANGED historyVars
  BY <1>0 DEF WorkFails, ServeFetch, At, SameHistory, Admitted
<1>2. /\ Preserved /\ marks' = marks /\ link' = link
  BY WorkFailsKeeps, FetchKeeps
<1>3. s \in DOMAIN scope /\ TypeOK /\ ShapeInv
  BY <1>0, <1>1, FirstInQueue DEF CoreInv
<1>4. /\ Touched(scope', s) /\ Untold(scope')
      /\ scope'[s].undone = scope[s].undone
  BY <1>1, <1>3, TouchedNone, TouchedPoisoned, UntoldBy
<1>5. /\ issuer' = issuer /\ ran' = ran /\ durable' = durable
      /\ excused' = excused
  BY <1>1 DEF historyVars
<1>6. IssuerGrows
  BY <1>5 DEF IssuerGrows
<1> QED
  BY <1>2, <1>4, <1>5, <1>6, <1>1, HoldStill

LEMMA AsksHold ==
    ASSUME CoreInv, HoldInv, NEW s \in DOMAIN scope, Asks(s)
    PROVE  HoldInv'
<1>1. /\ Preserved /\ marks' = marks /\ link' = link
  BY AsksKeep
<1>2. /\ scope' = scope /\ client' = client
      /\ ran' = ran /\ durable' = durable /\ excused' = excused
      /\ issuer' = issuer \/ issuer' = Append(issuer, s)
  BY DEF Asks, Issue, Sends, GivesUp, historyVars
<1>3. /\ Touched(scope', s) /\ Untold(scope')
  BY <1>2, TouchedNone DEF CoreInv, Untold
<1>4. /\ IssuerGrows
      /\ \A w \in DOMAIN issuer' \ DOMAIN issuer : issuer'[w] \in DOMAIN scope
  <2>1. issuer \in Seq(Scopes) /\ s \in Scopes
    BY Typed DEF CoreInv, TypeOK
  <2>2. CASE issuer' = issuer
    BY <2>2 DEF IssuerGrows
  <2>3. CASE issuer' = Append(issuer, s)
    <3>1. /\ DOMAIN issuer = 1..Len(issuer) /\ Len(issuer) \in Nat
          /\ DOMAIN issuer' = 1..(Len(issuer) + 1)
          /\ issuer'[Len(issuer) + 1] = s
          /\ \A w \in 1..Len(issuer) : issuer'[w] = issuer[w]
      BY <2>1, <2>3
    <3>2. \A w \in DOMAIN issuer' \ DOMAIN issuer : w = Len(issuer) + 1
      BY <3>1
    <3> QED
      BY <3>1, <3>2 DEF IssuerGrows
  <2> QED
    BY <1>2, <2>2, <2>3
<1> QED
  BY <1>1, <1>2, <1>3, <1>4, HoldStill

LEMMA ReturnHolds ==
    ASSUME CoreInv, HoldInv, NEW s \in DOMAIN scope, scope[s].pc = "body",
           Return(s) \/ Throw(s)
    PROVE  HoldInv'
<1>1. /\ \/ Fail(s, scope, queue)
         \/ Proceed(s, "draining", "drain", Closed(scope, s), queue)
      /\ SameServer /\ SameHistory
      /\ UNCHANGED historyVars
  BY DEF Return, Throw, Closed, SameHistory
<1>2. /\ Preserved /\ marks' = marks /\ link' = link
  BY ReturnKeeps
<1>3. Sinks /\ Drops
  BY <1>2, HoldsAsBefore
<1>4. Alive(s)
  BY DEF Alive
<1>5. CASE Fail(s, scope, queue)
  BY <1>1, <1>2, <1>3, <1>4, <1>5, HoldFails
<1>6. CASE Proceed(s, "draining", "drain", Closed(scope, s), queue)
  <2> DEFINE t == Closed(scope, s)
  <2>1. /\ TypeOK /\ Touched(t, s) /\ Untold(t)
        /\ t[s].undone = scope[s].undone
    <3>1. TypeOK
      BY DEF CoreInv
    <3>2. Touched(scope, s)
      BY <3>1, TouchedNone
    <3> QED
      BY <3>1, <3>2, TouchedClosed, UntoldBy
  <2>2. scope' = [t EXCEPT ![s].pc = "draining"] /\ client' = client
    BY <1>6 DEF Proceed
  <2>3. "draining" \in Progress \ {"done"} /\ scope[s].pc \notin Failing
    BY DEF Progress, Failing
  <2> HIDE DEF t
  <2> QED
    BY <1>1, <1>2, <1>3, <1>4, <2>1, <2>2, <2>3, HoldMoved
<1> QED
  BY <1>1, <1>5, <1>6

LEMMA MovedOver ==
    ASSUME TypeOK, NEW s \in DOMAIN scope, Begins(s), NEW sc, Touched(sc, s),
           NEW pc \in Failing, scope' = [sc EXCEPT ![s].pc = pc]
    PROVE  Over(s)'
<1>1. pc \in Progress /\ pc # "done" /\ scope[s].kind # "pinned"
  BY DEF Failing, Progress, Begins
<1>2. Moved(sc, s, pc)
  BY <1>1, MovedBy DEF Touched
<1>3. scope'[s].pc = pc /\ scope'[s].kind = scope[s].kind
  BY <1>2 DEF Moved, Touched, ScopeRecord
<1> QED
  BY <1>1, <1>3 DEF Over, Begins, Alive, Doomed

LEMMA LeftOver ==
    ASSUME CoreInv, ToldInv, NEW s \in DOMAIN scope, Begins(s), Alive(s),
           NEW sc, Touched(sc, s), Untold(sc),
           NEW v \in {"resolved", "rejected"}, NEW sd \in Settling(sc, s),
           NEW q, Leave(s, v, sd, q), link' \in {link, "down"}, Preserved,
           scope[s].kind = "transaction" \/ v = "rejected" \/ scope[s].undo,
           v = "resolved" => ~Doomed(s) \/ scope[s].undo
                                        \/ scope[s].kind = "transaction"
    PROVE  Over(s)'
<1>1. /\ ~Alive(s)' /\ scope'[s].kind = scope[s].kind
      /\ scope'[s].told = IF scope[s].told = "nothing" THEN v ELSE "rejected"
  BY LeftTurns
<1>2. scope'[s].undo = scope[s].undo
  BY DEF Preserved, Fates
<1> QED
  BY <1>1, <1>2 DEF Over, Begins

LEMMA RecoverHolds ==
    ASSUME CoreInv, LevelInv, HoldInv, ServeRecover
    PROVE  HoldInv'
<1>0. PICK s : s = Of
  OBVIOUS
<1>1. /\ queue # <<>> /\ queue[1].what = "recover" /\ SameHistory
      /\ UNCHANGED historyVars
      /\ client' = client
      /\ \/ scope' = scope /\ (SameServer \/ Error)
         \/ /\ scope' = Undone(s) /\ EndTransaction /\ OnStack(s)
            /\ scope[s].kind = "transaction"
         \/ /\ scope' = Undone(s) /\ BackTo(s) /\ OnStack(s)
            /\ Level(s) # {}
  BY <1>0 DEF ServeRecover, At, CloseAfter, Undone, SameHistory
<1>2. /\ Preserved /\ link' = link /\ s \in DOMAIN scope
      /\ FamilyInv /\ RanInv /\ WorkInv
  BY <1>0, RecoverKeeps DEF HoldInv
<1>3. TypeOK /\ Touched(scope, s) /\ Touched(Undone(s), s)
      /\ Untold(scope) /\ Untold(Undone(s))
  <2>1. scope[s].pc # "opening"
    BY <1>0, <1>1, FirstInQueue DEF JobFits, Control, Of
  <2> QED
    BY <1>2, <2>1, TouchedNone, TouchedUndone, UntoldBy DEF CoreInv
<1>4. CASE scope' = scope /\ (SameServer \/ Error)
  <2>1. /\ issuer' = issuer /\ ran' = ran /\ durable' = durable
        /\ excused' = excused /\ IssuerGrows
    BY <1>1 DEF SameHistory, historyVars, IssuerGrows
  <2>2. marks' = marks
    BY <1>4, <2>1, QuietServer
  <2> QED
    BY <1>1, <1>2, <1>3, <1>4, <2>1, <2>2, HoldStill
<1>5. ASSUME scope' = Undone(s), OnStack(s), Begins(s), Sinks, ~HoldsOn(s),
             Over(s)' => Drops
      PROVE  HoldInv'
  <2>1. Alive(s)
    BY <1>2, <1>5 DEF CoreInv, ShapeInv, StackInv
  <2>2. scope[s].poison
    <3>1. 1 \in DOMAIN queue
      BY <1>1, <1>3, FirstInQueue, Typed
    <3> QED
      BY <1>0, <1>1, <2>1, <3>1
      DEF LevelInv, StreamInv, RecoversPoisoned, Of
  <2>3. /\ Turns /\ Spends /\ Resolves
    BY <1>1, <1>2, <1>3, <1>5, StillTurns
  <2>4. /\ \A x \in DOMAIN scope : scope'[x].pc = scope[x].pc
        /\ \A x \in DOMAIN scope : x # s =>
              (scope'[x].undone => scope[x].undone)
        /\ scope'[s].poison /\ scope'[s].kind = scope[s].kind
    BY <1>2, <1>3, <1>5, <2>2 DEF Touched
  <2>5. LetsGo
    BY <1>2, <1>5, <2>4, LetsGoFrom DEF Preserved
  <2>6. Over(s)'
    BY <1>2, <1>5, <2>1, <2>4 DEF Over, Begins, Alive, Doomed
  <2> QED
    BY <1>1, <1>2, <1>5, <2>3, <2>5, <2>6, HoldQuiet
<1>6. CASE /\ scope' = Undone(s) /\ EndTransaction /\ OnStack(s)
           /\ scope[s].kind = "transaction"
  <2>1. Begins(s) /\ Alive(s)
    BY <1>2, <1>6 DEF Begins, CoreInv, ShapeInv, StackInv
  <2>2. Sinks /\ ~HoldsOn(s)
    BY <1>6, HoldsNoMore DEF EndTransaction
  <2>3. Over(s)' => Drops
    BY <1>2, <1>6, <2>1, EndDrops
  <2> QED
    BY <1>5, <1>6, <2>1, <2>2, <2>3
<1>7. CASE /\ scope' = Undone(s) /\ BackTo(s) /\ OnStack(s)
           /\ Level(s) # {}
  <2>1. Begins(s) /\ Alive(s)
    BY <1>2, <1>7, LevelsAreTheirs DEF Begins, CoreInv, ShapeInv, StackInv
  <2>2. Sinks /\ ~HoldsOn(s) /\ (Over(s)' => Drops)
    BY <1>2, <1>7, <2>1, HoldsBack
  <2> QED
    BY <1>5, <1>7, <2>1, <2>2
<1> QED
  BY <1>1, <1>4, <1>6, <1>7

LEMMA DrainHolds ==
    ASSUME CoreInv, HoldInv, ServeDrain
    PROVE  HoldInv'
<1>0. PICK s : s = Of
  OBVIOUS
<1>1. /\ queue # <<>> /\ queue[1].what = "drain" /\ SameHistory
      /\ UNCHANGED historyVars
      /\ "drain" \in Control
  BY DEF ServeDrain, At, Control, SameHistory
<1>2. /\ s \in DOMAIN scope /\ Alive(s)
      /\ scope[s].pc \in {"draining", "leaving"}
  BY <1>0, <1>1, FirstInQueue DEF Stage
<1>3. /\ Preserved /\ marks' = marks /\ link' = link /\ Sinks /\ Drops
  BY DrainKeeps, HoldsAsBefore
<1>4. /\ TypeOK /\ Touched(scope, s) /\ Untold(scope)
      /\ scope \in Settling(scope, s) /\ scope[s].pc \notin Failing
      /\ scope[s].pc = "leaving" => scope[s].kind = "pinned"
  BY <1>2, TouchedNone, UntoldBy
  DEF CoreInv, ShapeInv, ScopeInv, Settling, Failing
<1>5. ASSUME NEW v \in {"resolved", "rejected"}, Leave(s, v, scope, Served),
             scope[s].kind = "pinned"
      PROVE  HoldInv'
  BY <1>1, <1>2, <1>3, <1>4, <1>5, HoldLeft DEF Begins
<1>6. CASE Fail(s, scope, Served)
  BY <1>1, <1>2, <1>3, <1>6, HoldFails
<1>7. ASSUME NEW pc \in {"cleaning", "committing", "releasing"}, NEW what,
             Proceed(s, pc, what, scope, Served),
             pc = "cleaning" <=> scope[s].undo
      PROVE  HoldInv'
  <2>1. pc \in Progress \ {"done"}
    BY DEF Progress
  <2>2. scope' = [scope EXCEPT ![s].pc = pc] /\ client' = client
    BY <1>7 DEF Proceed
  <2> QED
    BY <1>1, <1>2, <1>3, <1>4, <1>7, <2>1, <2>2, HoldMoved
<1>8. \/ \E v \in {"resolved", "rejected"} :
            Leave(s, v, scope, Served) /\ scope[s].kind = "pinned"
      \/ Fail(s, scope, Served)
      \/ \E pc \in {"cleaning", "committing", "releasing"} : \E what :
            /\ Proceed(s, pc, what, scope, Served)
            /\ pc = "cleaning" <=> scope[s].undo
  <2>1. CASE scope[s].pc = "leaving" \/ scope[s].kind = "pinned"
    BY <1>0, <1>4, <2>1 DEF ServeDrain
  <2>2. CASE scope[s].pc # "leaving" /\ scope[s].kind # "pinned"
    <3>1. scope[s].undo \in BOOLEAN
      BY <1>2, <1>4, Typed DEF ScopeRecord
    <3>2. CASE scope[s].poison
      BY <1>0, <2>2, <3>2 DEF ServeDrain
    <3>3. CASE ~scope[s].poison /\ scope[s].undo
      <4>1. Proceed(s, "cleaning", "undo", scope, Served)
        BY <1>0, <2>2, <3>3 DEF ServeDrain
      <4> QED
        BY <3>3, <4>1
    <3>4. CASE ~scope[s].poison /\ ~scope[s].undo
      <4>1. \/ Proceed(s, "committing", "commit", scope, Served)
            \/ Proceed(s, "releasing", "release", scope, Served)
        BY <1>0, <2>2, <3>4 DEF ServeDrain
      <4> QED
        BY <3>4, <4>1
    <3> QED
      BY <3>1, <3>2, <3>3, <3>4
  <2> QED
    BY <2>1, <2>2
<1> QED
  BY <1>5, <1>6, <1>7, <1>8

LEMMA UndoHolds ==
    ASSUME CoreInv, HoldInv, ServeUndo
    PROVE  HoldInv'
<1>0. PICK s : s = Of
  OBVIOUS
<1> DEFINE ends == scope[s].kind = "transaction"
           failed == scope[s].pc = "undoing"
<1>1. /\ queue # <<>> /\ queue[1].what = "undo" /\ SameHistory
      /\ UNCHANGED historyVars
      /\ "undo" \in Control
  BY DEF ServeUndo, At, Control, SameHistory
<1>2. /\ s \in DOMAIN scope /\ Alive(s)
      /\ scope[s].pc \in {"undoing", "cleaning"}
  BY <1>0, <1>1, FirstInQueue DEF Stage, Of
<1>3. /\ Preserved /\ link' = link /\ Begins(s)
      /\ ToldInv /\ RanInv /\ WorkInv /\ ran' = ran
  BY <1>0, <1>1, UndoKeeps, QuietHistory DEF Begins, HoldInv
<1>4. /\ TypeOK /\ Touched(scope, s) /\ Touched(Undone(s), s)
      /\ Untold(scope) /\ Untold(Undone(s))
      /\ scope \in Settling(scope, s)
      /\ Undone(s) \in Settling(Undone(s), s)
      /\ OnStack(s)
  BY <1>2, TouchedNone, TouchedUndone, UntoldBy
  DEF CoreInv, ShapeInv, StackInv, Settling
<1>5. ~failed => scope[s].undo
  BY <1>2, <1>3 DEF ToldInv
<1>6. {"waiting", "reverting"} \subseteq (Progress \ {"done"}) \cap Failing
  BY DEF Progress, Failing
<1> HIDE DEF ends, failed
<1>7. \/ /\ \/ ends /\ EndTransaction
            \/ BackTo(s)
         /\ \/ failed /\ Wait(s, Undone(s), Served)
            \/ ~failed /\ Leave(s, "resolved", Undone(s), Served)
      \/ /\ Lost \/ Level(s) = {}
         /\ Wait(s, scope, Served) /\ (SameServer \/ Error)
      \/ /\ Proceed(s, "reverting", "revert", scope, Served)
         /\ SameServer \/ Error
  BY <1>0, <1>4 DEF ServeUndo, ends, failed, Undone
<1>8. CASE /\ \/ ends /\ EndTransaction
              \/ BackTo(s)
           /\ \/ failed /\ Wait(s, Undone(s), Served)
              \/ ~failed /\ Leave(s, "resolved", Undone(s), Served)
  <2>1. Sinks /\ ~HoldsOn(s) /\ (Over(s)' => Drops)
    <3>1. CASE ends /\ EndTransaction
      BY <1>2, <1>3, <3>1, HoldsNoMore, EndDrops DEF EndTransaction, ends
    <3>2. CASE BackTo(s)
      BY <1>2, <1>3, <3>2, HoldsBack
    <3> QED
      BY <1>8, <3>1, <3>2
  <2>2. CASE failed /\ Wait(s, Undone(s), Served)
    <3>1. /\ scope' = [Undone(s) EXCEPT ![s].pc = "waiting"]
          /\ client' = client
      BY <2>2 DEF Wait
    <3>2. Over(s)'
      BY <1>2, <1>3, <1>4, <1>6, <3>1, MovedOver
    <3> QED
      BY <1>1, <1>2, <1>3, <1>4, <1>6, <2>1, <3>1, <3>2, HoldMoved
  <2>3. CASE ~failed /\ Leave(s, "resolved", Undone(s), Served)
    <3>1. Over(s)'
      BY <1>2, <1>3, <1>4, <1>5, <2>3, LeftOver
    <3> QED
      BY <1>1, <1>2, <1>3, <1>4, <1>5, <2>1, <2>3, <3>1, HoldLeft
  <2> QED
    BY <1>8, <2>2, <2>3
<1>9. ASSUME SameServer \/ Error
      PROVE  marks' = marks /\ Sinks /\ Drops /\ (HoldsOn(s) => Holds(s))
  <2>1. marks' = marks
    BY <1>3, <1>9, QuietServer
  <2> QED
    BY <2>1, HoldsAsBefore
<1>10. CASE /\ Lost \/ Level(s) = {}
            /\ Wait(s, scope, Served) /\ (SameServer \/ Error)
  <2>1. ~HoldsOn(s)
    BY <1>2, <1>3, <1>9, <1>10, HoldsNothing
  <2>2. scope' = [scope EXCEPT ![s].pc = "waiting"] /\ client' = client
    BY <1>10 DEF Wait
  <2> QED
    BY <1>1, <1>2, <1>3, <1>4, <1>6, <1>9, <1>10, <2>1, <2>2, HoldMoved
<1>11. CASE /\ Proceed(s, "reverting", "revert", scope, Served)
            /\ SameServer \/ Error
  <2>1. scope' = [scope EXCEPT ![s].pc = "reverting"] /\ client' = client
    BY <1>11 DEF Proceed
  <2> QED
    BY <1>1, <1>2, <1>3, <1>4, <1>6, <1>9, <1>11, <2>1, HoldMoved
<1> QED
  BY <1>7, <1>8, <1>10, <1>11

LEMMA ReleaseHolds ==
    ASSUME CoreInv, HoldInv, ServeRelease
    PROVE  HoldInv'
<1>0. PICK s : s = Of
  OBVIOUS
<1>1. /\ queue # <<>> /\ queue[1].what = "release" /\ SameHistory
      /\ UNCHANGED historyVars
      /\ \/ /\ Admitted(s) /\ Level(s) # {}
            /\ Merge(s) /\ Leave(s, "resolved", scope, Served)
         \/ /\ SameServer \/ Error
            /\ Proceed(s, "reverting", "revert", scope, Served)
      /\ "release" \in Control
  BY <1>0 DEF ServeRelease, At, Control, SameHistory
<1>2. /\ s \in DOMAIN scope /\ Alive(s) /\ scope[s].pc = "releasing"
  BY <1>0, <1>1, FirstInQueue DEF Stage, Of
<1>3. /\ Preserved /\ link' = link /\ Begins(s) /\ ran' = ran
      /\ ToldInv /\ RanInv /\ WorkInv /\ scope[s].kind = "savepoint"
  BY <1>0, <1>1, <1>2, ReleaseKeeps, QuietHistory
  DEF Begins, HoldInv, CoreInv, ShapeInv, ScopeInv
<1>4. /\ TypeOK /\ Touched(scope, s) /\ Untold(scope)
      /\ scope \in Settling(scope, s) /\ scope[s].pc \notin Failing
  BY <1>2, TouchedNone, UntoldBy DEF CoreInv, Settling, Failing
<1>5. CASE /\ Admitted(s) /\ Level(s) # {}
           /\ Merge(s) /\ Leave(s, "resolved", scope, Served)
  <2>1. Top(s) /\ ~scope[s].poison
    <3>1. OnStack(s)
      BY <1>2 DEF CoreInv, ShapeInv, StackInv
    <3> QED
      BY <1>5, <3>1 DEF Admitted, OnStack
  <2>2. ~Doomed(s) /\ ~scope[s].undo
    BY <1>2, <1>3, <1>4, <2>1 DEF Doomed, ToldInv
  <2>3. ~Alive(s)'
    BY <1>2, <1>3, <1>4, <1>5, <2>2, LeftTurns
  <2>4. Sinks /\ Drops
    BY <1>2, <1>3, <1>5, <2>1, <2>3, HoldsMerged DEF Preserved
  <2>5. scope[s].told = "nothing"
    <3>1. ~Lost
      BY <1>5 DEF CoreInv, MarkInv, Level
    <3> QED
      BY <1>2, <1>3, <3>1 DEF ToldInv
  <2> QED
    BY <1>1, <1>2, <1>3, <1>4, <1>5, <2>2, <2>4, <2>5, HoldLeft
<1>6. CASE /\ SameServer \/ Error
           /\ Proceed(s, "reverting", "revert", scope, Served)
  <2>1. Sinks /\ Drops
    <3>1. marks' = marks
      BY <1>3, <1>6, QuietServer
    <3> QED
      BY <3>1, HoldsAsBefore
  <2>2. scope' = [scope EXCEPT ![s].pc = "reverting"] /\ client' = client
    BY <1>6 DEF Proceed
  <2>3. "reverting" \in Progress \ {"done"}
    BY DEF Progress
  <2> QED
    BY <1>1, <1>2, <1>3, <1>4, <2>1, <2>2, <2>3, HoldMoved
<1> QED
  BY <1>1, <1>5, <1>6

LEMMA RevertHolds ==
    ASSUME CoreInv, HoldInv, ServeRevert
    PROVE  HoldInv'
<1>0. PICK s : s = Of
  OBVIOUS
<1>1. /\ queue # <<>> /\ queue[1].what = "revert" /\ SameHistory
      /\ UNCHANGED historyVars
      /\ \/ /\ BackTo(s)
            /\ Proceed(s, "forgetting", "forget", scope, Served)
         \/ /\ Error /\ Level(s) = {}
            /\ \E sc \in {scope, PoisonStack} :
                  Leave(s, "rejected", sc, Served)
      /\ "revert" \in Control
  BY <1>0 DEF ServeRevert, At, Control, SameHistory
<1>2. /\ s \in DOMAIN scope /\ Alive(s) /\ scope[s].pc = "reverting"
  BY <1>0, <1>1, FirstInQueue DEF Stage, Of
<1>3. /\ Preserved /\ link' = link /\ Begins(s) /\ ran' = ran
      /\ scope[s].closing /\ RanInv /\ WorkInv
  BY <1>0, <1>1, RevertKeeps, QuietHistory DEF Begins, HoldInv
<1>4. /\ TypeOK /\ ShapeInv
      /\ \A sc \in {scope, PoisonStack} :
            Touched(sc, s) /\ sc \in Settling(sc, s) /\ Untold(sc)
  BY <1>2, TouchedNone, TouchedPoisoned, UntoldBy DEF CoreInv, Settling
<1>5. CASE /\ BackTo(s)
           /\ Proceed(s, "forgetting", "forget", scope, Served)
  <2>1. Sinks /\ ~HoldsOn(s) /\ (Over(s)' => Drops)
    BY <1>2, <1>3, <1>5, HoldsBack
  <2>2. scope' = [scope EXCEPT ![s].pc = "forgetting"] /\ client' = client
    BY <1>5 DEF Proceed
  <2>3. "forgetting" \in Progress \ {"done"} /\ "forgetting" \in Failing
    BY DEF Progress, Failing
  <2>4. Over(s)'
    BY <1>2, <1>3, <1>4, <2>2, <2>3, MovedOver
  <2>5. \A x \in DOMAIN scope : s <= x => ~Pending(x)'
    BY <1>0, <1>1, <1>2, <1>3, NoneAfterTheEnd
  <2> QED
    BY <1>1, <1>2, <1>3, <1>4, <2>1, <2>2, <2>3, <2>4, <2>5, HoldMoved
<1>6. ASSUME Error, Level(s) = {}, NEW sc \in {scope, PoisonStack},
             Leave(s, "rejected", sc, Served)
      PROVE  HoldInv'
  <2>1. marks' = marks
    BY <1>3, <1>6, QuietServer
  <2>2. Sinks /\ Drops /\ ~HoldsOn(s)
    BY <1>2, <1>3, <1>6, <2>1, HoldsAsBefore, HoldsNothing
  <2> QED
    BY <1>1, <1>2, <1>3, <1>4, <1>6, <2>2, HoldLeft
<1> QED
  BY <1>1, <1>5, <1>6

LEMMA ForgetHolds ==
    ASSUME CoreInv, HoldInv, ServeForget
    PROVE  HoldInv'
<1>0. PICK s : s = Of
  OBVIOUS
<1>1. /\ queue # <<>> /\ queue[1].what = "forget" /\ SameHistory
      /\ UNCHANGED historyVars
      /\ Merge(s) \/ Error
      /\ Leave(s, "rejected", scope, Served)
      /\ "forget" \in Control
  BY <1>0 DEF ServeForget, At, Control, SameHistory
<1>2. /\ s \in DOMAIN scope /\ Alive(s) /\ scope[s].pc = "forgetting"
  BY <1>0, <1>1, FirstInQueue DEF Stage, Of
<1>3. /\ Preserved /\ link' = link /\ Begins(s) /\ ran' = ran
      /\ ToldInv /\ RanInv /\ WorkInv
  BY <1>0, <1>1, ForgetKeeps, QuietHistory DEF Begins, HoldInv
<1>4. /\ TypeOK /\ Touched(scope, s) /\ Untold(scope)
      /\ scope \in Settling(scope, s) /\ ScopeInv(s)
  BY <1>2, TouchedNone, UntoldBy DEF CoreInv, ShapeInv, Settling
<1>5. ~Holds(s)
  BY <1>2, <1>3, HoldsNothing
<1>6. ~Alive(s)' /\ Top(s)
  <2>1. ~Alive(s)'
    BY <1>1, <1>2, <1>3, <1>4, LeftTurns
  <2> QED
    BY <1>2, <1>3, <2>1 DEF Preserved, Fates, Begins
<1>7. Sinks /\ Drops /\ ~HoldsOn(s)
  <2>1. CASE Merge(s)
    BY <1>2, <1>3, <1>4, <1>5, <1>6, <2>1, HoldsMerged
    DEF Preserved, ScopeInv
  <2>2. CASE Error
    <3>1. marks' = marks
      BY <1>3, <2>2, QuietServer
    <3> QED
      BY <1>5, <3>1, HoldsAsBefore
  <2> QED
    BY <1>1, <2>1, <2>2
<1> QED
  BY <1>1, <1>2, <1>3, <1>4, <1>7, HoldLeft

LEMMA RegroupHolds ==
    ASSUME CoreInv, QuietInv, HoldInv, NEW s, Regroup(s)
    PROVE  HoldInv'
<1>1. /\ s \in DOMAIN scope /\ scope[s].pc = "waiting" /\ Alive(s)
      /\ SameHistory /\ UNCHANGED historyVars /\ RanInv /\ WorkInv
  BY DEF Regroup, HoldInv, Alive, SameHistory
<1>2. /\ Preserved /\ marks' = marks /\ link' = link /\ Sinks /\ Drops
      /\ HoldsOn(s) => Holds(s)
  BY RegroupKeeps, HoldsAsBefore
<1>3. ~Begins(s) \/ ~HoldsOn(s)
  BY <1>1, <1>2, HoldsNothing
<1>4. /\ TypeOK /\ Touched(scope, s) /\ Untold(scope)
      /\ scope \in Settling(scope, s)
  BY <1>1, TouchedNone, UntoldBy DEF CoreInv, Settling
<1>5. CASE /\ Proceed(s, "leaving", "drain", scope, queue)
           /\ scope[s].kind = "pinned"
  <2>1. /\ scope' = [scope EXCEPT ![s].pc = "leaving"] /\ client' = client
        /\ "leaving" \in Progress \ {"done"}
    BY <1>5 DEF Proceed, Progress
  <2> QED
    BY <1>1, <1>2, <1>4, <1>5, <2>1, HoldMoved DEF Begins
<1>6. CASE /\ Proceed(s, "forgetting", "forget", scope, queue)
           /\ scope[s].kind = "savepoint"
  <2>1. /\ scope' = [scope EXCEPT ![s].pc = "forgetting"]
        /\ client' = client /\ queue' = Append(queue, Job("forget", s, 0))
        /\ "forgetting" \in (Progress \ {"done"}) \cap Failing
    BY <1>6 DEF Proceed, Progress, Failing
  <2>2. ASSUME NEW x \in DOMAIN scope, s <= x
        PROVE  ~Pending(x)'
    <3>1. ~Pending(x)
      BY <1>1, <1>6, <2>2 DEF QuietInv, Rests
    <3>2. \A i \in DOMAIN queue' :
             \/ i \in DOMAIN queue /\ queue'[i] = queue[i]
             \/ queue'[i].what = "forget"
      <4> DEFINE j == Job("forget", s, 0)
      <4>1. queue \in Seq(JobRecord) /\ j.what = "forget"
        BY <1>4, Typed DEF Job
      <4> HIDE DEF j, JobRecord
      <4>2. queue' = Append(queue, j)
        BY <2>1 DEF j
      <4> QED
        BY <4>1, <4>2
    <3>3. "forget" \notin Asked
      BY DEF Asked
    <3> QED
      BY <3>1, <3>2, <3>3 DEF Pending
  <2> QED
    BY <1>1, <1>2, <1>3, <1>4, <2>1, <2>2, HoldMoved
<1>7. CASE Leave(s, "rejected", scope, queue)
  BY <1>1, <1>2, <1>3, <1>4, <1>7, HoldLeft
<1> QED
  BY <1>5, <1>6, <1>7 DEF Regroup

LEMMA SavepointHolds ==
    ASSUME CoreInv, HoldInv, ServeSavepoint
    PROVE  HoldInv'
<1>0. PICK s : s = Of
  OBVIOUS
<1> DEFINE quiet == [scope EXCEPT ![s].settled = "resolved"]
<1>1. /\ queue # <<>> /\ queue[1].what = "savepoint" /\ SameHistory
      /\ UNCHANGED historyVars
      /\ \/ /\ marks' = marks
            /\ \/ Leave(s, "rejected", scope, Served)
               \/ Leave(s, "rejected", quiet, Served)
         \/ /\ marks' = marks /\ marks = <<>> /\ client' = client
            /\ stack[Len(stack) - 1] = scope[s].up
            /\ scope[scope[s].up].kind = "pinned"
            /\ scope' = [quiet EXCEPT ![s].kind = "transaction"]
         \/ /\ scope' = [scope EXCEPT ![s].pc = "body"]
            /\ client' = client
            /\ marks' = Append(marks, [of |-> s, works |-> {}])
  BY <1>0 DEF ServeSavepoint, BeginInstead, At, SameServer, serverVars,
              SameHistory
<1>2. /\ Preserved /\ link' = link /\ s \in DOMAIN scope
      /\ scope[s].pc = "opening" /\ RanInv /\ WorkInv
      /\ \A x \in DOMAIN scope : x # s => scope'[x] = scope[x]
      /\ DOMAIN scope' = DOMAIN scope
  BY <1>0, SavepointKeeps DEF HoldInv
<1>3. scope[s].kind = "savepoint" /\ Alive(s) /\ Begins(s)
  BY <1>0, <1>1, FirstInQueue, <1>2 DEF JobFits, Of, Alive, Begins
<1>4. /\ TypeOK /\ Touched(scope, s) /\ Untold(scope) /\ ScopeInv(s)
      /\ scope \in Settling(scope, s) /\ quiet \in Settling(scope, s)
      /\ scope[s].pc \notin Failing
  BY <1>2, TouchedNone, UntoldBy
  DEF CoreInv, ShapeInv, Settling, Failing
<1> HIDE DEF quiet
<1>5. ASSUME marks' = marks
      PROVE  Sinks /\ Drops /\ ~HoldsOn(s)
  BY <1>2, <1>3, <1>5, HoldsAsBefore, HoldsNothing
<1>6. CASE /\ marks' = marks
           /\ \/ Leave(s, "rejected", scope, Served)
              \/ Leave(s, "rejected", quiet, Served)
  BY <1>1, <1>2, <1>3, <1>4, <1>5, <1>6, HoldLeft
<1>7. CASE /\ marks' = marks /\ marks = <<>> /\ client' = client
           /\ stack[Len(stack) - 1] = scope[s].up
           /\ scope[scope[s].up].kind = "pinned"
           /\ scope' = [quiet EXCEPT ![s].kind = "transaction"]
  <2>1. PinnedUp(s)
    BY <1>3, <1>4, <1>7 DEF ScopeInv, PinnedUp
  <2>2. /\ scope'[s].pc = scope[s].pc /\ scope'[s].told = scope[s].told
        /\ scope'[s].kind = "transaction"
        /\ scope'[s].undone = scope[s].undone
    <3> DEFINE r == [scope[s] EXCEPT !.settled = "resolved",
                                     !.kind = "transaction"]
    <3>1. scope \in [DOMAIN scope -> ScopeRecord] /\ scope[s] \in ScopeRecord
      BY <1>2, <1>4, Typed
    <3>2. /\ r.pc = scope[s].pc /\ r.told = scope[s].told
          /\ r.kind = "transaction" /\ r.undone = scope[s].undone
      BY <3>1 DEF ScopeRecord
    <3>3. scope' = [scope EXCEPT ![s] = r]
      BY <1>2, <1>7, <3>1 DEF quiet
    <3> HIDE DEF r, ScopeRecord
    <3>4. scope'[s] = r
      BY <1>2, <3>1, <3>3
    <3> QED
      BY <3>2, <3>4
  <2>3. \A x \in DOMAIN scope :
           /\ scope'[x].pc = scope[x].pc /\ scope'[x].told = scope[x].told
           /\ scope'[x].undone = scope[x].undone
           /\ x # s => scope'[x].kind = scope[x].kind
    BY <1>2, <2>2
  <2>4. 1 \in DOMAIN scope
    BY <1>4, Typed
  <2>5. Turns
    BY <1>2, <1>3, <1>4, <1>7, <2>1, <2>2, <2>3, <2>4 DEF Turns, Alive
  <2>6. Spends /\ Resolves /\ LetsGo
    BY <1>2, <2>3 DEF Spends, Resolves, LetsGo, Alive
  <2> QED
    BY <1>1, <1>2, <1>5, <1>7, <2>5, <2>6, HoldQuiet
<1>8. CASE /\ scope' = [scope EXCEPT ![s].pc = "body"]
           /\ client' = client
           /\ marks' = Append(marks, [of |-> s, works |-> {}])
  <2>1. Sinks /\ Drops
    <3> DEFINE m == [of |-> s, works |-> {}]
    <3>1. marks \in Seq(MarkRecord) /\ m \in MarkRecord /\ m.works = {}
      BY <1>2, <1>4, Typed DEF MarkRecord, Scopes
    <3> HIDE DEF m, MarkRecord
    <3>2. marks' = Append(marks, m)
      BY <1>8 DEF m
    <3>3. /\ \A i \in DOMAIN marks :
                i \in DOMAIN marks' /\ marks'[i] = marks[i]
          /\ \A k \in DOMAIN marks' \ DOMAIN marks : marks'[k].works = {}
      BY <3>1, <3>2
    <3> QED
      BY <3>3, HoldsSame
  <2>2. "body" \in Progress \ {"done"}
    BY DEF Progress
  <2> QED
    BY <1>1, <1>2, <1>3, <1>4, <1>8, <2>1, <2>2, HoldMoved
<1> QED
  BY <1>1, <1>6, <1>7, <1>8

(* What the server holds is held by the transaction it was issued in.      *)
LEMMA HeldBy ==
    ASSUME CoreInv, FamilyInv, RanInv, WorkInv, NEW w \in Works(DOMAIN marks),
           NEW t \in Around(w), scope[t].kind = "transaction"
    PROVE  t \in DOMAIN scope /\ Alive(t)
<1>1. TypeOK /\ MarkInv /\ StackInv
  BY DEF CoreInv, ShapeInv
<1>2. DOMAIN marks = 1..Len(marks) /\ Len(marks) \in Nat
  BY <1>1, Typed
<1>3. PICK i \in DOMAIN marks : w \in marks[i].works
  BY DEF Works
<1>4. /\ issuer[w] \in DOMAIN scope /\ Around(w) \subseteq DOMAIN scope
  BY <1>3, HeldWork
<1> DEFINE u == marks[1].of
<1>5. /\ u \in DOMAIN scope /\ Alive(u) /\ scope[u].kind = "transaction"
  <2>1. 1 \in DOMAIN marks /\ marks # <<>>
    BY <1>2, <1>3
  <2> QED
    BY <1>1, <2>1 DEF MarkInv, StackInv
<1> HIDE DEF u
<1>6. u \in Around(w)
  BY <1>3, <1>5, TransactionHolds
<1>7. t = u
  BY <1>4, <1>5, <1>6, OneTransactionAround DEF Around
<1> QED
  BY <1>5, <1>7

LEMMA LoseHolds ==
    ASSUME CoreInv, HoldInv, Lose
    PROVE  HoldInv'
<1>1. /\ Preserved /\ link' = "down" /\ marks' = <<>> /\ scope' = scope
      /\ client' = client /\ issuer' = issuer /\ ran' = ran
      /\ \/ /\ queue # <<>> /\ queue[1].what = "commit"
            /\ excused' = excused \cup {Of}
            /\ durable' \in {durable, durable \cup Committable}
         \/ excused' = excused /\ durable' = durable
  BY LoseKeeps DEF Lose, Disconnected, At
<1>2. FamilyInv /\ RanInv /\ WorkInv /\ TypeOK
  BY DEF HoldInv, CoreInv
<1>3. Touched(scope', 1) /\ Untold(scope')
  BY <1>1, <1>2, TouchedNone DEF Untold
<1>4. /\ Turns /\ Spends /\ Resolves
  BY <1>1, <1>3, StillTurns
<1>5. Sinks /\ Drops
  BY <1>1, HoldsNoMore, NothingDrops DEF Lost
<1>6. LetsGo
  BY <1>1 DEF LetsGo, Alive
<1>7. Commits
  <2> SUFFICES ASSUME NEW w \in durable' \ durable,
                      NEW t \in DOMAIN scope \ excused',
                      scope'[t].kind = "transaction", t \in Around(w)
               PROVE  FALSE
    BY DEF Commits
  <2>1. /\ queue # <<>> /\ queue[1].what = "commit" /\ Of \in excused'
        /\ w \in Works(DOMAIN marks)
    BY <1>1 DEF Committable
  <2>2. Alive(t)
    BY <1>1, <1>2, <2>1, HeldBy
  <2>3. /\ Of \in DOMAIN scope /\ Alive(Of)
        /\ scope[Of].kind = "transaction"
    BY <2>1, FirstInQueue
    DEF Control, Stage, CoreInv, ShapeInv, ScopeInv
  <2>4. t = Of
    BY <1>1, <2>2, <2>3, OneTransaction
  <2> QED
    BY <2>1, <2>4
<1>8. IssuerGrows /\ excused \subseteq excused' /\ durable \subseteq durable'
  BY <1>1 DEF IssuerGrows
<1> QED
  BY <1>1, <1>4, <1>5, <1>6, <1>7, <1>8, HoldNext

LEMMA AbortHolds ==
    ASSUME CoreInv, HoldInv, Abort
    PROVE  HoldInv'
<1>1. /\ Preserved /\ link' = "down" /\ marks' = <<>>
      /\ client = "held" /\ client' = "destroyed"
      /\ scope' = [scope EXCEPT ![1].told = "rejected"]
      /\ UNCHANGED historyVars
  BY AbortKeeps DEF Abort
<1>2. /\ ToldInv /\ 1 \in DOMAIN scope
      /\ scope \in [DOMAIN scope -> ScopeRecord]
  BY Typed DEF HoldInv, CoreInv
<1>3. /\ DOMAIN scope' = DOMAIN scope /\ scope'[1].told = "rejected"
      /\ \A x \in DOMAIN scope :
            /\ scope'[x].pc = scope[x].pc /\ scope'[x].kind = scope[x].kind
            /\ scope'[x].undone = scope[x].undone
            /\ x # 1 => scope'[x].told = scope[x].told
  <2> DEFINE r == [scope[1] EXCEPT !.told = "rejected"]
  <2>1. /\ r.kind = scope[1].kind /\ r.pc = scope[1].pc
        /\ r.undone = scope[1].undone /\ r.told = "rejected"
    BY <1>2 DEF ScopeRecord
  <2>2. scope' = [scope EXCEPT ![1] = r]
    BY <1>1
  <2> HIDE DEF r, ScopeRecord
  <2>3. /\ DOMAIN scope' = DOMAIN scope /\ scope'[1] = r
        /\ \A x \in DOMAIN scope : x # 1 => scope'[x] = scope[x]
    BY <1>2, <2>2
  <2> QED
    BY <2>1, <2>3
<1>4. Alive(1) /\ \A x \in DOMAIN scope : Alive(x)' <=> Alive(x)
  BY <1>1, <1>2, <1>3 DEF ToldInv, Alive
<1>5. Turns
  BY <1>1, <1>2, <1>3, <1>4 DEF Turns
<1>6. Spends /\ Resolves
  BY <1>3, <1>4 DEF Spends, Resolves
<1>7. Sinks /\ Drops /\ \A x : ~HoldsOn(x)
  BY <1>1, HoldsNoMore, NothingDrops DEF Lost
<1>8. LetsGo
  BY <1>7 DEF LetsGo
<1> QED
  BY <1>1, <1>5, <1>6, <1>7, <1>8, HoldQuiet

LEMMA RawHolds ==
    ASSUME CoreInv, HoldInv, ServeRaw
    PROVE  HoldInv'
<1>0. PICK s : s = Of
  OBVIOUS
<1>1. /\ queue # <<>> /\ queue[1].what = "raw"
      /\ client' = client /\ issuer' = issuer /\ ran' = ran
      /\ excused' = excused \cup {x \in DOMAIN scope : OnStack(x)}
      /\ \/ /\ Lost /\ SameServer /\ durable' = durable
            /\ scope' = PoisonSelf(s) /\ Top(s)
         \/ /\ ~Lost /\ marks' = <<>> /\ scope' = PoisonStack
            /\ durable' = durable \cup Committable
  BY <1>0 DEF ServeRaw, At, EndTransaction, Admitted
<1>2. Preserved /\ link' = link
  BY RawKeeps
<1>3. /\ FamilyInv /\ RanInv /\ WorkInv /\ TypeOK /\ s \in DOMAIN scope
      /\ MarkInv /\ StackInv /\ ShapeInv
  BY <1>0, <1>1, FirstInQueue DEF HoldInv, CoreInv, ShapeInv
<1>4. /\ Touched(scope', s) /\ Untold(scope')
      /\ scope'[s].undone = scope[s].undone
  BY <1>1, <1>3, TouchedPoisoned, UntoldBy
<1>5. /\ Turns /\ Spends /\ Resolves
  BY <1>1, <1>2, <1>4, StillTurns
<1>6. /\ IssuerGrows /\ excused \subseteq excused'
      /\ durable \subseteq durable'
  BY <1>1 DEF IssuerGrows
<1>7. \A x \in DOMAIN scope :
         /\ scope'[x].pc = scope[x].pc
         /\ scope'[x].undone => scope[x].undone
  BY <1>4 DEF Touched
<1>8. LetsGo
  BY <1>7 DEF LetsGo, Alive
<1>9. Sinks /\ Drops
  <2>1. CASE Lost
    <3>1. marks' = marks
      BY <1>1, <2>1 DEF SameServer, serverVars
    <3> QED
      BY <3>1, HoldsAsBefore
  <2>2. CASE marks' = <<>> /\ scope' = PoisonStack /\ marks = <<>>
    BY <2>2, HoldsNoMore, NothingDrops
  <2>3. CASE marks' = <<>> /\ scope' = PoisonStack /\ marks # <<>>
    <3>0. PICK u : u = marks[1].of
      OBVIOUS
    <3>1. /\ u \in DOMAIN scope /\ Alive(u) /\ OnStack(u)
          /\ scope[u].kind = "transaction"
      <4>1. 1 \in DOMAIN marks
        BY <1>3, <2>3, Typed
      <4> QED
        BY <1>3, <2>3, <3>0, <4>1 DEF MarkInv, StackInv
    <3>2. scope'[u].poison
      BY <1>3, <2>3, <3>1, TouchedPoisoned
    <3>3. Over(u)'
      BY <1>4, <1>7, <3>1, <3>2 DEF Touched, Over, Begins, Alive, Doomed
    <3> QED
      BY <1>3, <2>3, <3>1, <3>3, HoldsNoMore, EndDrops
  <2> QED
    BY <1>1, <2>1, <2>2, <2>3
<1>10. Commits
  <2> SUFFICES ASSUME NEW w \in durable' \ durable,
                      NEW t \in DOMAIN scope \ excused',
                      scope'[t].kind = "transaction", t \in Around(w)
               PROVE  FALSE
    BY DEF Commits
  <2>1. w \in Works(DOMAIN marks)
    BY <1>1 DEF Committable
  <2>2. scope[t].kind = "transaction"
    BY <1>4 DEF Touched
  <2>3. Alive(t)
    BY <1>3, <2>1, <2>2, HeldBy
  <2> QED
    BY <1>1, <1>3, <2>3 DEF StackInv
<1> QED
  BY <1>1, <1>2, <1>5, <1>6, <1>8, <1>9, <1>10, HoldNext

LEMMA OpenHolds ==
    ASSUME CoreInv, HoldInv, NEW s \in DOMAIN scope, scope[s].pc = "body",
           NEW undo \in BOOLEAN, NEW awaited \in BOOLEAN,
           NEW settled \in {"open", "resolved"},
           Open(s, undo, awaited, settled)
    PROVE  HoldInv'
<1>1. /\ Preserved /\ marks' = marks /\ link' = link
      /\ DOMAIN scope \subseteq DOMAIN scope'
      /\ \A x \in DOMAIN scope : scope'[x] = scope[x]
      /\ \A x \in DOMAIN scope' \ DOMAIN scope :
            /\ scope'[x].pc \in {"opening", "done"}
            /\ scope'[x].up = s
  BY OpenKeeps
<1>2. Sinks /\ Drops
  BY <1>1, HoldsAsBefore
<1>3. /\ scope \in Seq(ScopeRecord) /\ Len(scope) \in Nat
      /\ DOMAIN scope = 1..Len(scope) /\ s > 0
  BY Typed DEF CoreInv
<1>4. PICK k, new, old :
          /\ k = IF scope[s].kind = "pinned" /\ ~undo
                 THEN "transaction" ELSE "savepoint"
          /\ new = [Scope(s, k, undo, awaited, "opening")
                       EXCEPT !.settled = settled]
          /\ old = Refused(s, k, undo, awaited)
  OBVIOUS
<1>5. /\ scope' = Append(scope, new) \/ scope' = Append(scope, old)
      /\ client' = client /\ UNCHANGED historyVars
  BY <1>4 DEF Open
<1>6. /\ new.pc = "opening" /\ new.told = "nothing" /\ new.kind = k
      /\ old.pc = "done" /\ old.told = "rejected" /\ old.kind = k
  BY <1>4 DEF Scope, Refused
<1>7. \E r \in {new, old} :
         \A x \in DOMAIN scope' \ DOMAIN scope : scope'[x] = r
  <2>1. ASSUME NEW r, scope' = Append(scope, r)
        PROVE  \A x \in DOMAIN scope' \ DOMAIN scope : scope'[x] = r
    <3> HIDE DEF ScopeRecord
    <3> QED
      BY <1>3, <2>1
  <2> QED
    BY <1>5, <2>1
<1>8. ASSUME NEW x \in DOMAIN scope' \ DOMAIN scope
      PROVE  /\ scope'[x].pc \in {"opening", "done"}
             /\ scope'[x].kind = "transaction" => PinnedUp(x)'
             /\ ~Alive(x)' => scope'[x].told # "nothing"
             /\ Alive(x)' =>
                  /\ scope'[x].told = "nothing"
                  /\ scope'[x].up \in DOMAIN scope
                  /\ scope'[scope'[x].up].pc # "done"
  <2>1. scope'[x].kind = "transaction" => PinnedUp(x)'
    <3>1. scope'[x].kind = k /\ scope'[x].up = s
      BY <1>1, <1>6, <1>7
    <3>2. k = "transaction" => scope'[s].kind = "pinned"
      BY <1>1, <1>4
    <3> QED
      BY <1>3, <3>1, <3>2 DEF PinnedUp
  <2>2. scope'[x].up = s /\ scope'[s].pc = "body"
    BY <1>1
  <2> QED
    BY <1>1, <1>6, <1>7, <2>1, <2>2 DEF Alive
<1>9. \A x \in DOMAIN scope : Alive(x)' <=> Alive(x)
  BY <1>1 DEF Alive
<1>10. Turns
  <2>1. 1 \in DOMAIN scope
    BY Typed DEF CoreInv
  <2> QED
    BY <1>1, <1>5, <1>8, <1>9, <2>1 DEF Turns
<1>11. Spends /\ Resolves /\ LetsGo
  BY <1>1, <1>9 DEF Spends, Resolves, LetsGo
<1> QED
  BY <1>1, <1>2, <1>5, <1>10, <1>11, HoldQuiet

LEMMA CommitHolds ==
    ASSUME CoreInv, HoldInv, ServeCommit
    PROVE  HoldInv'
<1>0. PICK s : s = Of
  OBVIOUS
<1>1. /\ queue # <<>> /\ queue[1].what = "commit"
      /\ \/ /\ Fail(s, scope, Served) /\ SameServer
            /\ UNCHANGED historyVars
         \/ /\ marks' = <<>> /\ UNCHANGED historyVars
            /\ Wait(s, scope, Served) \/ Fail(s, scope, Served)
         \/ /\ Admitted(s) /\ ~Lost /\ marks' = <<>> /\ ~aborted
            /\ Leave(s, "resolved", scope, Served)
            /\ durable' = durable \cup Committable
            /\ issuer' = issuer /\ ran' = ran /\ excused' = excused
      /\ "commit" \in Control
  BY <1>0
  DEF ServeCommit, At, Control, SameHistory, EndTransaction, CommitTag,
      historyVars
<1>2. /\ s \in DOMAIN scope /\ Alive(s) /\ scope[s].pc = "committing"
  BY <1>0, <1>1, FirstInQueue DEF Stage, Of
<1>3. /\ Preserved /\ link' = link /\ Begins(s)
      /\ scope[s].kind = "transaction"
      /\ FamilyInv /\ ToldInv /\ RanInv /\ WorkInv /\ FateInv
  BY <1>0, CommitKeeps DEF Begins, HoldInv
<1>4. /\ TypeOK /\ Touched(scope, s) /\ Untold(scope)
      /\ scope \in Settling(scope, s) /\ scope[s].pc \notin Failing
      /\ ShapeInv /\ DOMAIN scope = 1..Len(scope) /\ Len(scope) \in Nat
  BY <1>2, TouchedNone, UntoldBy, Typed DEF CoreInv, Settling, Failing
<1>5. CASE Fail(s, scope, Served) /\ SameServer /\ UNCHANGED historyVars
  <2>1. marks' = marks
    BY <1>5 DEF SameServer, serverVars
  <2> QED
    BY <1>2, <1>3, <1>5, <2>1, HoldFails, HoldsAsBefore
<1>6. CASE /\ marks' = <<>> /\ UNCHANGED historyVars
           /\ Wait(s, scope, Served) \/ Fail(s, scope, Served)
  <2>1. PICK sc \in {scope, Closed(scope, s)}, pc \in {"waiting", "undoing"} :
            scope' = [sc EXCEPT ![s].pc = pc] /\ client' = client
    BY <1>6 DEF Wait, Fail, Proceed, Closed
  <2>2. Touched(sc, s) /\ Untold(sc)
    BY <1>2, <1>4, TouchedClosed, UntoldBy
  <2>3. pc \in (Progress \ {"done"}) \cap Failing
    BY DEF Progress, Failing
  <2>4. Over(s)'
    BY <1>2, <1>3, <1>4, <2>1, <2>2, <2>3, MovedOver
  <2>5. Sinks /\ Drops /\ ~HoldsOn(s)
    BY <1>2, <1>3, <1>6, <2>4, HoldsNoMore, EndDrops
  <2> QED
    BY <1>2, <1>3, <1>6, <2>1, <2>2, <2>3, <2>5, HoldMoved
<1>7. CASE /\ Admitted(s) /\ ~Lost /\ marks' = <<>> /\ ~aborted
           /\ Leave(s, "resolved", scope, Served)
           /\ durable' = durable \cup Committable
           /\ issuer' = issuer /\ ran' = ran /\ excused' = excused
  <2>1. ~Doomed(s) /\ ~scope[s].undo /\ scope[s].told = "nothing"
    <3>1. OnStack(s)
      BY <1>2, <1>4 DEF ShapeInv, StackInv
    <3> QED
      BY <1>2, <1>3, <1>4, <1>7, <3>1
      DEF Admitted, OnStack, Doomed, ToldInv
  <2>2. /\ Turns /\ Spends /\ ~Alive(s)' /\ DOMAIN scope' = DOMAIN scope
        /\ scope'[s].told = "resolved"
        /\ \A x \in DOMAIN scope : x # s => scope'[x] = scope[x]
    BY <1>2, <1>3, <1>4, <1>7, <2>1, LeftTurns
  <2>3. Over(s)' /\ ~scope'[s].undo
    BY <1>2, <1>3, <1>4, <1>7, <2>1, LeftOver DEF Preserved, Fates
  <2>4. Sinks /\ Drops /\ \A x : ~HoldsOn(x)
    BY <1>2, <1>3, <1>7, <2>3, HoldsNoMore, EndDrops
  <2>5. LetsGo
    BY <2>4 DEF LetsGo
  <2>6. Top(s)
    BY <1>2, <1>3, <2>2 DEF Preserved, Fates, Begins
  <2>7. /\ \A x \in DOMAIN scope : x \in DOMAIN scope' /\ Line'[x] = Line[x]
        /\ \A w \in ran : /\ issuer[w] \in DOMAIN scope
                          /\ Around(w)' = Around(w)
                          /\ Around(w) \subseteq DOMAIN scope
    <3>1. \A x \in DOMAIN scope : x \in DOMAIN scope' /\ Line'[x] = Line[x]
      BY <1>3, PreservedCore, LinesStay DEF Preserved, CoreInv
    <3>2. ASSUME NEW w \in ran
          PROVE  /\ issuer[w] \in DOMAIN scope
                 /\ Around(w)' = Around(w)
                 /\ Around(w) \subseteq DOMAIN scope
      <4>1. w \in DOMAIN issuer /\ issuer[w] \in DOMAIN scope
        BY <1>3 DEF RanInv
      <4>2. Line[issuer[w]] \subseteq DOMAIN scope
        BY <1>4, <4>1, LineOrder
      <4> QED
        BY <1>7, <3>1, <4>1, <4>2 DEF Around
    <3> QED
      BY <3>1, <3>2
  <2>8. ASSUME NEW w \in durable' \ durable, NEW t \in DOMAIN scope,
               scope'[t].kind = "transaction", t \in Around(w)
        PROVE  scope'[t].told = "resolved" /\ Whole(w, t)'
    <3>1. w \in Works(DOMAIN marks)
      BY <1>7, <2>8 DEF Committable
    <3>2. PICK i \in DOMAIN marks : w \in marks[i].works
      BY <3>1 DEF Works
    <3>3. w \in ran /\ WorkFits(i, w)
      BY <1>3, <3>2, HeldWork DEF WorkInv
    <3>4. scope[t].kind = "transaction"
      BY <1>3, <2>2, <2>8
    <3>5. Alive(t)
      BY <1>3, <2>8, <3>1, <3>4, HeldBy
    <3>6. t = s
      BY <1>2, <1>3, <2>8, <3>4, <3>5, OneTransaction
    <3>7. ASSUME NEW x \in Around(w), s \in Line[x]
          PROVE  scope'[x].told = "resolved" /\ ~scope'[x].undo
      <4>1. x \in DOMAIN scope
        BY <2>7, <3>3
      <4>2. CASE x = s
        BY <2>2, <2>3, <4>2
      <4>3. CASE x # s
        <5>1. s <= x
          BY <1>4, <3>7, <4>1, LineOrder
        <5>2. ~Alive(x)
          <6>1. Alive(x) => x <= s
            BY <2>6, <4>1, TopIsLast
          <6> QED
            BY <1>2, <1>4, <4>1, <4>3, <5>1, <6>1
        <5>3. Begins(x)
          <6>1. scope[x].kind = "pinned" => s = x
            BY <3>7, <4>1, PinnedLine
          <6> QED
            BY <4>3, <6>1 DEF Begins
        <5>4. scope[x].told = "resolved" /\ ~scope[x].undo
          BY <3>3, <5>2, <5>3 DEF WorkFits
        <5> QED
          BY <2>2, <4>1, <4>3, <5>4
      <4> QED
        BY <4>2, <4>3
    <3>8. Whole(w, s)'
      BY <1>2, <2>7, <3>3, <3>7 DEF Whole
    <3> QED
      BY <2>2, <3>6, <3>8
  <2>9. ASSUME NEW w \in ran, s \in Around(w), Whole(w, s)',
               w \notin Works(DOMAIN marks)
        PROVE  FALSE
    <3>1. Begins(issuer[w])
      <4>1. issuer[w] \in DOMAIN scope
        BY <2>7
      <4>2. scope[issuer[w]].kind = "pinned" => s = issuer[w]
        BY <2>9, <4>1, PinnedLine DEF Around
      <4> QED
        BY <1>3, <4>2 DEF Begins
    <3>2. PICK x \in Around(w) : Over(x)
      BY <1>3, <1>7, <2>9, <3>1 DEF FateInv
    <3>3. x \in DOMAIN scope /\ issuer[w] \in DOMAIN scope
      BY <2>7, <3>2
    <3>4. x # s
      <4>1. ~Over(s)
        BY <1>2, <2>1 DEF Over
      <4> QED
        BY <3>2, <4>1
    <3>5. CASE x <= s
      <4>1. x \in Line[s]
        BY <1>2, <1>4, <2>9, <3>2, <3>3, <3>5, LineOrder DEF Around
      <4> QED
        BY <1>2, <1>3, <3>2, <3>4, <4>1, TransactionAround DEF Over, Begins
    <3>6. CASE s <= x
      <4>1. s \in Line[x]
        BY <1>2, <1>4, <2>9, <3>2, <3>3, <3>6, LineOrder DEF Around
      <4>2. scope[x].told = "resolved" /\ ~scope[x].undo
        <5>1. scope'[x].told = "resolved" /\ ~scope'[x].undo
          BY <1>2, <2>7, <2>9, <3>2, <3>3, <4>1 DEF Whole
        <5> QED
          BY <2>2, <3>3, <3>4, <5>1
      <4>3. ~Alive(x)
        BY <1>3, <3>3, <4>2 DEF ToldInv
      <4>4. scope[x].kind = "transaction"
        BY <3>2, <4>2, <4>3 DEF Over
      <4> QED
        BY <1>3, <2>9, <3>2, <3>3, <3>4, <4>4, OneTransactionAround
        DEF Around
    <3> QED
      BY <1>2, <1>4, <3>3, <3>5, <3>6
  <2>10. Commits
    BY <2>8 DEF Commits
  <2>11. Resolves
    <3> SUFFICES ASSUME NEW t \in DOMAIN scope \ excused',
                        scope'[t].told = "resolved",
                        Alive(t), ~Alive(t)',
                        NEW w \in ran, t \in Around(w), Whole(w, t)'
                 PROVE  w \in durable'
      BY DEF Resolves
    <3>1. t = s
      BY <2>2 DEF Alive
    <3>2. w \in Works(DOMAIN marks)
      BY <2>9, <3>1
    <3> QED
      BY <1>7, <3>2 DEF Committable
  <2>12. /\ IssuerGrows /\ excused \subseteq excused'
         /\ durable \subseteq durable'
    BY <1>7 DEF IssuerGrows
  <2> QED
    BY <1>3, <1>7, <2>2, <2>4, <2>5, <2>10, <2>11, <2>12, HoldNext
<1> QED
  BY <1>1, <1>5, <1>6, <1>7

-----------------------------------------------------------------------------
(* How savepoints come to be nested.                                       *)

(* The scopes around s that are open have their levels.                    *)
Nests(s) ==
    marks = <<>> \/
    \A x \in DOMAIN scope : x < s /\ Begins(x) /\ Alive(x) => Level(x) # {}

(* So it is of every level.                                                *)
NestInv == \A i \in DOMAIN marks : Nests(marks[i].of)

(* A savepoint on its way is not overtaken by what could change that.      *)
EntryInv ==
    \A j \in DOMAIN queue :
        queue[j].what = "savepoint" =>
            /\ \A i \in DOMAIN queue : i < j =>
                  queue[i].what \in {"savepoint", "close"}
            /\ Nests(queue[j].of)

(* No level is begun, and only the last are gone.                          *)
Trims ==
    \A k \in DOMAIN marks' : k \in DOMAIN marks /\ marks'[k].of = marks[k].of

(* Then the levels stay nested.                                            *)
LEMMA NestTrims ==
    ASSUME CoreInv, CoreInv', Fates, NestInv, Trims
    PROVE  NestInv'
<1>1. /\ DOMAIN marks = 1..Len(marks) /\ Len(marks) \in Nat
      /\ DOMAIN scope = 1..Len(scope) /\ Len(scope) \in Nat
  BY Typed DEF CoreInv
<1>2. DOMAIN marks' = 1..Len(marks') /\ Len(marks') \in Nat
  <2>1. marks' \in Seq([of : Scopes, works : SUBSET (1 .. MaxWork)]')
    BY DEF CoreInv, TypeOK
  <2> QED
    BY <2>1
<1>3. DOMAIN scope' = 1..Len(scope') /\ Len(scope') \in Nat
  BY DEF CoreInv, TypeOK, Scopes
<1> SUFFICES ASSUME NEW k \in DOMAIN marks', NEW x \in DOMAIN scope',
                    x < marks'[k].of, Begins(x)', Alive(x)'
             PROVE  Level(x)' # {}
  BY DEF NestInv, Nests
<1>4. k \in DOMAIN marks /\ marks'[k].of = marks[k].of
  BY DEF Trims
<1>5. marks[k].of \in DOMAIN scope /\ marks # <<>>
  BY <1>4 DEF CoreInv, MarkInv
<1>6. x \in DOMAIN scope
  BY <1>1, <1>3, <1>4, <1>5
<1>7. Begins(x) /\ Alive(x)
  BY <1>6 DEF Fates, Begins
<1>8. PICK i \in DOMAIN marks : marks[i].of = x
  BY <1>4, <1>5, <1>6, <1>7 DEF NestInv, Nests, Level
<1>9. i <= k
  <2>1. k < i => marks[k].of < marks[i].of
    BY <1>4, <1>8 DEF CoreInv, MarkInv
  <2> QED
    BY <1>1, <1>4, <1>5, <1>6, <1>8, <2>1
<1>10. i \in DOMAIN marks' /\ marks'[i].of = x
  BY <1>1, <1>2, <1>8, <1>9 DEF Trims
<1> QED
  BY <1>10 DEF Level

(* The levels as they are, or none.                                        *)
LEMMA NestsStay ==
    ASSUME CoreInv, CoreInv', Fates, marks' \in {marks, <<>>},
           NEW s \in DOMAIN scope, Nests(s)
    PROVE  Nests(s)'
<1>1. CASE marks' = <<>>
  BY <1>1 DEF Nests
<1>2. CASE marks' = marks
  <2> SUFFICES ASSUME marks # <<>>, NEW x \in DOMAIN scope', x < s,
                      Begins(x)', Alive(x)'
               PROVE  Level(x)' # {}
    BY <1>2 DEF Nests
  <2>1. DOMAIN scope = 1..Len(scope) /\ Len(scope) \in Nat
    BY Typed DEF CoreInv
  <2>2. DOMAIN scope' = 1..Len(scope') /\ Len(scope') \in Nat
    BY DEF CoreInv, TypeOK, Scopes
  <2>3. x \in DOMAIN scope
    BY <2>1, <2>2
  <2>4. Begins(x) /\ Alive(x)
    BY <2>3 DEF Fates, Begins
  <2> QED
    BY <1>2, <2>3, <2>4 DEF Nests, Level
<1> QED
  BY <1>1, <1>2

(* No savepoint joins the queue.                                           *)
Lets(q) ==
    \/ queue' = q
    \/ \E j \in JobRecord : j.what # "savepoint" /\ queue' = Append(q, j)

(* Then the savepoints on their way stay where they are.                   *)
LEMMA EntryStays ==
    ASSUME CoreInv, CoreInv', Fates, EntryInv, NEW q, Rest(q), Lets(q),
           \/ marks' \in {marks, <<>>}
           \/ queue # <<>> /\ q = Served /\ queue[1].what # "close"
    PROVE  EntryInv'
<1>1. /\ queue \in Seq(JobRecord)
      /\ DOMAIN queue = 1..Len(queue) /\ Len(queue) \in Nat
  BY Typed DEF CoreInv
<1> HIDE DEF JobRecord
<1>2. q \in Seq(JobRecord) /\ DOMAIN q = 1..Len(q) /\ Len(q) \in Nat
  BY RestOfQueue DEF CoreInv
<1>3. PICK d \in {0, 1} :
         \A i \in DOMAIN q : i + d \in DOMAIN queue /\ q[i] = queue[i + d]
  BY RestOfQueue DEF CoreInv
<1>4. ASSUME NEW k \in DOMAIN queue', queue'[k].what = "savepoint"
      PROVE  /\ k \in DOMAIN q
             /\ \A i \in DOMAIN queue' : i <= k =>
                  i \in DOMAIN q /\ queue'[i] = q[i]
  <2>1. CASE queue' = q
    BY <1>2, <1>4, <2>1
  <2>2. ASSUME NEW j \in JobRecord, j.what # "savepoint",
               queue' = Append(q, j)
        PROVE  /\ k \in DOMAIN q
               /\ \A i \in DOMAIN queue' : i <= k =>
                    i \in DOMAIN q /\ queue'[i] = q[i]
    <3>1. /\ DOMAIN queue' = 1..(Len(q) + 1) /\ queue'[Len(q) + 1] = j
          /\ \A i \in 1..Len(q) : queue'[i] = q[i]
      BY <1>2, <2>2, Appended
    <3>2. k # Len(q) + 1
      BY <1>4, <2>2, <3>1
    <3>3. k \in 1..Len(q) /\ \A i \in DOMAIN queue' : i <= k => i \in 1..Len(q)
      BY <1>2, <3>1, <3>2
    <3> QED
      BY <1>2, <3>1, <3>3
  <2> QED
    BY <2>1, <2>2 DEF Lets
<1>5. ASSUME NEW k \in DOMAIN queue', queue'[k].what = "savepoint"
      PROVE  /\ \A i \in DOMAIN queue' : i < k =>
                  queue'[i].what \in {"savepoint", "close"}
             /\ \E s \in DOMAIN scope : s = queue'[k].of /\ Nests(s)'
  <2>1. /\ k \in DOMAIN q /\ k + d \in DOMAIN queue
        /\ queue'[k] = queue[k + d] /\ queue[k + d].what = "savepoint"
    <3>1. k \in DOMAIN q
      BY <1>4, <1>5
    <3>2. k <= k
      BY <1>2, <3>1
    <3> QED
      BY <1>3, <1>4, <1>5, <3>1, <3>2
  <2>2. ASSUME NEW i \in DOMAIN queue', i < k
        PROVE  queue'[i].what \in {"savepoint", "close"}
    <3>1. i \in Nat
      <4>1. CASE queue' = q
        BY <1>2, <4>1
      <4>2. ASSUME NEW j \in JobRecord, queue' = Append(q, j)
            PROVE  i \in Nat
        <5>1. DOMAIN queue' = 1..(Len(q) + 1)
          BY <1>2, <4>2, Appended
        <5> QED
          BY <5>1
      <4> QED
        BY <4>1, <4>2 DEF Lets
    <3>2. i \in DOMAIN q /\ queue'[i] = q[i]
      BY <1>2, <1>4, <1>5, <2>1, <2>2, <3>1
    <3>3. i + d \in DOMAIN queue /\ q[i] = queue[i + d] /\ i + d < k + d
      BY <1>2, <1>3, <2>1, <2>2, <3>2
    <3> QED
      BY <2>1, <3>2, <3>3 DEF EntryInv
  <2>3. PICK s : s = queue[k + d].of
    OBVIOUS
  <2>4. Nests(s) /\ s \in DOMAIN scope /\ scope[s].pc = "opening"
    <3>1. "savepoint" \in Control /\ Stage("savepoint") = {"opening"}
      BY DEF Control, Stage
    <3>2. JobFits(queue[k + d])
      BY <2>1 DEF CoreInv, JobInv
    <3> QED
      BY <2>1, <2>3, <3>1, <3>2 DEF EntryInv, JobFits
  <2>5. marks' \in {marks, <<>>}
    <3> SUFFICES ASSUME queue # <<>>, q = Served, queue[1].what # "close"
                 PROVE  FALSE
      OBVIOUS
    <3>1. /\ k + 1 \in DOMAIN queue /\ queue'[k] = queue[k + 1]
          /\ 1 \in DOMAIN queue /\ 1 < k + 1
      <4>1. k \in DOMAIN Tail(queue) /\ queue'[k] = Tail(queue)[k]
        <5>1. k <= k
          BY <1>2, <2>1
        <5> QED
          BY <1>4, <1>5, <2>1, <5>1 DEF Served
      <4>2. /\ k + 1 \in DOMAIN queue /\ Tail(queue)[k] = queue[k + 1]
            /\ k \in Nat \ {0}
        BY <1>1, <4>1
      <4> QED
        BY <1>1, <4>1, <4>2
    <3>2. queue[1].what = "savepoint" /\ queue[k + 1].what = "savepoint"
      BY <1>5, <3>1 DEF EntryInv
    <3>3. "savepoint" \in Control /\ Stage("savepoint") = {"opening"}
      BY DEF Control, Stage
    <3>4. JobFits(queue[1]) /\ JobFits(queue[k + 1]) /\ 1 # k + 1
      BY <1>1, <3>1 DEF CoreInv, JobInv
    <3>5. queue[1].of # queue[k + 1].of
      BY <3>1, <3>2, <3>3, <3>4 DEF CoreInv, JobInv
    <3>6. /\ queue[1].of \in DOMAIN scope
          /\ queue[k + 1].of \in DOMAIN scope
          /\ scope[queue[1].of].pc = "opening"
          /\ scope[queue[k + 1].of].pc = "opening"
      BY <3>2, <3>3, <3>4 DEF JobFits
    <3> QED
      BY <3>5, <3>6, OneOpening
  <2>6. Nests(s)'
    BY <2>4, <2>5, NestsStay
  <2>7. queue'[k].of = s
    BY <2>1, <2>3
  <2> QED
    BY <2>2, <2>4, <2>6, <2>7
<1>6. ASSUME NEW k \in DOMAIN queue', queue'[k].what = "savepoint"
      PROVE  Nests(queue[k].of)'
  <2>1. PICK s \in DOMAIN scope : s = queue'[k].of /\ Nests(s)'
    BY <1>5, <1>6
  <2> QED
    BY <2>1 DEF Nests
<1> QED
  BY <1>5, <1>6 DEF EntryInv

(* The statement at the head of the queue asks for no savepoint.           *)
LEMMA ServeLets ==
    ASSUME CoreInv, Serve
    PROVE  queue # <<>> /\ Rest(Served) /\ Lets(Served)
<1>1. queue # <<>>
  BY DEF Serve, At, ServeBegin, ServeSavepoint, Refuse, WorkRuns, WorkFails,
         ServeFetch, ServeRecover, ServeClose, ServeRaw, ServeDrain,
         ServeCommit, ServeUndo, ServeRelease, ServeRevert, ServeForget
<1>2. Of \in DOMAIN scope /\ Rest(Served)
  BY <1>1, FirstInQueue
<1> SUFFICES Lets(Served)
  BY <1>1, <1>2
<1>3. PICK s : s = Of
  OBVIOUS
<1> DEFINE
     On == \/ queue' = Served
           \/ \E what \in What \ {"savepoint"} :
                 queue' = Append(Served, Job(what, s, 0))
<1>4. SUFFICES On
  <2>1. s \in Scopes /\ 0 \in 0 .. MaxWork
    BY <1>2, <1>3, Typed, ScopeAssumption DEF CoreInv
  <2>2. \A what \in What : Job(what, s, 0) \in JobRecord
                           /\ Job(what, s, 0).what = what
    BY <2>1 DEF Job, JobRecord
  <2> QED
    BY <2>2 DEF Lets
<1>5. /\ {"begin", "recover", "close", "drain", "commit", "undo", "release",
           "revert", "forget"} \subseteq What \ {"savepoint"}
  BY DEF What
<1>6. CASE Refuse \/ WorkRuns \/ WorkFails \/ ServeFetch \/ ServeClose
           \/ ServeRaw \/ ServeBegin
  BY <1>3, <1>5, <1>6
     DEF Refuse, WorkRuns, WorkFails, ServeFetch, ServeClose, ServeRaw,
         ServeBegin, Wait
<1>7. CASE ServeSavepoint
  BY <1>3, <1>5, <1>7 DEF ServeSavepoint, BeginInstead, Leave
<1>8. CASE ServeRecover
  BY <1>3, <1>5, <1>8 DEF ServeRecover, CloseAfter
<1>9. CASE ServeDrain \/ ServeCommit
  BY <1>3, <1>5, <1>9 DEF ServeDrain, ServeCommit, Fail, Wait, Leave, Proceed
<1>10. CASE ServeUndo \/ ServeRelease \/ ServeRevert \/ ServeForget
  BY <1>3, <1>5, <1>10
     DEF ServeUndo, ServeRelease, ServeRevert, ServeForget, Wait, Leave,
         Proceed
<1> QED
  BY <1>6, <1>7, <1>8, <1>9, <1>10 DEF Serve

(* Nor does a scope that goes on or comes to its end.                      *)
LEMMA OthersLet ==
    ASSUME CoreInv, NEW s \in DOMAIN scope,
           Regroup(s) \/ Return(s) \/ Throw(s) \/ Asks(s)
    PROVE  Lets(queue)
<1>1. s \in Scopes /\ 0 \in 0 .. MaxWork
  BY Typed, ScopeAssumption DEF CoreInv
<1>2. \A what \in What : Job(what, s, 0) \in JobRecord
                         /\ Job(what, s, 0).what = what
  BY <1>1 DEF Job, JobRecord
<1>3. CASE Issue(s)
  <2>1. Len(issuer) + 1 \in 0 .. MaxWork
    BY <1>3, Typed, ScopeAssumption DEF Issue, CoreInv
  <2>2. /\ Job("work", s, Len(issuer) + 1) \in JobRecord
        /\ Job("work", s, Len(issuer) + 1).what = "work"
    BY <1>1, <2>1 DEF Job, JobRecord, What
  <2> QED
    BY <1>3, <2>2 DEF Issue, Lets
<1>4. CASE \/ Regroup(s) \/ Return(s) \/ Throw(s) \/ GivesUp(s)
           \/ \E what \in {"fetch", "raw"} : Sends(s, what)
  <2>1. \/ queue' = queue
        \/ \E what \in What \ {"savepoint"} :
              queue' = Append(queue, Job(what, s, 0))
    BY <1>4 DEF Regroup, Return, Throw, GivesUp, Sends, Fail, Wait, Leave,
                Proceed, What
  <2> QED
    BY <1>2, <2>1 DEF Lets
<1> QED
  BY <1>3, <1>4 DEF Asks

(* Of the levels only the last go, but for a level that is begun.          *)
LEMMA ServeTrims ==
    ASSUME CoreInv, Serve
    PROVE  Trims \/ ServeBegin \/ ServeSavepoint
<1>1. CASE WorkRuns
  BY <1>1, WorkRunsKeeps DEF Trims
<1>2. CASE marks' = marks \/ marks' = <<>>
  BY <1>2 DEF Trims
<1>3. ASSUME NEW s, BackTo(s) \/ Merge(s), ran' = ran
      PROVE  Trims
  BY <1>3, BackServer DEF Trims, Cut
<1>4. CASE Refuse \/ WorkFails \/ ServeFetch \/ ServeClose
           \/ ServeRaw \/ ServeDrain \/ ServeCommit
  <2>1. marks' = marks \/ marks' = <<>>
    BY <1>4 DEF Refuse, WorkFails, ServeFetch, ServeClose, ServeRaw,
                ServeDrain, ServeCommit, SameServer, serverVars, Error,
                EndTransaction
  <2> QED
    BY <1>2, <2>1
<1>5. CASE ServeRecover \/ ServeUndo \/ ServeRelease \/ ServeRevert
           \/ ServeForget
  <2>1. \/ marks' = marks \/ marks' = <<>>
        \/ (BackTo(Of) \/ Merge(Of)) /\ ran' = ran
    BY <1>5 DEF ServeRecover, ServeUndo, ServeRelease, ServeRevert,
                ServeForget, SameServer, serverVars, Error, EndTransaction,
                SameHistory, historyVars
  <2> QED
    BY <1>2, <1>3, <2>1
<1> QED
  BY <1>1, <1>4, <1>5 DEF Serve

(* A close leaves the levels as they are.                                  *)
LEMMA CloseLeaves ==
    ASSUME Serve
    PROVE  queue[1].what # "close" \/ marks' = marks
BY DEF Serve, At, ServeBegin, ServeSavepoint, Refuse, WorkRuns, WorkFails,
       ServeFetch, ServeRecover, ServeClose, ServeRaw, ServeDrain,
       ServeCommit, ServeUndo, ServeRelease, ServeRevert, ServeForget, Error

(* A savepoint that enters is nested in what there is.                     *)
LEMMA NestGrows ==
    ASSUME CoreInv, CoreInv', Fates, NestInv, NEW s \in DOMAIN scope, Nests(s),
           DOMAIN scope' = DOMAIN scope, marks # <<>>,
           marks' = Append(marks, [of |-> s, works |-> {}])
    PROVE  NestInv'
<1>1. /\ marks \in Seq(MarkRecord)
      /\ DOMAIN marks = 1..Len(marks) /\ Len(marks) \in Nat
  BY Typed DEF CoreInv
<1>2. PICK m : m = [of |-> s, works |-> {}]
  OBVIOUS
<1>3. m \in MarkRecord /\ m.of = s
  <2>1. s \in Scopes
    BY Typed DEF CoreInv
  <2> QED
    BY <1>2, <2>1 DEF MarkRecord
<1> HIDE DEF MarkRecord
<1>4. /\ DOMAIN marks' = 1..(Len(marks) + 1)
      /\ marks'[Len(marks) + 1].of = s
      /\ \A i \in DOMAIN marks : i \in DOMAIN marks' /\ marks'[i] = marks[i]
  <2>1. marks' = Append(marks, m)
    BY <1>2
  <2> QED
    BY <1>1, <1>3, <2>1, Appended
<1> SUFFICES ASSUME NEW k \in DOMAIN marks', NEW x \in DOMAIN scope',
                    x < marks'[k].of, Begins(x)', Alive(x)'
             PROVE  Level(x)' # {}
  BY DEF NestInv, Nests
<1>5. x \in DOMAIN scope /\ Begins(x) /\ Alive(x)
  BY DEF Fates, Begins
<1>6. Level(x) # {}
  <2>1. CASE k \in DOMAIN marks
    BY <1>4, <1>5, <2>1 DEF NestInv, Nests
  <2>2. CASE k = Len(marks) + 1
    BY <1>4, <1>5, <2>2 DEF Nests
  <2> QED
    BY <1>1, <1>4, <2>1, <2>2
<1> QED
  BY <1>4, <1>6 DEF Level

LEMMA BeginNests ==
    ASSUME CoreInv, NestInv, ServeBegin
    PROVE  NestInv'
<1>1. PICK s : s = Of
  OBVIOUS
<1>2. /\ Preserved /\ s \in DOMAIN scope /\ scope[s].pc = "opening"
      /\ DOMAIN scope' = DOMAIN scope /\ marks = <<>>
      /\ marks' = marks \/ marks' = <<[of |-> s, works |-> {}]>>
  BY <1>1, BeginKeeps
<1>3. CoreInv' /\ Fates
  BY <1>2, PreservedCore DEF Preserved
<1>4. CASE marks' = marks
  <2>1. Trims
    BY <1>4 DEF Trims
  <2> QED
    BY <1>3, <2>1, NestTrims
<1>5. CASE marks' = <<[of |-> s, works |-> {}]>>
  <2>1. DOMAIN marks' = {1} /\ marks'[1].of = s
    BY <1>5
  <2>2. scope[s].kind = "transaction"
    <3>1. queue # <<>> /\ queue[1].what = "begin"
      BY DEF ServeBegin, At
    <3> QED
      BY <1>1, <3>1, FirstInQueue DEF JobFits, Of
  <2>3. ASSUME NEW x \in DOMAIN scope, x < s, Alive(x) PROVE ~Begins(x)
    <3>1. PICK i \in DOMAIN stack : stack[i] = x
      BY <2>3 DEF CoreInv, ShapeInv, StackInv, OnStack
    <3>2. PICK j \in DOMAIN stack : stack[j] = s
      BY <1>2 DEF CoreInv, ShapeInv, StackInv, OnStack, Alive
    <3>3. i < j
      <4>1. /\ DOMAIN stack = 1..Len(stack) /\ Len(stack) \in Nat
            /\ DOMAIN scope = 1..Len(scope) /\ Len(scope) \in Nat
        BY Typed DEF CoreInv
      <4>2. ~(j < i)
        BY <1>2, <2>3, <3>1, <3>2, <4>1 DEF CoreInv, ShapeInv, StackInv
      <4>3. i # j
        BY <1>2, <2>3, <3>1, <3>2, <4>1
      <4> QED
        BY <4>1, <4>2, <4>3
    <3> QED
      BY <2>2, <3>1, <3>2, <3>3 DEF CoreInv, ShapeInv, StackInv, Begins
  <2> SUFFICES ASSUME NEW x \in DOMAIN scope', x < s, Begins(x)', Alive(x)'
               PROVE  FALSE
    BY <2>1 DEF NestInv, Nests
  <2>4. x \in DOMAIN scope /\ Begins(x) /\ Alive(x)
    BY <1>2, <1>3 DEF Fates, Begins
  <2> QED
    BY <2>3, <2>4
<1> QED
  BY <1>2, <1>4, <1>5

LEMMA SavepointNests ==
    ASSUME CoreInv, NestInv, EntryInv, ServeSavepoint
    PROVE  NestInv'
<1>1. PICK s : s = Of
  OBVIOUS
<1>2. /\ Preserved /\ s \in DOMAIN scope /\ DOMAIN scope' = DOMAIN scope
      /\ marks' = marks \/ marks' = Append(marks, [of |-> s, works |-> {}])
  BY <1>1, SavepointKeeps
<1>3. CoreInv' /\ Fates
  BY <1>2, PreservedCore DEF Preserved
<1>4. CASE marks' = marks
  <2>1. Trims
    BY <1>4 DEF Trims
  <2> QED
    BY <1>3, <2>1, NestTrims
<1>5. CASE /\ marks' = Append(marks, [of |-> s, works |-> {}])
           /\ marks' # marks
  <2>1. queue # <<>> /\ queue[1].what = "savepoint"
    BY DEF ServeSavepoint, At
  <2>2. 1 \in DOMAIN queue
    BY <2>1, Typed DEF CoreInv
  <2>3. Nests(s)
    BY <1>1, <2>1, <2>2 DEF EntryInv, Of
  <2>4. marks # <<>>
    BY <1>5 DEF ServeSavepoint, SameServer, serverVars
  <2> QED
    BY <1>2, <1>3, <1>5, <2>3, <2>4, NestGrows
<1> QED
  BY <1>2, <1>4, <1>5

(* Where a scope may be opened the scopes around it have their levels.     *)
LEMMA UsableNests ==
    ASSUME CoreInv, LevelInv, NEW s \in DOMAIN scope, scope[s].pc = "body",
           Usable(s), marks # <<>>, NEW x \in DOMAIN scope, Begins(x), Alive(x)
    PROVE  Level(x) # {}
<1>1. ~Lost
  BY DEF CoreInv, MarkInv
<1>2. scope[x].pc # "opening"
  <2> SUFFICES ASSUME scope[x].pc = "opening" PROVE FALSE
    OBVIOUS
  <2>1. Top(x)
    BY DEF CoreInv, ShapeInv, ScopeInv
  <2> QED
    BY <2>1 DEF Usable, Admitted, Top
<1>3. \A t \in DOMAIN scope : Alive(t) =>
         ~scope[t].poison /\ ~scope[t].closing
  BY DEF CoreInv, ShapeInv, StackInv, OnStack, Usable, Admitted
<1>4. ~Spoiled(x)
  BY <1>3 DEF Spoiled
<1> QED
  BY <1>1, <1>2, <1>4 DEF LevelInv, Opened, Begins

LEMMA OpenEnters ==
    ASSUME CoreInv, LevelInv, EntryInv, NEW s \in DOMAIN scope,
           scope[s].pc = "body", NEW undo \in BOOLEAN, NEW awaited \in BOOLEAN,
           NEW settled \in {"open", "resolved"},
           Open(s, undo, awaited, settled)
    PROVE  EntryInv'
<1>1. /\ Preserved /\ marks' = marks
      /\ \A x \in DOMAIN scope : scope'[x] = scope[x]
  BY OpenKeeps
<1>2. CoreInv' /\ Fates
  BY <1>1, PreservedCore DEF Preserved
<1>3. PICK n : n = Len(scope) + 1
  OBVIOUS
<1>4. n \in Scopes /\ 0 \in 0 .. MaxWork
  BY <1>3, Typed, ScopeAssumption DEF CoreInv, Open, Scopes
<1>5. CASE Lets(queue)
  BY <1>1, <1>2, <1>5, EntryStays DEF Rest
<1>6. CASE /\ queue' = Append(queue, Job("savepoint", n, 0))
           /\ Enters(s, "savepoint")
           /\ DOMAIN scope' = DOMAIN scope \cup {n}
  <2>1. PICK j : j = Job("savepoint", n, 0)
    OBVIOUS
  <2>2. j \in JobRecord /\ j.of = n
    BY <1>4, <2>1 DEF Job, JobRecord, What
  <2>3. /\ queue \in Seq(JobRecord)
        /\ DOMAIN queue = 1..Len(queue) /\ Len(queue) \in Nat
    BY Typed DEF CoreInv
  <2> HIDE DEF JobRecord
  <2>4. /\ DOMAIN queue' = 1..(Len(queue) + 1)
        /\ queue'[Len(queue) + 1].of = n
        /\ \A i \in DOMAIN queue : queue'[i] = queue[i]
    BY <1>6, <2>1, <2>2, <2>3, Appended
  <2>5. \A i \in DOMAIN queue : queue[i].what \in {"savepoint", "close"}
    BY <1>6 DEF Enters
  <2>6. ASSUME NEW k \in DOMAIN queue', NEW i \in DOMAIN queue', i < k
        PROVE  queue'[i].what \in {"savepoint", "close"}
    <3>1. i \in DOMAIN queue
      BY <2>3, <2>4, <2>6
    <3> QED
      BY <2>4, <2>5, <3>1
  <2>7. ASSUME NEW k \in DOMAIN queue, queue[k].what = "savepoint"
        PROVE  \E x \in DOMAIN scope : x = queue[k].of /\ Nests(x)'
    <3>1. PICK x : x = queue[k].of
      OBVIOUS
    <3>2. x \in DOMAIN scope /\ Nests(x)
      BY <2>7, <3>1 DEF EntryInv, CoreInv, JobInv, JobFits
    <3>3. Nests(x)'
      BY <1>1, <1>2, <3>2, NestsStay
    <3> QED
      BY <3>1, <3>2, <3>3
  <2>8. Nests(n)'
    <3> SUFFICES ASSUME marks # <<>>, NEW x \in DOMAIN scope', x < n,
                        Begins(x)', Alive(x)'
                 PROVE  Level(x)' # {}
      BY <1>1 DEF Nests
    <3>1. x \in DOMAIN scope
      BY <1>3, <1>6, Typed DEF CoreInv
    <3>2. Begins(x) /\ Alive(x)
      BY <1>1, <3>1 DEF Begins, Alive
    <3>3. Level(x) # {}
      BY <1>6, <3>1, <3>2, UsableNests DEF Enters
    <3> QED
      BY <1>1, <3>3 DEF Level
  <2>9. ASSUME NEW k \in DOMAIN queue', queue'[k].what = "savepoint"
        PROVE  Nests(queue[k].of)'
    <3>1. CASE k \in DOMAIN queue
      <4>1. PICK x \in DOMAIN scope : x = queue[k].of /\ Nests(x)'
        BY <2>4, <2>7, <2>9, <3>1
      <4>2. queue'[k].of = x
        BY <2>4, <3>1, <4>1
      <4> QED
        BY <4>1, <4>2 DEF Nests
    <3>2. CASE k = Len(queue) + 1
      <4>1. queue'[k].of = n
        BY <2>4, <3>2
      <4> QED
        BY <2>8, <4>1 DEF Nests
    <3> QED
      BY <2>3, <2>4, <3>1, <3>2
  <2> QED
    BY <2>6, <2>9 DEF EntryInv
<1>7. \/ queue' = queue
      \/ queue' = Append(queue, Job("begin", n, 0))
      \/ /\ queue' = Append(queue, Job("savepoint", n, 0))
         /\ Enters(s, "savepoint")
         /\ \E r : scope' = Append(scope, r)
  BY <1>3 DEF Open
<1>8. CASE queue' = Append(queue, Job("begin", n, 0))
  <2>1. Job("begin", n, 0) \in JobRecord /\ Job("begin", n, 0).what = "begin"
    BY <1>4 DEF Job, JobRecord, What
  <2> QED
    BY <1>5, <1>8, <2>1 DEF Lets
<1>9. CASE \E r : scope' = Append(scope, r)
  <2>1. scope \in Seq(ScopeRecord) /\ DOMAIN scope = 1..Len(scope)
    BY Typed DEF CoreInv
  <2>2. DOMAIN scope' = DOMAIN scope \cup {n}
    BY <1>3, <1>9, <2>1
  <2> QED
    BY <1>5, <1>6, <1>7, <1>8, <2>2 DEF Lets
<1> QED
  BY <1>5, <1>7, <1>8, <1>9 DEF Lets

(* The scope of a statement that runs, and those around it.                *)
LEMMA RunsOn ==
    ASSUME CoreInv, LevelInv, FamilyInv, WorkRuns, NEW s, s = Of
    PROVE  /\ s \in DOMAIN scope /\ Alive(s) /\ Top(s) /\ Pending(s)
           /\ queue[1].work \in DOMAIN issuer /\ issuer[queue[1].work] = s
           /\ \A x \in Line[s] :
                 /\ x \in DOMAIN scope /\ x <= s /\ scope[x].pc # "opening"
                 /\ Begins(x) => Alive(x)
           /\ Level(s) # {} \/ (~Begins(s) /\ Line[s] = {s})
<1>1. queue # <<>> /\ queue[1].what = "work" /\ ~Lost
  BY DEF WorkRuns, At
<1>2. /\ s \in DOMAIN scope /\ JobFits(queue[1]) /\ queue[1].of = s
  BY <1>1, FirstInQueue DEF Of
<1>3. 1 \in DOMAIN queue
  BY <1>1, Typed DEF CoreInv
<1>4. Pending(s)
  BY <1>1, <1>2, <1>3 DEF Pending, Asked
<1>5. /\ queue[1].work \in DOMAIN issuer /\ issuer[queue[1].work] = s
      /\ scope[s].pc # "opening"
  BY <1>1, <1>2 DEF JobFits, Control
<1>6. Top(s) /\ \A i \in DOMAIN stack : ~scope[stack[i]].poison
  BY <1>2 DEF WorkRuns, Admitted, Of
<1>7. Alive(s)
  <2>1. Len(stack) \in DOMAIN stack /\ stack[Len(stack)] = s
    BY <1>6, Typed DEF Top, CoreInv
  <2> QED
    BY <1>2, <2>1 DEF CoreInv, ShapeInv, StackInv, OnStack
<1>8. ASSUME NEW x \in Line[s]
      PROVE  /\ x \in DOMAIN scope /\ x <= s /\ scope[x].pc # "opening"
             /\ Begins(x) => Alive(x)
  <2>1. x \in DOMAIN scope /\ x <= s
    BY <1>2, LineOrder DEF CoreInv
  <2>2. scope[x].pc # "opening"
    <3> SUFFICES ASSUME scope[x].pc = "opening" PROVE FALSE
      OBVIOUS
    <3>1. Top(x)
      BY <2>1 DEF CoreInv, ShapeInv, ScopeInv
    <3> QED
      BY <1>5, <1>6, <3>1 DEF Top
  <2>3. Begins(x) => Alive(x)
    BY <1>2, <1>7, OpenWithinOpen
  <2> QED
    BY <2>1, <2>2, <2>3
<1>9. ~Spoiled(s)
  <2>1. \A t \in DOMAIN scope : Alive(t) => ~scope[t].poison
    BY <1>6 DEF CoreInv, ShapeInv, StackInv, OnStack
  <2> QED
    BY <1>4, <2>1 DEF Spoiled
<1>10. Level(s) # {} \/ ~Begins(s)
  BY <1>1, <1>2, <1>5, <1>7, <1>9 DEF LevelInv, Opened, Begins
<1>11. ~Begins(s) => Line[s] = {s}
  BY <1>2, PinnedLine DEF Begins
<1> QED
  BY <1>2, <1>4, <1>5, <1>6, <1>7, <1>8, <1>10, <1>11

(* What runs is held by the level of the innermost scope.                  *)
LEMMA RunFits ==
    ASSUME CoreInv, LevelInv, QuietInv, HoldInv, NestInv, WorkRuns,
           marks # <<>>
    PROVE  WorkFits(Len(marks), queue[1].work)
<1>1. PICK s : s = Of
  OBVIOUS
<1>2. PICK w : w = queue[1].work
  OBVIOUS
<1>3. /\ s \in DOMAIN scope /\ Alive(s) /\ Top(s) /\ Pending(s)
      /\ issuer[w] = s
      /\ \A x \in Line[s] : /\ x \in DOMAIN scope /\ x <= s
                            /\ Begins(x) => Alive(x)
      /\ Level(s) # {} \/ (~Begins(s) /\ Line[s] = {s})
  BY <1>1, <1>2, RunsOn DEF HoldInv
<1>4. Around(w) = Line[s]
  BY <1>3 DEF Around
<1>5. /\ DOMAIN marks = 1..Len(marks) /\ Len(marks) \in Nat
      /\ DOMAIN scope = 1..Len(scope)
  BY Typed DEF CoreInv
<1>6. ASSUME NEW x \in Line[s], Begins(x), Alive(x)
      PROVE  Level(x) # {} /\ x <= marks[Len(marks)].of
  <2>1. Level(s) # {}
    BY <1>3, <1>6
  <2>2. PICK i \in DOMAIN marks : marks[i].of = s
    BY <2>1 DEF Level
  <2>3. s <= marks[Len(marks)].of /\ marks[Len(marks)].of \in DOMAIN scope
    <3>1. Len(marks) \in DOMAIN marks
      BY <1>5, <2>2
    <3>2. i < Len(marks) => s < marks[Len(marks)].of
      BY <2>2, <3>1 DEF CoreInv, MarkInv
    <3>3. marks[Len(marks)].of \in DOMAIN scope
      BY <3>1 DEF CoreInv, MarkInv
    <3> QED
      BY <1>3, <1>5, <2>2, <3>2, <3>3
  <2>4. x < s => Level(x) # {}
    BY <1>3, <1>6, <2>2 DEF NestInv, Nests
  <2> QED
    BY <1>3, <1>5, <1>6, <2>1, <2>3, <2>4
<1>7. ASSUME NEW x \in DOMAIN scope, Alive(x) PROVE x \in Line[s]
  <2>1. x <= s
    BY <1>3, <1>7, TopIsLast
  <2> QED
    BY <1>3, <1>7, <2>1, OpenInLine
<1>8. ASSUME NEW x \in Line[s], Begins(x), Alive(x)
      PROVE  ~scope[x].undone /\ scope[x].pc \notin {"waiting", "forgetting"}
  <2>1. x \in DOMAIN scope /\ x <= s
    BY <1>3
  <2>2. ~Rests(x)
    BY <1>3, <1>8, <2>1 DEF QuietInv, Begins
  <2>3. scope[x].pc # "forgetting"
    BY <1>3, <2>1 DEF HoldInv, SpentInv
  <2> QED
    BY <2>2, <2>3 DEF Rests
<1>9. WorkFits(Len(marks), w)
  BY <1>3, <1>4, <1>6, <1>7, <1>8 DEF WorkFits
<1> QED
  BY <1>2, <1>9

LEMMA RunHolds ==
    ASSUME CoreInv, LevelInv, QuietInv, HoldInv, NestInv, WorkRuns
    PROVE  HoldInv'
<1>0. /\ FamilyInv /\ ToldInv /\ RanInv /\ SpentInv /\ WorkInv /\ FateInv
      /\ PromiseInv
  BY DEF HoldInv
<1>1. PICK s : s = Of
  OBVIOUS
<1>2. PICK w : w = queue[1].work
  OBVIOUS
<1>3. /\ s \in DOMAIN scope /\ Alive(s) /\ w \in DOMAIN issuer
      /\ issuer[w] = s
      /\ \A x \in Line[s] : /\ x \in DOMAIN scope /\ scope[x].pc # "opening"
                            /\ Begins(x) => Alive(x)
      /\ Level(s) # {} \/ (~Begins(s) /\ Line[s] = {s})
  BY <1>0, <1>1, <1>2, RunsOn
<1>4. Around(w) = Line[s]
  BY <1>3 DEF Around
<1>5. /\ scope' = scope /\ client' = client /\ link' = link
      /\ issuer' = issuer /\ excused' = excused /\ ran' = ran \cup {w}
      /\ \/ marks = <<>> /\ marks' = marks /\ durable' = durable \cup {w}
         \/ /\ marks # <<>> /\ durable' = durable
            /\ marks' = [marks EXCEPT ![Len(marks)].works = @ \cup {w}]
  BY <1>2 DEF WorkRuns
<1>6. CoreInv' /\ Fates /\ Preserved
  BY WorkRunsKeeps, PreservedCore DEF Preserved
<1>7. Turns /\ Spends /\ Resolves
  <2>1. Touched(scope', s)
    BY <1>5, TouchedNone DEF CoreInv
  <2>2. Untold(scope')
    BY <1>5 DEF Untold
  <2> QED
    BY <1>5, <2>1, <2>2, StillTurns
<1>8. FamilyInv' /\ ToldInv' /\ SpentInv'
  BY <1>0, <1>6, <1>7, FamilyNext, ToldNext, SpentNext
<1>9. RanInv' /\ LinesHold
  <2>1. IssuerGrows /\ DOMAIN issuer' \ DOMAIN issuer = {}
    BY <1>5 DEF IssuerGrows
  <2>2. \A v \in ran' \ ran :
           v \in DOMAIN issuer /\ \A x \in Around(v) : scope[x].pc # "opening"
    BY <1>3, <1>4, <1>5
  <2> QED
    BY <1>0, <1>6, <1>7, <2>1, <2>2, RanNext DEF LinesHold
<1>10. /\ marks \in Seq(MarkRecord)
       /\ DOMAIN marks = 1..Len(marks) /\ Len(marks) \in Nat
  BY Typed DEF CoreInv
<1>11. /\ DOMAIN marks' = DOMAIN marks
       /\ \A i \in DOMAIN marks :
             /\ marks'[i].of = marks[i].of
             /\ marks[i].works \subseteq marks'[i].works
             /\ marks'[i].works # marks[i].works =>
                   i = Len(marks) /\ marks'[i].works = marks[i].works \cup {w}
       /\ marks # <<>> =>
             Len(marks) \in DOMAIN marks' /\ w \in marks'[Len(marks)].works
  <2>1. CASE marks = <<>>
    BY <1>5, <1>10, <2>1
  <2>2. CASE marks # <<>>
    <3>1. PICK n : n = Len(marks)
      OBVIOUS
    <3>2. n \in DOMAIN marks
      BY <1>10, <2>2, <3>1
    <3>3. marks \in [DOMAIN marks -> MarkRecord]
      BY Typed DEF CoreInv
    <3>4. PICK m : m = [marks[n] EXCEPT !.works = @ \cup {w}]
      OBVIOUS
    <3>5. m.of = marks[n].of /\ m.works = marks[n].works \cup {w}
      BY <3>2, <3>3, <3>4 DEF MarkRecord
    <3>6. marks' = [marks EXCEPT ![n] = m]
      BY <1>5, <2>2, <3>1, <3>4
    <3>7. /\ DOMAIN marks' = DOMAIN marks /\ marks'[n] = m
          /\ \A i \in DOMAIN marks : i # n => marks'[i] = marks[i]
      BY <3>2, <3>6
    <3>8. ASSUME NEW i \in DOMAIN marks
          PROVE  /\ marks'[i].of = marks[i].of
                 /\ marks[i].works \subseteq marks'[i].works
                 /\ marks'[i].works # marks[i].works =>
                       i = n /\ marks'[i].works = marks[i].works \cup {w}
      BY <3>5, <3>7
    <3> QED
      BY <3>1, <3>2, <3>5, <3>7, <3>8
  <2> QED
    BY <2>1, <2>2
<1>12. WorkInv'
  <2> SUFFICES ASSUME NEW i \in DOMAIN marks', NEW v \in marks'[i].works
               PROVE  WorkFits(i, v)'
    BY DEF WorkInv
  <2>1. WorkFits(i, v)
    <3>1. CASE v \in marks[i].works
      BY <1>0, <1>11, <3>1 DEF WorkInv
    <3>2. CASE v \notin marks[i].works
      <4>1. marks # <<>> /\ i = Len(marks) /\ v = w
        BY <1>10, <1>11, <3>2
      <4> QED
        BY <1>2, <4>1, RunFits
    <3> QED
      BY <3>1, <3>2
  <2>2. v \in ran \cup ran'
    <3>1. v \in marks[i].works \/ v = w
      BY <1>11
    <3> QED
      BY <1>0, <1>5, <1>11, <3>1, HeldWork
  <2>3. Around(v)' = Around(v)
    BY <1>9, <2>2 DEF LinesHold
  <2>4. \A x : Level(x)' = Level(x)
    BY <1>11 DEF Level
  <2>5. \A x : (Begins(x)' <=> Begins(x)) /\ (Alive(x)' <=> Alive(x))
    BY <1>5 DEF Begins, Alive
  <2>6. marks'[i].of = marks[i].of
    BY <1>11
  <2> QED
    BY <1>5, <2>1, <2>3, <2>4, <2>5, <2>6 DEF WorkFits
<1>13. Drops
  <2>1. Works(DOMAIN marks) \subseteq Works(DOMAIN marks)'
    BY <1>11 DEF Works
  <2> QED
    BY <2>1 DEF Drops
<1>14. marks = <<>> => ~Begins(s) /\ Line[s] = {s}
  BY <1>3 DEF Level
<1>15. FateInv'
  <2>1. w \in Works(DOMAIN marks)' \/ ~Begins(s)
    BY <1>11, <1>14 DEF Works
  <2> QED
    BY <1>0, <1>3, <1>5, <1>6, <1>7, <1>9, <1>13, <2>1, FateNext
<1>16. Commits
  <2> SUFFICES ASSUME NEW v \in durable' \ durable, NEW t \in DOMAIN scope,
                      scope'[t].kind = "transaction", t \in Around(v)
               PROVE  FALSE
    BY DEF Commits
  <2>1. marks = <<>> /\ v = w
    BY <1>5
  <2> QED
    BY <1>4, <1>5, <1>14, <2>1 DEF Begins
<1>17. PromiseInv'
  <2>1. \A v \in ran' \ ran : \A t \in Around(v) :
           scope'[t].kind = "transaction" => Alive(t)'
    BY <1>3, <1>4, <1>5 DEF Begins, Alive
  <2> QED
    BY <1>0, <1>5, <1>6, <1>7, <1>9, <1>16, <2>1, PromiseNext
<1> QED
  BY <1>8, <1>9, <1>12, <1>15, <1>17 DEF HoldInv

(* Every action keeps what a transaction promises.                         *)
LEMMA CallbackHolds ==
    ASSUME CoreInv, HoldInv, NEW s, Callback(s)
    PROVE  HoldInv'
<1>1. s \in DOMAIN scope /\ scope[s].pc = "body"
  BY DEF Callback, InBody
<1>2. ASSUME NEW undo \in BOOLEAN, NEW awaited \in BOOLEAN,
             NEW settled \in {"open", "resolved"},
             Open(s, undo, awaited, settled)
      PROVE  HoldInv'
  BY <1>1, <1>2, OpenHolds
<1>3. CASE Issue(s) \/ Raw(s)
  BY <1>1, <1>3, Asking, AsksHold DEF InBody
<1>4. CASE Return(s) \/ Throw(s)
  BY <1>1, <1>4, ReturnHolds
<1> QED
  BY <1>2, <1>3, <1>4 DEF Callback

LEMMA ServeHolds ==
    ASSUME CoreInv, LevelInv, QuietInv, HoldInv, NestInv, Serve
    PROVE  HoldInv'
<1>1. CASE ServeBegin \/ ServeSavepoint
  BY <1>1, BeginHolds, SavepointHolds
<1>2. CASE Refuse \/ ServeClose \/ WorkFails \/ ServeFetch
  BY <1>2, RefuseHolds, FailsHolds
<1>3. CASE WorkRuns
  BY <1>3, RunHolds
<1>4. CASE ServeRecover \/ ServeDrain \/ ServeUndo
  BY <1>4, RecoverHolds, DrainHolds, UndoHolds
<1>5. CASE ServeRaw \/ ServeCommit
  BY <1>5, RawHolds, CommitHolds
<1>6. CASE ServeRelease \/ ServeRevert \/ ServeForget
  BY <1>6, ReleaseHolds, RevertHolds, ForgetHolds
<1> QED
  BY <1>1, <1>2, <1>3, <1>4, <1>5, <1>6 DEF Serve

LEMMA StepHolds ==
    ASSUME CoreInv, LevelInv, QuietInv, HoldInv, NestInv, Next
    PROVE  HoldInv'
<1>1. ASSUME NEW s \in 1 .. MaxScope,
             Callback(s) \/ Fetch(s) \/ Regroup(s)
      PROVE  HoldInv'
  BY <1>1, CallbackHolds, Asking, AsksHold, RegroupHolds
<1>2. CASE Serve
  BY <1>2, ServeHolds
<1>3. CASE Lose \/ Abort
  BY <1>3, LoseHolds, AbortHolds
<1> QED
  BY <1>1, <1>2, <1>3 DEF Next

LEMMA StepNests ==
    ASSUME CoreInv, NestInv, EntryInv, Next
    PROVE  NestInv'
<1>1. CoreInv' /\ Fates
  BY StepKeeps, PreservedCore DEF Preserved
<1>2. CASE marks' = marks \/ marks' = <<>>
  <2>1. Trims
    BY <1>2 DEF Trims
  <2> QED
    BY <1>1, <2>1, NestTrims
<1>3. ASSUME NEW s, Callback(s) PROVE NestInv'
  BY <1>2, <1>3, CallbackKeeps
<1>4. ASSUME NEW s, Fetch(s) \/ Regroup(s) PROVE NestInv'
  BY <1>2, <1>4, Asking, AsksKeep, RegroupKeeps
<1>5. CASE Serve
  BY <1>1, <1>5, ServeTrims, NestTrims, BeginNests, SavepointNests
<1>6. CASE Lose \/ Abort
  BY <1>2, <1>6, AbortKeeps DEF Lose, Disconnected
<1> QED
  BY <1>3, <1>4, <1>5, <1>6 DEF Next

LEMMA StepEnters ==
    ASSUME CoreInv, LevelInv, EntryInv, Next
    PROVE  EntryInv'
<1>1. CoreInv' /\ Fates
  BY StepKeeps, PreservedCore DEF Preserved
<1>2. CASE Lets(queue) /\ marks' \in {marks, <<>>}
  BY <1>1, <1>2, EntryStays DEF Rest
<1>3. ASSUME NEW s, Callback(s) PROVE EntryInv'
  <2>1. s \in DOMAIN scope /\ scope[s].pc = "body" /\ marks' = marks
    BY <1>3, CallbackKeeps DEF Callback, InBody
  <2>2. ASSUME NEW undo \in BOOLEAN, NEW awaited \in BOOLEAN,
               NEW settled \in {"open", "resolved"},
               Open(s, undo, awaited, settled)
        PROVE  EntryInv'
    BY <2>1, <2>2, OpenEnters
  <2>3. CASE Return(s) \/ Throw(s) \/ Issue(s) \/ Raw(s)
    <3>1. Issue(s) \/ Raw(s) => Asks(s)
      BY <2>1, Asking DEF InBody
    <3> QED
      BY <1>2, <2>1, <2>3, <3>1, OthersLet
  <2> QED
    BY <1>3, <2>2, <2>3 DEF Callback
<1>4. ASSUME NEW s, Fetch(s) \/ Regroup(s) PROVE EntryInv'
  <2>1. /\ s \in DOMAIN scope /\ marks' = marks
        /\ Asks(s) \/ Regroup(s)
    BY <1>4, Asking, AsksKeep, RegroupKeeps DEF Regroup
  <2> QED
    BY <1>2, <1>4, <2>1, OthersLet
<1>5. CASE Serve
  <2>1. queue # <<>> /\ Rest(Served) /\ Lets(Served)
    BY <1>5, ServeLets
  <2>2. queue[1].what # "close" \/ marks' = marks
    BY <1>5, CloseLeaves
  <2> QED
    BY <1>1, <2>1, <2>2, EntryStays
<1>6. CASE Lose \/ Abort
  <2>1. marks' \in {marks, <<>>} /\ queue' = queue
    BY <1>6, AbortKeeps DEF Lose, Abort, Disconnected
  <2> QED
    BY <1>2, <2>1 DEF Lets
<1> QED
  BY <1>3, <1>4, <1>5, <1>6 DEF Next

LEMMA QuietNext ==
    ASSUME CoreInv, LevelInv, QuietInv, Next, RecoversPoisoned'
    PROVE  QuietInv'
BY StepKeeps, StepMoves, QuietStep DEF Moves

(* All that is kept of what the server holds.                              *)
KeepInv == LevelInv /\ QuietInv /\ HoldInv /\ NestInv /\ EntryInv

LEMMA KeepNext ==
    ASSUME CoreInv, KeepInv, [Next]_vars, RecoversPoisoned'
    PROVE  KeepInv'
<1>1. CASE Next
  <2>1. LevelInv' /\ QuietInv'
    BY <1>1, LevelsOfStep, QuietNext DEF KeepInv
  <2>2. HoldInv'
    BY <1>1, StepHolds DEF KeepInv
  <2>3. NestInv' /\ EntryInv'
    BY <1>1, StepNests, StepEnters DEF KeepInv
  <2> QED
    BY <2>1, <2>2, <2>3 DEF KeepInv
<1>2. CASE UNCHANGED vars
  <2>1. /\ scope' = scope /\ stack' = stack /\ queue' = queue
        /\ marks' = marks /\ link' = link /\ client' = client
        /\ issuer' = issuer /\ ran' = ran /\ durable' = durable
        /\ excused' = excused
    BY <1>2 DEF vars, serverVars, historyVars
  <2>2. LevelInv'
    BY <1>2, LevelsNext DEF KeepInv
  <2>3. QuietInv'
    BY <2>1 DEF KeepInv, QuietInv, Rests, Pending, Alive
  <2>4. NestInv' /\ EntryInv'
    BY <2>1 DEF KeepInv, NestInv, EntryInv, Nests, Level, Begins, Alive
  <2>5. Preserved
    <3>1. CoreInv'
      BY <1>2, CoreNext
    <3>2. ScopesTyped' /\ ServerTyped' /\ HistoryTyped'
      <4>1. /\ ScopesTyped /\ ServerTyped /\ HistoryTyped
            /\ aborted' = aborted /\ faults' = faults
        BY <1>2, TypesOf DEF CoreInv, vars, serverVars
      <4> QED
        BY <2>1, <4>1 DEF ScopesTyped, ServerTyped, HistoryTyped
    <3>3. Fates
      BY <2>1 DEF Fates, Alive
    <3>4. AskedKept
      BY <2>1, AskedServed DEF Rest, CoreInv
    <3> QED
      BY <3>1, <3>2, <3>3, <3>4 DEF Preserved, CoreInv
  <2>6. HoldInv'
    <3>1. Touched(scope', 1) /\ Untold(scope')
      BY <2>1, TouchedNone DEF CoreInv, Untold
    <3>2. IssuerGrows /\ DOMAIN issuer' \ DOMAIN issuer = {}
      BY <2>1 DEF IssuerGrows
    <3> QED
      BY <2>1, <2>5, <3>1, <3>2, HoldStill DEF KeepInv
  <2> QED
    BY <2>2, <2>3, <2>4, <2>6 DEF KeepInv
<1> QED
  BY <1>1, <1>2

LEMMA KeepFirst ==
    ASSUME Init
    PROVE  KeepInv
<1>1. PICK s : s = scope
  OBVIOUS
<1>2. /\ \E e \in {"body", "opening"}, root \in {"pinned", "transaction"},
            u \in BOOLEAN :
            /\ s = <<Scope(0, root, u, TRUE, e)>>
            /\ e = "body" <=> root = "pinned"
      /\ queue = <<>> \/ queue = <<Job("begin", 1, 0)>>
      /\ client = "held" /\ marks = <<>> /\ issuer = <<>> /\ ran = {}
      /\ durable = {}
  BY <1>1 DEF Init
<1>3. /\ DOMAIN s = {1} /\ s[1].up = 0 /\ s[1].told = "nothing"
      /\ s[1].pc \in {"body", "opening"}
  BY <1>2 DEF Scope
<1>4. /\ \A j \in DOMAIN queue : queue[j].what = "begin"
      /\ DOMAIN marks = {} /\ DOMAIN issuer = {}
  BY <1>2 DEF Job
<1>5. NestInv /\ EntryInv /\ WorkInv /\ RanInv /\ FateInv
  BY <1>2, <1>4 DEF NestInv, EntryInv, WorkInv, RanInv, FateInv
<1>6. FamilyInv /\ ToldInv /\ SpentInv
  BY <1>1, <1>3 DEF FamilyInv, ToldInv, SpentInv, Alive
<1>7. PromiseInv
  BY <1>2 DEF PromiseInv, Outcome
<1>8. LevelInv /\ QuietInv
  BY CleanFirst DEF CleanInv
<1> QED
  BY <1>5, <1>6, <1>7, <1>8 DEF KeepInv, HoldInv

(* "The callback's work commits together or not at all": of transaction(), *)
(* and of what is nested in it, the statements the server has committed    *)
(* are those executed within scopes that have resolved, all of them, once  *)
(* its caller is told it resolved, and none otherwise; whatever the        *)
(* callbacks leave un-awaited, whichever statement fails, and whenever the *)
(* connection is lost or the caller gives up. Raw SQL that ends a          *)
(* transaction and a COMMIT lost with its connection are excused. In every *)
(* behaviour whose streams only roll back poisoned scopes: a stream that   *)
(* rolls back another breaks it (the run of ClientScopes_stream_left).     *)
THEOREM TransactionsAreAllOrNothing ==
    Spec /\ []RecoversPoisoned => []AllOrNothing
<1>1. Init => KeepInv
  BY KeepFirst
<1>2. CoreInv /\ KeepInv /\ [Next]_vars /\ RecoversPoisoned' => KeepInv'
  BY KeepNext
<1>3. CoreInv /\ KeepInv => AllOrNothing
  BY PromiseKept DEF KeepInv, HoldInv
<1> QED
  BY <1>1, <1>2, <1>3, CoreHolds, PTL DEF Spec

=============================================================================
