----------------------------- MODULE PoolProofs -----------------------------
(***************************************************************************)
(* For every number of workers, queues and jobs: the counter protocol of   *)
(* JobQueue keeps every queue with one worker at most and loses no claim,  *)
(* and the pool is, step by step, the SerialExecutor it promises to be.    *)
(* The pool with timers is still that pool, and a timer is neither early,  *)
(* nor lost, nor handed on twice, however many workers distribute.         *)
(***************************************************************************)
EXTENDS JobTimer, FiniteSetTheorems, SequenceTheorems, TLAPS

(***************************************************************************)
(* The inductive invariant of the pool                                     *)
(***************************************************************************)

\* What the program counter of a worker says of its thread-local state.
Control ==
    \A w \in Worker :
        /\ pc[w] = "append" <=> pushing[w] # None
        /\ pc[w] = "park" <=> handing[w] # None
        /\ pc[w] \in {"pop", "run", "retire"} => current[w] # None
        /\ pc[w] = "free" => current[w] = None
        /\ pc[w] = "run" => batch[w] # <<>>
        /\ pc[w] = "pop" => popped[w] = 0
        /\ current[w] = None => popped[w] = 0
        /\ pc[w] \in {"append", "park"} /\ current[w] # None => batch[w] # <<>>

NobodyDrains(q) == \A w \in Worker : ~Drains(w, q)
NobodyClaims(q) == \A w \in Worker : ~Claims(w, q)
NotParked(q) == \A i \in DOMAIN parked : parked[i] # q

\* AnsweredForOnce, place by place.
Ownership(q) ==
    /\ \A w, v \in Worker : Drains(w, q) /\ Drains(v, q) => w = v
    /\ \A w, v \in Worker : Claims(w, q) /\ Claims(v, q) => w = v
    /\ \A i, k \in DOMAIN parked : parked[i] = q /\ parked[k] = q => i = k
    /\ NobodyDrains(q) \/ NobodyClaims(q)
    /\ NobodyDrains(q) \/ NotParked(q)
    /\ NobodyClaims(q) \/ NotParked(q)
    /\ (NobodyDrains(q) /\ NobodyClaims(q) /\ NotParked(q)) <=> jobCount[q] = 0

IInv ==
    /\ TypeOK
    /\ Control
    /\ CountIsExact
    /\ \A q \in Queue : Ownership(q)

(***************************************************************************)
(* Counting the Push calls under way                                       *)
(***************************************************************************)

\* The Push calls under way are as many as there are workers at most.
LEMMA AppendingFinite ==
    \A q \in Queue : IsFiniteSet(Appending(q)) /\ Cardinality(Appending(q)) \in Nat
BY JobQueueAssumption, FS_Subset, FS_CardinalityType DEF Appending

\* A Push call that starts adds one to the calls under way for its queue.
LEMMA AppendingGrows ==
    ASSUME TypeOK, NEW w \in Worker, NEW j \in Job, pushing[w] = None,
           pushing' = [pushing EXCEPT ![w] = j]
    PROVE  \A q \in Queue :
              Cardinality(Appending(q)') =
                 Cardinality(Appending(q)) + (IF q = TargetOf[j] THEN 1 ELSE 0)
<1> TAKE q \in Queue
<1>1. w \notin Appending(q)
  BY DEF Appending
<1>2. CASE q = TargetOf[j]
  <2>1. Appending(q)' = Appending(q) \cup {w}
    BY <1>2, JobQueueAssumption DEF Appending, TypeOK
  <2> QED
    BY <1>1, <1>2, <2>1, AppendingFinite, FS_AddElement
<1>3. CASE q # TargetOf[j]
  <2>1. Appending(q)' = Appending(q)
    BY <1>3, JobQueueAssumption DEF Appending, TypeOK
  <2> QED
    BY <1>3, <2>1, AppendingFinite
<1> QED
  BY <1>2, <1>3

\* A Push call that has appended its job takes one away.
LEMMA AppendingShrinks ==
    ASSUME TypeOK, NEW w \in Worker, pushing[w] # None,
           pushing' = [pushing EXCEPT ![w] = None]
    PROVE  \A q \in Queue :
              Cardinality(Appending(q)) =
                 Cardinality(Appending(q)') + (IF q = TargetOf[pushing[w]] THEN 1 ELSE 0)
<1> TAKE q \in Queue
<1>1. CASE q = TargetOf[pushing[w]]
  <2>1. w \in Appending(q) /\ Appending(q)' = Appending(q) \ {w}
    BY <1>1, JobQueueAssumption DEF Appending, TypeOK
  <2>2. Cardinality(Appending(q)') = Cardinality(Appending(q)) - 1
    BY <2>1, AppendingFinite, FS_RemoveElement
  <2> QED
    BY <1>1, <2>2, AppendingFinite
<1>2. CASE q # TargetOf[pushing[w]]
  <2>1. Appending(q)' = Appending(q)
    BY <1>2, JobQueueAssumption DEF Appending, TypeOK
  <2> QED
    BY <1>2, <2>1, AppendingFinite
<1> QED
  BY <1>1, <1>2

(***************************************************************************)
(* Initially                                                               *)
(***************************************************************************)

\* Nothing is counted, claimed or parked when the pool starts.
LEMMA InitIInv == Init => IInv
<1> SUFFICES ASSUME Init PROVE IInv
  OBVIOUS
<1>1. TypeOK
  BY JobQueueAssumption DEF Init, TypeOK, Phase, PC
<1>2. Control
  BY DEF Init, Control
<1>3. \A q \in Queue : Appending(q) = {}
  BY DEF Init, Appending
<1>4. CountIsExact
  <2>1. \A q \in Queue : Cardinality(Appending(q)) = 0
    BY <1>3, FS_EmptySet
  <2>2. \A q \in Queue : Len(jobs[q]) = 0
    BY DEF Init
  <2>3. \A q \in Queue : jobCount[q] = 0
    BY DEF Init
  <2>4. \A q \in Queue, w \in Worker : ~Drains(w, q)
    BY JobQueueAssumption DEF Init, Drains
  <2> QED
    BY <2>1, <2>2, <2>3, <2>4 DEF CountIsExact, CountExact
<1>5. \A q \in Queue : Ownership(q)
  BY JobQueueAssumption
  DEF Init, Ownership, NobodyDrains, NobodyClaims, NotParked, Drains, Claims
<1> QED
  BY <1>1, <1>2, <1>4, <1>5 DEF IInv

(***************************************************************************)
(* One lemma per action.  Ownership is argued from what the action does to *)
(* the three kinds of places, with Drains and Claims left folded.          *)
(***************************************************************************)

\* The fetch_add makes at most one claim: that of the push that found zero.
LEMMA BeginPushIInv ==
    ASSUME IInv, NEW w \in Worker, NEW j \in Job, BeginPush(w, j)
    PROVE  IInv'
<1> USE JobQueueAssumption DEF IInv
<1>1. /\ pushing[w] = None /\ handing[w] = None
      /\ TargetOf[j] \in Queue /\ j # None
  BY DEF BeginPush, Control, TypeOK
<1>2. TypeOK'
  BY <1>1 DEF BeginPush, TypeOK, PC, drainVars
<1>3. Control'
  BY <1>1 DEF BeginPush, Control, TypeOK, PC, drainVars
<1>4. \A v \in Worker, q \in Queue : Drains(v, q)' <=> Drains(v, q)
  BY DEF BeginPush, Drains, drainVars
<1>5. \A q \in Queue :
         jobCount'[q] = jobCount[q] + (IF q = TargetOf[j] THEN 1 ELSE 0)
  BY <1>1 DEF BeginPush, TypeOK
<1>6. CountIsExact'
  <2>1. \A q \in Queue : Cardinality(Appending(q)') =
            Cardinality(Appending(q)) + (IF q = TargetOf[j] THEN 1 ELSE 0)
    BY <1>1, AppendingGrows DEF BeginPush
  <2>2. jobs' = jobs /\ popped' = popped
    BY DEF BeginPush, drainVars
  <2>3. \A q \in Queue : Len(jobs[q]) \in Nat /\ Cardinality(Appending(q)) \in Nat
    BY AppendingFinite DEF TypeOK
  <2>4. \A v \in Worker : popped[v] \in Nat
    BY DEF TypeOK
  <2> SUFFICES ASSUME NEW q \in Queue PROVE CountExact(q)'
    BY DEF CountIsExact
  <2>5. CountExact(q)
    BY DEF CountIsExact
  <2>6. jobCount[q] \in Nat
    BY DEF TypeOK
  <2>7. CASE q = TargetOf[j]
    <3>1. /\ jobCount'[q] = jobCount[q] + 1
          /\ Cardinality(Appending(q)') = Cardinality(Appending(q)) + 1
      BY <1>5, <2>1, <2>7
    <3>2. Len(jobs[q]) \in Nat /\ Cardinality(Appending(q)) \in Nat
      BY <2>3
    <3>3. ASSUME NEW v \in Worker, Drains(v, q)'
          PROVE  jobCount'[q] = Len(jobs'[q]) + Cardinality(Appending(q)') + popped'[v]
      <4>1. jobCount[q] = Len(jobs[q]) + Cardinality(Appending(q)) + popped[v]
        BY <1>4, <2>5, <3>3 DEF CountExact
      <4> QED
        BY <2>2, <2>4, <3>1, <3>2, <4>1, SMTT(20)
    <3>4. ASSUME \A v \in Worker : ~Drains(v, q)'
          PROVE  jobCount'[q] = Len(jobs'[q]) + Cardinality(Appending(q)')
      <4>1. jobCount[q] = Len(jobs[q]) + Cardinality(Appending(q))
        BY <1>4, <2>5, <3>4 DEF CountExact
      <4> QED
        BY <2>2, <3>1, <3>2, <4>1
    <3> QED
      BY <3>3, <3>4 DEF CountExact
  <2>8. CASE q # TargetOf[j]
    <3>1. /\ jobCount'[q] = jobCount[q]
          /\ Cardinality(Appending(q)') = Cardinality(Appending(q))
      BY <1>5, <2>1, <2>3, <2>6, <2>8
    <3> QED
      BY <1>4, <2>2, <2>5, <3>1 DEF CountExact
  <2> QED
    BY <2>7, <2>8
<1>7. \A q \in Queue : Ownership(q)'
  <2>1. \A v \in Worker, q \in Queue :
           Claims(v, q)' <=> Claims(v, q)
                             \/ (v = w /\ q = TargetOf[j] /\ jobCount[q] = 0)
    BY <1>1 DEF BeginPush, Claims, TypeOK
  <2>2. parked' = parked
    BY DEF BeginPush
  <2>3. \A q \in Queue : jobCount[q] \in Nat
    BY DEF TypeOK
  <2> QED
    BY <1>1, <1>4, <1>5, <2>1, <2>2, <2>3
    DEF Ownership, NobodyDrains, NobodyClaims, NotParked
<1> QED
  BY <1>2, <1>3, <1>6, <1>7

\* The claim of a push becomes a drain or a queue to hand over.
LEMMA AppendJobIInv ==
    ASSUME IInv, NEW w \in Worker, AppendJob(w)
    PROVE  IInv'
<1> USE JobQueueAssumption DEF IInv
<1> DEFINE p == TargetOf[pushing[w]]
<1>1. pushing[w] \in Job /\ pushing[w] # None /\ handing[w] = None /\ p \in Queue
  BY DEF AppendJob, Control, TypeOK
<1>2. TypeOK'
  <2>1. jobs' \in [Queue -> Seq(Job)]
    BY <1>1 DEF AppendJob, TypeOK
  <2>2. pc' \in [Worker -> PC]
    BY DEF AppendJob, TypeOK, PC, Caller
  <2>3. current' \in [Worker -> Queue \cup {None}] /\ handing' \in [Worker -> Queue \cup {None}]
    BY <1>1 DEF AppendJob, TypeOK
  <2> QED
    BY <2>1, <2>2, <2>3 DEF AppendJob, TypeOK
<1>3. Control'
  <2>1. \A v \in Worker \ {w} :
           /\ pc'[v] = pc[v] /\ pushing'[v] = pushing[v] /\ handing'[v] = handing[v]
           /\ current'[v] = current[v]
    BY DEF AppendJob, TypeOK
  <2>2. pushing'[w] = None /\ batch' = batch /\ popped' = popped
    BY DEF AppendJob, TypeOK
  <2>3. \/ /\ pc'[w] = Caller(w) /\ current'[w] = current[w] /\ handing'[w] = None
        \/ /\ pc'[w] = "pop" /\ current'[w] = p /\ current[w] = None /\ handing'[w] = None
        \/ /\ pc'[w] = "park" /\ current'[w] = current[w] /\ handing'[w] = p
           /\ current[w] # None
    BY <1>1 DEF AppendJob, TypeOK
  <2>4. pc[w] = "append"
    BY DEF AppendJob
  <2> QED
    BY <1>1, <2>1, <2>2, <2>3, <2>4 DEF Control, Caller
<1>4. \A v \in Worker, q \in Queue :
         Drains(v, q)' <=> Drains(v, q)
                           \/ (v = w /\ q = p /\ previous[w] = 0 /\ current[w] = None)
  BY <1>1 DEF AppendJob, Drains, TypeOK
<1>5. \A v \in Worker, q \in Queue :
         Claims(v, q)' <=> /\ Claims(v, q)
                           /\ v # w \/ (q = p /\ current[w] # None)
  BY <1>1 DEF AppendJob, Claims, TypeOK
<1>6. Claims(w, p) <=> previous[w] = 0
  BY <1>1 DEF Claims
<1>7. CountIsExact'
  <2>1. \A q \in Queue : Cardinality(Appending(q)) =
            Cardinality(Appending(q)') + (IF q = p THEN 1 ELSE 0)
    BY <1>1, AppendingShrinks DEF AppendJob
  <2>2. \A q \in Queue : Len(jobs'[q]) = Len(jobs[q]) + (IF q = p THEN 1 ELSE 0)
    BY <1>1 DEF AppendJob, TypeOK
  <2>3. jobCount' = jobCount /\ popped' = popped
    BY DEF AppendJob
  <2>4. \A q \in Queue :
           /\ Len(jobs[q]) \in Nat /\ jobCount[q] \in Nat
           /\ Cardinality(Appending(q)) \in Nat
    BY AppendingFinite DEF TypeOK
  <2>5. \A q \in Queue : Cardinality(Appending(q)') \in Nat
    BY <1>2, <2>1, <2>4, AppendingFinite, JobQueueAssumption, FS_Subset, FS_CardinalityType
    DEF Appending
  <2>6. current[w] = None => popped[w] = 0
    BY DEF Control
  <2>7. \A v \in Worker : popped[v] \in Nat
    BY DEF TypeOK
  <2>8. previous[w] = 0 => NobodyDrains(p)
    BY <1>1, <1>6 DEF Ownership, NobodyClaims
  <2> SUFFICES ASSUME NEW q \in Queue PROVE CountExact(q)'
    BY DEF CountIsExact
  <2>9. CountExact(q)
    BY DEF CountIsExact
  <2>10. Len(jobs'[q]) + Cardinality(Appending(q)') = Len(jobs[q]) + Cardinality(Appending(q))
    <3>1. /\ Len(jobs[q]) \in Nat
          /\ Cardinality(Appending(q)) \in Nat /\ Cardinality(Appending(q)') \in Nat
      BY <2>4, <2>5
    <3>2. CASE q = p
      <4>1. /\ Len(jobs'[q]) = Len(jobs[q]) + 1
            /\ Cardinality(Appending(q)) = Cardinality(Appending(q)') + 1
        BY <2>1, <2>2, <3>2
      <4> QED
        BY <3>1, <4>1
    <3>3. CASE q # p
      <4>1. /\ Len(jobs'[q]) = Len(jobs[q]) + 0
            /\ Cardinality(Appending(q)) = Cardinality(Appending(q)') + 0
        BY <2>1, <2>2, <3>3
      <4> QED
        BY <3>1, <4>1
    <3> QED
      BY <3>2, <3>3
  <2>11. CASE q = p /\ previous[w] = 0 /\ current[w] = None
    <3>1. \A v \in Worker : Drains(v, q)' <=> v = w
      BY <1>4, <2>8, <2>11 DEF NobodyDrains
    <3>2. jobCount[q] = Len(jobs[q]) + Cardinality(Appending(q))
      BY <2>8, <2>9, <2>11 DEF CountExact, NobodyDrains
    <3>3. popped'[w] = 0 /\ jobCount' = jobCount
      BY <2>3, <2>6, <2>11
    <3> QED
      BY <2>4, <2>10, <3>1, <3>2, <3>3 DEF CountExact
  <2>12. CASE ~(q = p /\ previous[w] = 0 /\ current[w] = None)
    <3>1. \A v \in Worker : Drains(v, q)' <=> Drains(v, q)
      BY <1>4, <2>12
    <3> QED
      BY <2>3, <2>9, <2>10, <3>1 DEF CountExact
  <2> QED
    BY <2>11, <2>12
<1>8. \A q \in Queue : Ownership(q)'
  <2>1. parked' = parked /\ jobCount' = jobCount
    BY DEF AppendJob
  <2> SUFFICES ASSUME NEW q \in Queue PROVE Ownership(q)'
    OBVIOUS
  <2>2. Ownership(q) /\ (NotParked(q)' <=> NotParked(q)) /\ jobCount'[q] = jobCount[q]
    BY <2>1 DEF NotParked
  <2>3. CASE q = p /\ previous[w] = 0 /\ current[w] = None
    <3>1. \A v \in Worker : (Drains(v, q)' <=> v = w) /\ ~Claims(v, q)'
      BY <1>1, <1>4, <1>5, <1>6, <2>2, <2>3 DEF Ownership, NobodyDrains, NobodyClaims
    <3>2. NotParked(q) /\ jobCount[q] # 0
      BY <1>1, <1>6, <2>2, <2>3 DEF Ownership, NobodyClaims
    <3> QED
      BY <2>1, <2>2, <3>1, <3>2 DEF Ownership, NobodyDrains, NobodyClaims
  <2>4. CASE ~(q = p /\ previous[w] = 0 /\ current[w] = None)
    <3>1. \A v \in Worker : Drains(v, q)' <=> Drains(v, q)
      BY <1>4, <2>4
    <3>2. \A v \in Worker : Claims(v, q)' <=> Claims(v, q)
      <4>1. Claims(w, q) => q = p /\ previous[w] = 0
        BY <1>1 DEF Claims, TypeOK
      <4> QED
        BY <1>5, <2>4, <4>1
    <3> QED
      BY <2>1, <2>2, <3>1, <3>2 DEF Ownership, NobodyDrains, NobodyClaims
  <2> QED
    BY <2>3, <2>4
<1> QED
  BY <1>2, <1>3, <1>7, <1>8

\* The claim becomes an entry of the global queue.
LEMMA ParkIInv ==
    ASSUME IInv, NEW w \in Worker, Park(w)
    PROVE  IInv'
<1> USE JobQueueAssumption DEF IInv
<1>1. handing[w] \in Queue /\ pushing[w] = None
  BY DEF Park, Control, TypeOK
<1>2. TypeOK'
  BY <1>1 DEF Park, TypeOK, PC, Caller, drainVars, pushVars
<1>3. Control'
  BY <1>1 DEF Park, Control, TypeOK, PC, Caller, drainVars, pushVars
<1>4. \A v \in Worker, q \in Queue : Drains(v, q)' <=> Drains(v, q)
  BY DEF Park, Drains, drainVars
<1>5. CountIsExact'
  <2>1. \A q \in Queue : Appending(q)' = Appending(q)
    BY DEF Park, Appending, pushVars
  <2>2. jobCount' = jobCount /\ jobs' = jobs /\ popped' = popped
    BY DEF Park, drainVars
  <2> QED
    BY <1>4, <2>1, <2>2 DEF CountIsExact, CountExact
<1>6. \A q \in Queue : Ownership(q)'
  <2>1. \A v \in Worker, q \in Queue : Claims(v, q)' <=> Claims(v, q) /\ v # w
    BY <1>1 DEF Park, Claims, TypeOK, pushVars
  <2>2. Claims(w, handing[w]) /\ \A q \in Queue : Claims(w, q) => q = handing[w]
    BY <1>1 DEF Claims
  <2>3. /\ Len(parked) \in Nat
        /\ DOMAIN parked = 1..Len(parked)
        /\ DOMAIN parked' = 1..(Len(parked) + 1)
        /\ \A i \in DOMAIN parked' :
              parked'[i] = IF i = Len(parked) + 1 THEN handing[w] ELSE parked[i]
    BY <1>1 DEF Park, TypeOK
  <2>4. jobCount' = jobCount
    BY DEF Park
  <2>5. \A q \in Queue : NotParked(q)' <=> NotParked(q) /\ q # handing[w]
    BY <2>3 DEF NotParked
  <2>6. \A q \in Queue : \A i, k \in DOMAIN parked' :
           parked'[i] = q /\ parked'[k] = q => i = k
    BY <1>1, <2>2, <2>3 DEF Ownership, NobodyClaims, NotParked
  <2> QED
    BY <1>1, <1>4, <2>1, <2>2, <2>4, <2>5, <2>6
    DEF Ownership, NobodyDrains, NobodyClaims
<1> QED
  BY <1>2, <1>3, <1>5, <1>6

\* What leaves the list is what the drainer has popped.
LEMMA PopAllIInv ==
    ASSUME IInv, NEW w \in Worker, PopAll(w)
    PROVE  IInv'
<1> USE JobQueueAssumption DEF IInv
<1>1. current[w] \in Queue /\ popped[w] = 0
  BY DEF PopAll, Control, TypeOK
<1>2. TypeOK'
  BY <1>1 DEF PopAll, TypeOK, PC, pushVars
<1>3. Control'
  BY <1>1 DEF PopAll, Control, TypeOK, PC, pushVars
<1>4. \A v \in Worker, q \in Queue : Drains(v, q)' <=> Drains(v, q)
  BY DEF PopAll, Drains
<1>5. CountIsExact'
  <2>1. \A q \in Queue : Appending(q)' = Appending(q)
    BY DEF PopAll, Appending, pushVars
  <2>2. \A q \in Queue : Len(jobs'[q]) = IF q = current[w] THEN 0 ELSE Len(jobs[q])
    BY <1>1 DEF PopAll, TypeOK
  <2>3. \A v \in Worker : popped'[v] = IF v = w THEN Len(jobs[current[w]]) ELSE popped[v]
    BY <1>1 DEF PopAll, TypeOK
  <2>4. \A q \in Queue : Len(jobs[q]) \in Nat /\ Cardinality(Appending(q)) \in Nat
    BY AppendingFinite DEF TypeOK
  <2>5. jobCount' = jobCount
    BY DEF PopAll
  <2>6. \A q \in Queue, v \in Worker : Drains(w, q) /\ Drains(v, q) => v = w
    BY DEF Ownership
  <2>7. \A q \in Queue : Drains(w, q) <=> q = current[w]
    BY DEF Drains
  <2> QED
    BY <1>1, <1>4, <2>1, <2>2, <2>3, <2>4, <2>5, <2>6, <2>7 DEF CountIsExact, CountExact
<1>6. \A q \in Queue : Ownership(q)'
  <2>1. \A v \in Worker, q \in Queue : Claims(v, q)' <=> Claims(v, q)
    BY DEF PopAll, Claims, pushVars
  <2> QED
    BY <1>4, <2>1 DEF PopAll, Ownership, NobodyDrains, NobodyClaims, NotParked
<1> QED
  BY <1>2, <1>3, <1>5, <1>6

\* A job that finishes changes no counter and no claim.
LEMMA FinishJobIInv ==
    ASSUME IInv, NEW w \in Worker, FinishJob(w)
    PROVE  IInv'
<1> USE JobQueueAssumption DEF IInv
<1>1. /\ batch[w] \in Seq(Job) /\ batch[w] # <<>>
      /\ Head(batch[w]) \in Job /\ Tail(batch[w]) \in Seq(Job)
  BY DEF FinishJob, Control, TypeOK
<1>2. TypeOK'
  BY <1>1 DEF FinishJob, TypeOK, PC, queueVars, pushVars
<1>3. Control'
  BY <1>1 DEF FinishJob, Control, TypeOK, PC, queueVars, pushVars
<1>4. \A v \in Worker, q \in Queue :
         (Drains(v, q)' <=> Drains(v, q)) /\ (Claims(v, q)' <=> Claims(v, q))
  BY DEF FinishJob, Drains, Claims, pushVars
<1>5. CountIsExact'
  <2>1. \A q \in Queue : Appending(q)' = Appending(q)
    BY DEF FinishJob, Appending, pushVars
  <2> QED
    BY <1>4, <2>1 DEF FinishJob, CountIsExact, CountExact, queueVars
<1>6. \A q \in Queue : Ownership(q)'
  BY <1>4 DEF FinishJob, queueVars, Ownership, NobodyDrains, NobodyClaims, NotParked
<1> QED
  BY <1>2, <1>3, <1>5, <1>6

\* The fetch_sub never takes the counter below zero, and what remains is the
\* work that arrived since PopAll.
LEMMA RetireCounts ==
    ASSUME IInv, NEW w \in Worker, Retire(w)
    PROVE  /\ current[w] \in Queue
           /\ Drains(w, current[w])
           /\ jobCount' \in [Queue -> Nat]
           /\ \A q \in Queue :
                 jobCount'[q] = jobCount[q] - (IF q = current[w] THEN popped[w] ELSE 0)
           /\ \A q \in Queue : Appending(q)' = Appending(q)
           /\ popped' = [popped EXCEPT ![w] = 0]
           /\ jobs' = jobs /\ parked' = parked /\ pushing' = pushing /\ previous' = previous
           /\ pushing[w] = None /\ handing[w] = None
<1> USE JobQueueAssumption DEF IInv
<1>1. current[w] \in Queue /\ pushing[w] = None /\ handing[w] = None
  BY DEF Retire, Control, TypeOK
<1>2. jobCount[current[w]] = Len(jobs[current[w]]) + Cardinality(Appending(current[w])) + popped[w]
  BY <1>1 DEF CountIsExact, CountExact, Drains
<1>3. jobCount[current[w]] - popped[w] \in Nat
  <2>1. Len(jobs[current[w]]) \in Nat /\ popped[w] \in Nat
        /\ Cardinality(Appending(current[w])) \in Nat
    BY <1>1, AppendingFinite DEF TypeOK
  <2> QED
    BY <1>2, <2>1
<1>4. jobCount' \in [Queue -> Nat]
  BY <1>1, <1>3 DEF Retire, TypeOK
<1>5. \A q \in Queue :
         jobCount'[q] = jobCount[q] - (IF q = current[w] THEN popped[w] ELSE 0)
  BY <1>1 DEF Retire, TypeOK
<1>6. \A q \in Queue : Appending(q)' = Appending(q)
  BY DEF Retire, Appending, pushVars
<1> QED
  BY <1>1, <1>4, <1>5, <1>6 DEF Retire, Drains, pushVars

\* However a round ends, the counter stays exact: what is retired had been
\* popped, and the worker starts again from an empty batch.
LEMMA RetireExact ==
    ASSUME IInv, NEW w \in Worker, Retire(w),
           \A v \in Worker, q \in Queue : Drains(v, q)' => Drains(v, q),
           \A v \in Worker, q \in Queue : v # w => (Drains(v, q)' <=> Drains(v, q))
    PROVE  CountIsExact'
<1> USE JobQueueAssumption DEF IInv
<1>1. \A q \in Queue :
         /\ Len(jobs[q]) \in Nat /\ jobCount[q] \in Nat
         /\ Cardinality(Appending(q)) \in Nat
  BY AppendingFinite DEF TypeOK
<1>2. \A v \in Worker : popped[v] \in Nat /\ popped'[v] = IF v = w THEN 0 ELSE popped[v]
  BY RetireCounts, SMTT(20) DEF TypeOK
<1>3. \A q \in Queue, v \in Worker : Drains(w, q) /\ Drains(v, q) => v = w
  BY DEF Ownership
<1>4. \A q \in Queue : Drains(w, q) <=> q = current[w]
  BY DEF Drains
<1> SUFFICES ASSUME NEW q \in Queue PROVE CountExact(q)'
  BY DEF CountIsExact
<1>5. CountExact(q)
  BY DEF CountIsExact
<1>6. /\ jobCount'[q] = jobCount[q] - (IF q = current[w] THEN popped[w] ELSE 0)
      /\ Appending(q)' = Appending(q)
      /\ jobs' = jobs
  BY RetireCounts
<1>7. CASE q = current[w]
  BY <1>1, <1>2, <1>3, <1>4, <1>5, <1>6, <1>7 DEF CountExact
<1>8. CASE q # current[w]
  BY <1>1, <1>2, <1>4, <1>5, <1>6, <1>8, SMTT(20) DEF CountExact
<1> QED
  BY <1>7, <1>8

\* The queue is let go of exactly when nothing is left to account for.
LEMMA ReleaseIInv ==
    ASSUME IInv, NEW w \in Worker, Release(w)
    PROVE  IInv'
<1> USE JobQueueAssumption DEF IInv
<1>1. Retire(w) /\ jobCount[current[w]] = popped[w]
  BY DEF Release
<1>2. TypeOK'
  <2>1. pc' \in [Worker -> PC] /\ current' \in [Worker -> Queue \cup {None}]
    BY DEF Release, TypeOK, PC
  <2>2. phase' \in [Worker -> Phase]
    BY DEF Release, TypeOK, Phase, AfterDrain
  <2>3. popped' \in [Worker -> Nat]
    BY <1>1, RetireCounts DEF TypeOK
  <2>9. jobCount' \in [Queue -> Nat]
    BY <1>1, RetireCounts
  <2> QED
    BY <2>1, <2>2, <2>3, <2>9 DEF Release, Retire, TypeOK, pushVars
<1>3. Control'
  BY <1>1, RetireCounts DEF Release, Retire, Control, TypeOK, PC, pushVars
<1>4. \A v \in Worker, q \in Queue : Drains(v, q)' <=> Drains(v, q) /\ v # w
  BY DEF Release, Drains, TypeOK
<1>5. CountIsExact'
  BY <1>1, <1>4, RetireExact
<1>6. \A q \in Queue : Ownership(q)'
  <2>1. \A v \in Worker, q \in Queue : Claims(v, q)' <=> Claims(v, q)
    BY <1>1, RetireCounts DEF Release, Claims
  <2>2. \A q \in Queue : Drains(w, q) <=> q = current[w]
    BY DEF Drains
  <2>3. \A q \in Queue : jobCount'[q] = IF q = current[w] THEN 0 ELSE jobCount[q]
    BY <1>1, RetireCounts DEF TypeOK
  <2> QED
    BY <1>1, <1>4, <2>1, <2>2, <2>3, RetireCounts
    DEF Ownership, NobodyDrains, NobodyClaims, NotParked
<1> QED
  BY <1>2, <1>3, <1>5, <1>6

\* Work that is left stays with its drainer.
LEMMA KeepDrainingIInv ==
    ASSUME IInv, NEW w \in Worker, KeepDraining(w)
    PROVE  IInv'
<1> USE JobQueueAssumption DEF IInv
<1>1. Retire(w) /\ jobCount[current[w]] # popped[w]
  BY DEF KeepDraining
<1>2. TypeOK'
  <2>1. pc' \in [Worker -> PC]
    BY DEF KeepDraining, TypeOK, PC
  <2>2. popped' \in [Worker -> Nat]
    BY <1>1, RetireCounts DEF TypeOK
  <2>9. jobCount' \in [Queue -> Nat]
    BY <1>1, RetireCounts
  <2> QED
    BY <2>1, <2>2, <2>9 DEF KeepDraining, Retire, TypeOK, pushVars
<1>3. Control'
  BY <1>1, RetireCounts DEF KeepDraining, Retire, Control, TypeOK, PC, pushVars
<1>4. \A v \in Worker, q \in Queue :
         (Drains(v, q)' <=> Drains(v, q)) /\ (Claims(v, q)' <=> Claims(v, q))
  BY <1>1, RetireCounts DEF KeepDraining, Drains, Claims
<1>5. CountIsExact'
  BY <1>1, <1>4, RetireExact
<1>6. \A q \in Queue : Ownership(q)'
  <2>1. \A q \in Queue : jobCount'[q] = 0 <=> jobCount[q] = 0
    <3>1. \A q \in Queue : jobCount[q] \in Nat
      BY DEF TypeOK
    <3>2. jobCount[current[w]] # 0
      BY <1>1, RetireCounts DEF Ownership, NobodyDrains
    <3>3. popped[w] \in Nat
      BY DEF TypeOK
    <3> QED
      BY <1>1, <3>1, <3>2, <3>3, RetireCounts
  <2> QED
    BY <1>1, <1>4, <2>1, RetireCounts DEF Ownership, NobodyDrains, NobodyClaims, NotParked
<1> QED
  BY <1>2, <1>3, <1>5, <1>6

\* The drain becomes a claim of the same worker.
LEMMA YieldIInv ==
    ASSUME IInv, NEW w \in Worker, Yield(w)
    PROVE  IInv'
<1> USE JobQueueAssumption DEF IInv
<1>1. Retire(w) /\ jobCount[current[w]] # popped[w]
  BY DEF Yield
<1>2. TypeOK'
  <2>1. pc' \in [Worker -> PC] /\ current' \in [Worker -> Queue \cup {None}]
    BY DEF Yield, TypeOK, PC
  <2>2. phase' \in [Worker -> Phase]
    BY DEF Yield, TypeOK, Phase, AfterDrain
  <2>3. popped' \in [Worker -> Nat] /\ handing' \in [Worker -> Queue \cup {None}]
    BY <1>1, RetireCounts DEF Yield, TypeOK
  <2>9. jobCount' \in [Queue -> Nat]
    BY <1>1, RetireCounts
  <2> QED
    BY <2>1, <2>2, <2>3, <2>9 DEF Yield, Retire, TypeOK, pushVars
<1>3. Control'
  BY <1>1, RetireCounts DEF Yield, Retire, Control, TypeOK, PC, pushVars
<1>4. \A v \in Worker, q \in Queue : Drains(v, q)' <=> Drains(v, q) /\ v # w
  BY DEF Yield, Drains, TypeOK
<1>5. CountIsExact'
  BY <1>1, <1>4, RetireExact
<1>6. \A q \in Queue : Ownership(q)'
  <2>1. \A v \in Worker, q \in Queue :
           Claims(v, q)' <=> Claims(v, q) \/ (v = w /\ q = current[w])
    BY <1>1, RetireCounts, SMTT(20) DEF Yield, Claims, TypeOK
  <2>2. \A q \in Queue : Drains(w, q) <=> q = current[w]
    BY DEF Drains
  <2>3. \A q \in Queue : jobCount'[q] = 0 <=> jobCount[q] = 0
    <3>1. \A q \in Queue : jobCount[q] \in Nat
      BY DEF TypeOK
    <3>2. jobCount[current[w]] # 0
      BY <1>1, RetireCounts DEF Ownership, NobodyDrains
    <3>3. popped[w] \in Nat
      BY DEF TypeOK
    <3> QED
      BY <1>1, <3>1, <3>2, <3>3, RetireCounts
  <2> QED
    BY <1>1, <1>4, <2>1, <2>2, <2>3, RetireCounts
    DEF Ownership, NobodyDrains, NobodyClaims, NotParked
<1> QED
  BY <1>2, <1>3, <1>5, <1>6

\* The entry of the global queue becomes a drain.
LEMMA TakeParkedIInv ==
    ASSUME IInv, NEW w \in Worker, TakeParked(w)
    PROVE  IInv'
<1> USE JobQueueAssumption DEF IInv
<1> DEFINE p == Head(parked)
<1>1. /\ Len(parked) \in Nat \ {0}
      /\ p = parked[1]
      /\ p \in Queue
      /\ parked' \in Seq(Queue)
      /\ DOMAIN parked = 1..Len(parked)
      /\ DOMAIN parked' = 1..(Len(parked) - 1)
      /\ \A i \in DOMAIN parked' : parked'[i] = parked[i + 1]
  BY DEF TakeParked, TypeOK
<1>2. current[w] = None /\ popped[w] = 0
  BY DEF TakeParked, Control
<1>3. TypeOK'
  BY <1>1, <1>2 DEF TakeParked, TypeOK, PC, Phase, pushVars
<1>4. Control'
  BY <1>1, <1>2 DEF TakeParked, Control, TypeOK, PC, pushVars
<1>5. \A v \in Worker, q \in Queue : Drains(v, q)' <=> Drains(v, q) \/ (v = w /\ q = p)
  BY <1>1, <1>2 DEF TakeParked, Drains, TypeOK
<1>6. ~NotParked(p)
  BY <1>1 DEF NotParked
<1>7. NobodyDrains(p)
  BY <1>1, <1>6 DEF Ownership
<1>8. CountIsExact'
  <2>1. \A q \in Queue : Appending(q)' = Appending(q)
    BY DEF TakeParked, Appending, pushVars
  <2>2. jobCount' = jobCount /\ jobs' = jobs /\ popped' = popped
    BY DEF TakeParked
  <2>3. \A q \in Queue : Len(jobs[q]) \in Nat /\ Cardinality(Appending(q)) \in Nat
    BY AppendingFinite DEF TypeOK
  <2> QED
    BY <1>1, <1>2, <1>5, <1>7, <2>1, <2>2, <2>3 DEF CountIsExact, CountExact, NobodyDrains
<1>9. \A q \in Queue : Ownership(q)'
  <2>1. \A v \in Worker, q \in Queue : Claims(v, q)' <=> Claims(v, q)
    BY DEF TakeParked, Claims, pushVars
  <2>2. \A q \in Queue : NotParked(q)' <=> NotParked(q) \/ q = p
    <3>1. \A i \in DOMAIN parked : parked[i] = p => i = 1
      BY <1>1 DEF Ownership
    <3>2. \A i \in DOMAIN parked : i # 1 => i - 1 \in DOMAIN parked' /\ parked'[i - 1] = parked[i]
      BY <1>1
    <3>3. \A i \in DOMAIN parked' : i + 1 \in DOMAIN parked /\ i + 1 # 1
      BY <1>1
    <3> QED
      BY <1>1, <3>1, <3>2, <3>3 DEF NotParked
  <2>3. \A q \in Queue : \A i, k \in DOMAIN parked' :
           parked'[i] = q /\ parked'[k] = q => i = k
    BY <1>1 DEF Ownership
  <2>4. jobCount' = jobCount
    BY DEF TakeParked
  <2> QED
    BY <1>1, <1>5, <1>6, <1>7, <2>1, <2>2, <2>3, <2>4
    DEF Ownership, NobodyDrains, NobodyClaims
<1> QED
  BY <1>3, <1>4, <1>8, <1>9

\* The steps that only move a worker along PumpOnce, and stuttering.
LEMMA IdleIInv ==
    ASSUME IInv, \/ UNCHANGED vars
                 \/ \E w \in Worker : EnterPump(w) \/ LeavePump(w)
    PROVE  IInv'
<1> USE JobQueueAssumption DEF IInv, vars, queueVars, drainVars, pushVars, EnterPump, LeavePump
<1>1. TypeOK'
  BY DEF TypeOK, Phase
<1>2. Control'
  BY DEF Control
<1>3. /\ jobCount' = jobCount /\ jobs' = jobs /\ parked' = parked /\ popped' = popped
      /\ \A q \in Queue : Appending(q)' = Appending(q)
      /\ \A v \in Worker, q \in Queue :
            (Drains(v, q)' <=> Drains(v, q)) /\ (Claims(v, q)' <=> Claims(v, q))
  BY DEF Appending, Drains, Claims
<1>4. CountIsExact'
  BY <1>3 DEF CountIsExact, CountExact
<1>5. \A q \in Queue : Ownership(q)'
  BY <1>3 DEF Ownership, NobodyDrains, NobodyClaims, NotParked
<1> QED
  BY <1>1, <1>2, <1>4, <1>5

(***************************************************************************)
(* The theorems                                                            *)
(***************************************************************************)

\* Every step of the pool keeps the invariant.
LEMMA Inductive == IInv /\ [Next]_vars => IInv'
<1> SUFFICES ASSUME IInv, [Next]_vars PROVE IInv'
  OBVIOUS
<1>1. CASE UNCHANGED vars
  BY <1>1, IdleIInv
<1>2. ASSUME NEW w \in Worker, Step(w) PROVE IInv'
  BY <1>2, AppendJobIInv, ParkIInv, PopAllIInv, FinishJobIInv, ReleaseIInv,
     KeepDrainingIInv, YieldIInv, TakeParkedIInv, IdleIInv DEF Step
<1>3. ASSUME NEW w \in Worker, NEW j \in Job, BeginPush(w, j) PROVE IInv'
  BY <1>3, BeginPushIInv
<1> QED
  BY <1>1, <1>2, <1>3 DEF Next

\* Every reachable state of the pool satisfies the inductive invariant.
THEOREM Invariant == Spec => []IInv
BY InitIInv, Inductive, PTL DEF Spec

\* _jobCount stays a natural number and every pointer a worker holds points to
\* a queue or a job of the pool.
THEOREM TypeCorrect == Spec => []TypeOK
<1>1. IInv => TypeOK
  BY DEF IInv
<1> QED
  BY <1>1, Invariant, PTL

\* At most one worker runs the jobs of a queue, whatever the number of workers
\* and queues: what every room, channel and instance is written against.
THEOREM MutualExclusion == Spec => []OneWorkerPerQueue
<1>1. IInv => OneWorkerPerQueue
  BY DEF IInv, TypeOK, Ownership, Drains, OneWorkerPerQueue
<1> QED
  BY <1>1, Invariant, PTL

\* The counter is exact: it reads zero only when nothing is queued, on its way,
\* or popped and not retired.
THEOREM ExactCount == Spec => []CountIsExact
<1>1. IInv => CountIsExact
  BY DEF IInv
<1> QED
  BY <1>1, Invariant, PTL

\* No claim is lost or doubled on its way between pushers, drainers and the
\* global queue.
THEOREM ClaimsConserved == Spec => []AnsweredForOnce
<1>1. ASSUME NEW q \in Queue, Ownership(q)
      PROVE  IF jobCount[q] = 0 THEN Answering(q) = {}
             ELSE \E a \in Answering(q) : Answering(q) = {a}
  <2>1. CASE jobCount[q] = 0
    BY <1>1, <2>1 DEF Ownership, NobodyDrains, NobodyClaims, NotParked, Answering
  <2>2. CASE jobCount[q] # 0 /\ ~NobodyDrains(q)
    <3>1. PICK w \in Worker : Drains(w, q)
      BY <2>2 DEF NobodyDrains
    <3>2. Answering(q) = {<<"drains", w>>}
      BY <1>1, <2>2, <3>1 DEF Ownership, NobodyDrains, NobodyClaims, NotParked, Answering
    <3> QED
      BY <2>2, <3>2
  <2>3. CASE jobCount[q] # 0 /\ ~NobodyClaims(q)
    <3>1. PICK w \in Worker : Claims(w, q)
      BY <2>3 DEF NobodyClaims
    <3>2. Answering(q) = {<<"claims", w>>}
      BY <1>1, <2>3, <3>1 DEF Ownership, NobodyDrains, NobodyClaims, NotParked, Answering
    <3> QED
      BY <2>3, <3>2
  <2>4. CASE jobCount[q] # 0 /\ ~NotParked(q)
    <3>1. PICK i \in DOMAIN parked : parked[i] = q
      BY <2>4 DEF NotParked
    <3>2. Answering(q) = {<<"parked", i>>}
      BY <1>1, <2>4, <3>1 DEF Ownership, NobodyDrains, NobodyClaims, NotParked, Answering
    <3> QED
      BY <2>4, <3>2
  <2> QED
    BY <1>1, <2>1, <2>2, <2>3, <2>4 DEF Ownership
<1>2. IInv => AnsweredForOnce
  BY <1>1 DEF IInv, AnsweredForOnce
<1> QED
  BY <1>2, Invariant, PTL

(***************************************************************************)
(* Where the jobs are                                                      *)
(*                                                                         *)
(* What the refinement of SerialExecutor needs beyond IInv.                *)
(***************************************************************************)

ListedIn(q, j) == \E i \in DOMAIN jobs[q] : jobs[q][i] = j
TakenBy(w, j) == \E i \in DOMAIN batch[w] : batch[w][i] = j

\* A worker holds popped jobs only while it drains, and has run them all when
\* it goes to the list for more.
BatchIsDrained ==
    \A w \in Worker : pc[w] \in {"pop", "retire"} \/ current[w] = None => batch[w] = <<>>

\* A job whose Push call has not appended it yet is nowhere else.
PushedOnce ==
    /\ finished \subseteq issued
    /\ \A q \in Queue, j \in Job : ListedIn(q, j) => j \in issued
    /\ \A w \in Worker, j \in Job : TakenBy(w, j) => j \in issued
    /\ \A w \in Worker : pushing[w] # None =>
          /\ pushing[w] \in issued \ finished
          /\ \A q \in Queue : ~ListedIn(q, pushing[w])
          /\ \A v \in Worker : ~TakenBy(v, pushing[w])
          /\ \A v \in Worker : pushing[v] = pushing[w] => v = w

SInv == IInv /\ BatchIsDrained /\ PushedOnce

(***************************************************************************)
(* Each job is in one place                                                *)
(***************************************************************************)

\* Initially there are no jobs anywhere.
LEMMA InitSerial == Init => BatchIsDrained /\ PushedOnce
BY JobQueueAssumption DEF Init, BatchIsDrained, PushedOnce, ListedIn, TakenBy

\* A job that has been issued is not pushed again, so the new Push call holds a
\* job that is nowhere else.
LEMMA BeginPushSerial ==
    ASSUME SInv, NEW w \in Worker, NEW j \in Job, BeginPush(w, j)
    PROVE  (BatchIsDrained /\ PushedOnce)'
<1> USE JobQueueAssumption DEF SInv, IInv
<1>1. /\ finished' = finished /\ issued' = issued \cup {j} /\ j \notin issued
      /\ jobs' = jobs /\ batch' = batch /\ current' = current
      /\ \A v \in Worker : pushing'[v] = IF v = w THEN j ELSE pushing[v]
      /\ \A v \in Worker : pc'[v] = IF v = w THEN "append" ELSE pc[v]
  BY DEF BeginPush, drainVars, TypeOK
<1>2. /\ \A q \in Queue, k \in Job : ListedIn(q, k)' <=> ListedIn(q, k)
      /\ \A v \in Worker, k \in Job : TakenBy(v, k)' <=> TakenBy(v, k)
  BY <1>1 DEF ListedIn, TakenBy
<1>3. \A v \in Worker : pushing[v] \in Job \cup {None}
  BY DEF TypeOK
<1>4. BatchIsDrained'
  BY <1>1 DEF BatchIsDrained
<1>5. PushedOnce'
  <2>1. /\ \A q \in Queue : ~ListedIn(q, j)
        /\ \A v \in Worker : ~TakenBy(v, j) /\ pushing[v] # j
        /\ j \notin finished
    BY <1>1 DEF PushedOnce
  <2> QED
    BY <1>1, <1>2, <1>3, <2>1 DEF PushedOnce
<1> QED
  BY <1>4, <1>5

\* The appended job leaves the Push call as it enters the list.
LEMMA AppendJobSerial ==
    ASSUME SInv, NEW w \in Worker, AppendJob(w)
    PROVE  (BatchIsDrained /\ PushedOnce)'
<1> USE JobQueueAssumption DEF SInv, IInv
<1> DEFINE j == pushing[w]
<1>1. j \in Job /\ TargetOf[j] \in Queue
  BY DEF AppendJob, Control, TypeOK
<1>2. /\ finished' = finished /\ issued' = issued /\ batch' = batch
      /\ \A v \in Worker : pushing'[v] = IF v = w THEN None ELSE pushing[v]
      /\ \A v \in Worker : v # w => pc'[v] = pc[v] /\ current'[v] = current[v]
      /\ \/ current'[w] = current[w] /\ pc'[w] \in {Caller(w), "park"}
         \/ current[w] = None
  BY DEF AppendJob, TypeOK
<1>3. \A v \in Worker, k \in Job : TakenBy(v, k)' <=> TakenBy(v, k)
  BY <1>2 DEF TakenBy
<1>4. \A q \in Queue, k \in Job :
         ListedIn(q, k)' <=> ListedIn(q, k) \/ (q = TargetOf[j] /\ k = j)
  <2> SUFFICES ASSUME NEW q \in Queue, NEW k \in Job
               PROVE  ListedIn(q, k)' <=> ListedIn(q, k) \/ (q = TargetOf[j] /\ k = j)
    OBVIOUS
  <2>1. CASE q = TargetOf[j]
    <3>1. jobs'[q] = Append(jobs[q], j) /\ jobs[q] \in Seq(Job)
      BY <1>1, <2>1 DEF AppendJob, TypeOK
    <3>2. /\ DOMAIN jobs'[q] = 1..(Len(jobs[q]) + 1)
          /\ DOMAIN jobs[q] = 1..Len(jobs[q]) /\ Len(jobs[q]) \in Nat
          /\ \A i \in 1..Len(jobs[q]) : jobs'[q][i] = jobs[q][i]
          /\ jobs'[q][Len(jobs[q]) + 1] = j
      BY <1>1, <3>1
    <3>3. Len(jobs[q]) + 1 \in DOMAIN jobs'[q] /\ \A i \in DOMAIN jobs'[q] :
             i = Len(jobs[q]) + 1 \/ i \in DOMAIN jobs[q]
      BY <3>2
    <3>4. \A i \in DOMAIN jobs[q] : i \in DOMAIN jobs'[q]
      BY <3>2
    <3> HIDE DEF j
    <3> QED
      BY <2>1, <3>2, <3>3, <3>4 DEF ListedIn
  <2>2. CASE q # TargetOf[j]
    <3>1. jobs'[q] = jobs[q]
      BY <1>1, <2>2 DEF AppendJob, TypeOK
    <3> QED
      BY <2>2, <3>1 DEF ListedIn
  <2> QED
    BY <2>1, <2>2
<1>5. BatchIsDrained'
  BY <1>2 DEF BatchIsDrained, Caller, AppendJob
<1>6. PushedOnce'
  BY <1>1, <1>2, <1>3, <1>4 DEF PushedOnce, TypeOK
<1> QED
  BY <1>5, <1>6

\* The list becomes the batch as it is.
LEMMA PopAllSerial ==
    ASSUME SInv, NEW w \in Worker, PopAll(w)
    PROVE  (BatchIsDrained /\ PushedOnce)'
<1> USE JobQueueAssumption DEF SInv, IInv
<1> DEFINE p == current[w]
<1>1. p \in Queue
  BY DEF PopAll, Control, TypeOK
<1>2. /\ finished' = finished /\ issued' = issued /\ pushing' = pushing /\ current' = current
      /\ \A v \in Worker : batch'[v] = IF v = w THEN jobs[p] ELSE batch[v]
      /\ \A q \in Queue : jobs'[q] = IF q = p THEN <<>> ELSE jobs[q]
      /\ \A v \in Worker : v # w => pc'[v] = pc[v]
      /\ pc'[w] = IF jobs[p] = <<>> THEN "retire" ELSE "run"
  BY <1>1 DEF PopAll, TypeOK, pushVars
<1>3. \A q \in Queue, k \in Job : ListedIn(q, k)' <=> ListedIn(q, k) /\ q # p
  BY <1>2 DEF ListedIn
<1>4. \A v \in Worker, k \in Job :
         TakenBy(v, k)' <=> IF v = w THEN ListedIn(p, k) ELSE TakenBy(v, k)
  BY <1>1, <1>2 DEF ListedIn, TakenBy
<1>5. BatchIsDrained'
  BY <1>1, <1>2 DEF BatchIsDrained
<1>6. PushedOnce'
  BY <1>1, <1>2, <1>3, <1>4 DEF PushedOnce, TypeOK
<1> QED
  BY <1>5, <1>6

\* A job that finishes leaves its batch; it was not in any Push call.
LEMMA FinishJobSerial ==
    ASSUME SInv, NEW w \in Worker, FinishJob(w)
    PROVE  (BatchIsDrained /\ PushedOnce)'
<1> USE JobQueueAssumption DEF SInv, IInv
<1> DEFINE b == batch[w]
<1>1. /\ b \in Seq(Job) /\ b # <<>> /\ Head(b) = b[1] /\ 1 \in DOMAIN b /\ Head(b) \in Job
      /\ \A i \in DOMAIN Tail(b) : i + 1 \in DOMAIN b /\ Tail(b)[i] = b[i + 1]
  BY DEF FinishJob, Control, TypeOK
<1>2. /\ finished' = finished \cup {Head(b)} /\ issued' = issued /\ pushing' = pushing
      /\ current' = current /\ jobs' = jobs
      /\ \A v \in Worker : batch'[v] = IF v = w THEN Tail(b) ELSE batch[v]
      /\ \A v \in Worker : v # w => pc'[v] = pc[v]
      /\ pc'[w] = IF Tail(b) = <<>> THEN "retire" ELSE "run"
      /\ pc[w] = "run" /\ current[w] # None
  BY DEF FinishJob, TypeOK, pushVars, queueVars, Control
<1>3. \A q \in Queue, k \in Job : ListedIn(q, k)' <=> ListedIn(q, k)
  BY <1>2 DEF ListedIn
<1>4. TakenBy(w, Head(b)) /\ \A v \in Worker, k \in Job : TakenBy(v, k)' => TakenBy(v, k)
  <2>1. TakenBy(w, Head(b))
    BY <1>1 DEF TakenBy
  <2>2. ASSUME NEW v \in Worker, NEW k \in Job, TakenBy(v, k)' PROVE TakenBy(v, k)
    <3>1. PICK i \in DOMAIN batch'[v] : batch'[v][i] = k
      BY <2>2 DEF TakenBy
    <3>2. CASE v = w
      <4>1. i \in DOMAIN Tail(b) /\ Tail(b)[i] = k
        BY <1>2, <3>1, <3>2
      <4>2. i + 1 \in DOMAIN b /\ b[i + 1] = k
        BY <1>1, <4>1
      <4> QED
        BY <3>2, <4>2 DEF TakenBy
    <3>3. CASE v # w
      BY <1>2, <3>1, <3>3 DEF TakenBy
    <3> QED
      BY <3>2, <3>3
  <2> QED
    BY <2>1, <2>2
<1>5. BatchIsDrained'
  BY <1>2 DEF BatchIsDrained
<1>6. PushedOnce'
  <2> HIDE DEF b
  <2>1. Head(b) \in issued /\ \A v \in Worker : pushing[v] # Head(b)
    BY <1>1, <1>4 DEF PushedOnce
  <2> QED
    BY <1>1, <1>2, <1>3, <1>4, <2>1 DEF PushedOnce, TypeOK
<1> QED
  BY <1>5, <1>6

\* The other steps move a worker or a queue, and no job.
LEMMA MoveSerial ==
    ASSUME SInv,
           \/ UNCHANGED vars
           \/ \E w \in Worker :
                 \/ Park(w) \/ Release(w) \/ KeepDraining(w) \/ Yield(w)
                 \/ EnterPump(w) \/ TakeParked(w) \/ LeavePump(w)
    PROVE  (BatchIsDrained /\ PushedOnce)'
<1> USE JobQueueAssumption DEF SInv, IInv
<1>1. /\ finished' = finished /\ issued' = issued /\ pushing' = pushing
      /\ jobs' = jobs /\ batch' = batch
  BY DEF vars, Park, Release, KeepDraining, Yield, Retire, EnterPump, TakeParked, LeavePump,
         queueVars, drainVars, pushVars
<1>2. /\ \A q \in Queue, k \in Job : ListedIn(q, k)' <=> ListedIn(q, k)
      /\ \A v \in Worker, k \in Job : TakenBy(v, k)' <=> TakenBy(v, k)
  BY <1>1 DEF ListedIn, TakenBy
<1>3. PushedOnce'
  BY <1>1, <1>2 DEF PushedOnce, TypeOK
<1>4. BatchIsDrained'
  <2>1. CASE UNCHANGED vars
    BY <2>1 DEF vars, BatchIsDrained
  <2>2. ASSUME NEW w \in Worker, Park(w) PROVE BatchIsDrained'
    BY <1>1, <2>2 DEF Park, BatchIsDrained, TypeOK, Caller, drainVars
  <2>3. ASSUME NEW w \in Worker, Release(w) \/ KeepDraining(w) \/ Yield(w)
        PROVE BatchIsDrained'
    BY <1>1, <2>3 DEF Release, KeepDraining, Yield, Retire, BatchIsDrained, TypeOK
  <2>4. ASSUME NEW w \in Worker, TakeParked(w) PROVE BatchIsDrained'
    BY <1>1, <2>4 DEF TakeParked, BatchIsDrained, TypeOK, Control
  <2>5. ASSUME NEW w \in Worker, EnterPump(w) \/ LeavePump(w) PROVE BatchIsDrained'
    BY <2>5 DEF EnterPump, LeavePump, BatchIsDrained, drainVars
  <2> QED
    BY <2>1, <2>2, <2>3, <2>4, <2>5
<1> QED
  BY <1>3, <1>4

\* Every step keeps jobs where they belong, and those that start none keep them
\* where they are.
LEMMA SerialInductive == SInv /\ [Next]_vars => SInv'
<1> SUFFICES ASSUME SInv, [Next]_vars PROVE SInv'
  OBVIOUS
<1>1. IInv'
  BY Inductive DEF SInv
<1>2. CASE UNCHANGED vars
  BY <1>1, <1>2, MoveSerial DEF SInv
<1>3. ASSUME NEW w \in Worker, Step(w) PROVE SInv'
  BY <1>1, <1>3, AppendJobSerial, PopAllSerial, FinishJobSerial, MoveSerial DEF Step, SInv
<1>4. ASSUME NEW w \in Worker, NEW j \in Job, BeginPush(w, j) PROVE SInv'
  BY <1>1, <1>4, BeginPushSerial DEF SInv
<1> QED
  BY <1>2, <1>3, <1>4 DEF Next

\* In every reachable state a job that is being pushed is in no list or batch.
LEMMA SerialInvariant == Spec => []SInv
<1>1. Init => SInv
  BY InitIInv, InitSerial DEF SInv
<1> QED
  BY <1>1, SerialInductive, PTL DEF Spec

(***************************************************************************)
(* The refinement                                                          *)
(***************************************************************************)

\* The backlog of a queue that is drained, and of one that is not.
BacklogIs ==
    \A q \in Queue :
        /\ \A w \in Worker : Drains(w, q) => Backlog[q] = batch[w] \o jobs[q]
        /\ NobodyDrains(q) => Backlog[q] = jobs[q]
        /\ Backlog[q] \in Seq(Job)

\* The drainer of a queue is the one worker that CHOOSE can mean.
LEMMA BacklogFound == SInv => BacklogIs
<1> SUFFICES ASSUME SInv, NEW q \in Queue
             PROVE  /\ \A w \in Worker : Drains(w, q) => Backlog[q] = batch[w] \o jobs[q]
                    /\ NobodyDrains(q) => Backlog[q] = jobs[q]
                    /\ Backlog[q] \in Seq(Job)
  BY DEF BacklogIs
<1> USE JobQueueAssumption DEF SInv, IInv
<1>1. \A w, v \in Worker : Drains(w, q) /\ Drains(v, q) => w = v
  BY DEF Ownership
<1>2. ASSUME NEW w \in Worker, Drains(w, q) PROVE Backlog[q] = batch[w] \o jobs[q]
  <2>1. (CHOOSE v \in Worker : Drains(v, q)) = w
    BY <1>1, <1>2
  <2> QED
    BY <1>2, <2>1 DEF Backlog
<1>3. NobodyDrains(q) => Backlog[q] = jobs[q]
  BY DEF Backlog, NobodyDrains
<1>4. Backlog[q] \in Seq(Job)
  <2>1. jobs[q] \in Seq(Job) /\ \A w \in Worker : batch[w] \o jobs[q] \in Seq(Job)
    BY DEF TypeOK
  <2> QED
    BY <1>2, <1>3, <2>1 DEF NobodyDrains
<1> QED
  BY <1>2, <1>3, <1>4

\* What has been accepted is in the list or the batch of a queue, or finished;
\* the job of a Push call is in none of them.
LEMMA PushingIsNew ==
    ASSUME SInv, NEW w \in Worker, pushing[w] # None
    PROVE  pushing[w] \notin Serial!Accepted
<1> USE JobQueueAssumption DEF SInv, IInv
<1> DEFINE j == pushing[w]
<1>1. /\ j \notin finished
      /\ \A q \in Queue : ~ListedIn(q, j)
      /\ \A v \in Worker : ~TakenBy(v, j)
  BY DEF PushedOnce
<1>2. ASSUME NEW q \in Queue, NEW i \in DOMAIN Backlog[q] PROVE Backlog[q][i] # j
  <2>1. CASE NobodyDrains(q)
    BY <1>1, <1>2, <2>1, BacklogFound DEF BacklogIs, ListedIn
  <2>2. CASE ~NobodyDrains(q)
    <3>1. PICK v \in Worker : Drains(v, q)
      BY <2>2 DEF NobodyDrains
    <3>2. /\ Backlog[q] = batch[v] \o jobs[q]
          /\ batch[v] \in Seq(Job) /\ jobs[q] \in Seq(Job)
      BY <3>1, BacklogFound DEF BacklogIs, TypeOK
    <3> DEFINE b == batch[v]
               l == jobs[q]
    <3>3. /\ \A n \in DOMAIN b : b[n] # j
          /\ \A n \in DOMAIN l : l[n] # j
      BY <1>1 DEF ListedIn, TakenBy
    <3>4. b \in Seq(Job) /\ l \in Seq(Job) /\ i \in DOMAIN (b \o l) /\ Backlog[q][i] = (b \o l)[i]
      BY <1>2, <3>2
    <3> HIDE DEF b, l, j
    <3>5. (b \o l)[i] # j
      BY <3>3, <3>4
    <3> QED
      BY <3>4, <3>5
  <2> QED
    BY <2>1, <2>2
<1> QED
  BY <1>1, <1>2 DEF Serial!Accepted

\* Nothing is accepted or finished before the append or the end of a body.
LEMMA StepsThatStutter ==
    ASSUME SInv, SInv', NEW w \in Worker,
           \/ \E j \in Job : BeginPush(w, j)
           \/ Park(w) \/ PopAll(w) \/ Release(w) \/ KeepDraining(w) \/ Yield(w)
           \/ EnterPump(w) \/ TakeParked(w) \/ LeavePump(w)
    PROVE  UNCHANGED Serial!vars
<1> USE JobQueueAssumption
<1>1. BacklogIs /\ BacklogIs'
  BY BacklogFound, PTL
<1>2. finished' = finished
  BY DEF BeginPush, Park, PopAll, Release, KeepDraining, Yield, Retire, EnterPump, TakeParked,
         LeavePump
<1>3. \A q \in Queue : jobs[q] \in Seq(Job) /\ <<>> \o jobs[q] = jobs[q]
                        /\ jobs[q] \o <<>> = jobs[q]
  <2>1. \A s \in Seq(Job) : <<>> \o s = s /\ s \o <<>> = s
    OBVIOUS
  <2> QED
    BY <2>1 DEF SInv, IInv, TypeOK
<1>4. \A v, u \in Worker, q \in Queue : Drains(v, q) /\ Drains(u, q) => v = u
  BY DEF SInv, IInv, Ownership
<1>5. CASE \/ \E j \in Job : BeginPush(w, j)
           \/ Park(w) \/ KeepDraining(w) \/ EnterPump(w) \/ LeavePump(w)
  <2>1. current' = current /\ batch' = batch /\ jobs' = jobs
    BY <1>5 DEF BeginPush, Park, KeepDraining, Retire, EnterPump, LeavePump, drainVars, queueVars
  <2> QED
    BY <1>2, <2>1 DEF Backlog, Drains, Serial!vars
<1> SUFFICES ASSUME PopAll(w) \/ Release(w) \/ Yield(w) \/ TakeParked(w),
                    NEW q \in Queue
             PROVE  Backlog'[q] = Backlog[q]
  <2> Backlog' = [r \in Queue |-> Backlog'[r]] /\ Backlog = [r \in Queue |-> Backlog[r]]
    BY DEF Backlog
  <2> QED
    BY <1>2, <1>5 DEF Serial!vars
<1>6. CASE PopAll(w)
  <2>1. batch[w] = <<>> /\ current[w] \in Queue
    BY <1>6 DEF PopAll, SInv, IInv, BatchIsDrained, Control, TypeOK
  <2>2. /\ \A v \in Worker : batch'[v] = IF v = w THEN jobs[current[w]] ELSE batch[v]
        /\ \A r \in Queue : jobs'[r] = IF r = current[w] THEN <<>> ELSE jobs[r]
        /\ \A v \in Worker : Drains(v, q)' <=> Drains(v, q)
    BY <1>6, <2>1 DEF PopAll, SInv, IInv, TypeOK, Drains
  <2>3. CASE q = current[w]
    <3>1. Drains(w, q)
      BY <2>3 DEF Drains
    <3>2. Backlog[q] = batch[w] \o jobs[q] /\ Backlog'[q] = batch'[w] \o jobs'[q]
      BY <1>1, <2>2, <3>1 DEF BacklogIs
    <3> QED
      BY <1>3, <2>1, <2>2, <2>3, <3>2, ZenonT(40)
  <2>4. CASE q # current[w]
    <3>1. ~Drains(w, q)
      BY <2>4 DEF Drains
    <3>2. CASE NobodyDrains(q)
      BY <1>1, <2>2, <2>4, <3>2 DEF BacklogIs, NobodyDrains
    <3>3. CASE ~NobodyDrains(q)
      <4>1. PICK v \in Worker : Drains(v, q)
        BY <3>3 DEF NobodyDrains
      <4>2. Drains(v, q)' /\ batch'[v] = batch[v] /\ jobs'[q] = jobs[q]
        BY <2>2, <2>4, <3>1, <4>1
      <4> QED
        BY <1>1, <4>1, <4>2, ZenonT(40) DEF BacklogIs
    <3> QED
      BY <3>2, <3>3
  <2> QED
    BY <2>3, <2>4
<1>7. CASE Release(w) \/ Yield(w)
  <2>1. /\ batch[w] = <<>> /\ batch' = batch /\ jobs' = jobs
        /\ \A v \in Worker : Drains(v, q)' <=> Drains(v, q) /\ v # w
    BY <1>7, JobQueueAssumption
    DEF Release, Yield, Retire, SInv, IInv, BatchIsDrained, TypeOK, Drains
  <2>2. CASE Drains(w, q)
    <3>1. NobodyDrains(q)'
      BY <1>4, <2>1, <2>2 DEF NobodyDrains
    <3> QED
      BY <1>1, <1>3, <2>1, <2>2, <3>1 DEF BacklogIs
  <2>3. CASE ~Drains(w, q)
    BY <1>1, <2>1, <2>3 DEF BacklogIs, NobodyDrains
  <2> QED
    BY <2>2, <2>3
<1>8. CASE TakeParked(w)
  <2>1. /\ batch[w] = <<>> /\ batch' = batch /\ jobs' = jobs /\ current[w] = None
        /\ 1 \in DOMAIN parked /\ parked[1] = Head(parked)
        /\ \A v \in Worker : current'[v] = IF v = w THEN Head(parked) ELSE current[v]
    BY <1>8 DEF TakeParked, SInv, IInv, BatchIsDrained, TypeOK, Control
  <2>2. CASE q = Head(parked)
    <3>1. NobodyDrains(q) /\ Drains(w, q)'
      BY <2>1, <2>2 DEF SInv, IInv, Ownership, NotParked, Drains
    <3> QED
      BY <1>1, <1>3, <2>1, <3>1, ZenonT(40) DEF BacklogIs
  <2>3. CASE q # Head(parked)
    <3>1. \A v \in Worker : Drains(v, q)' <=> Drains(v, q)
      BY <2>1, <2>3, JobQueueAssumption DEF Drains
    <3>2. CASE NobodyDrains(q)
      BY <1>1, <2>1, <3>1, <3>2 DEF BacklogIs, NobodyDrains
    <3>3. CASE ~NobodyDrains(q)
      <4>1. PICK v \in Worker : Drains(v, q)
        BY <3>3 DEF NobodyDrains
      <4>2. Drains(v, q)'
        BY <3>1, <4>1
      <4>3. Backlog'[q] = batch'[v] \o jobs'[q] /\ Backlog[q] = batch[v] \o jobs[q]
        BY <1>1, <4>1, <4>2 DEF BacklogIs
      <4> QED
        BY <2>1, <4>3
    <3> QED
      BY <3>2, <3>3
  <2> QED
    BY <2>2, <2>3
<1> QED
  BY <1>6, <1>7, <1>8

\* The first of what two sequences make together, and what is left of them.
LEMMA HeadTailOfConcat ==
    ASSUME NEW S, NEW s \in Seq(S), NEW r \in Seq(S), s # <<>>
    PROVE  s \o r # <<>> /\ Head(s \o r) = Head(s) /\ Tail(s \o r) = Tail(s) \o r
<1>1. /\ Head(s) \in S /\ Tail(s) \in Seq(S) /\ s = <<Head(s)>> \o Tail(s)
  BY HeadTailProperties, SMT
<1> DEFINE h == <<Head(s)>>
<1>2. h \in Seq(S) /\ Len(h) = 1
  BY <1>1
<1>3. s \o r = h \o (Tail(s) \o r)
  <2> DEFINE u == Tail(s)
  <2>1. s = h \o u
    BY <1>1
  <2>2. (h \o u) \o r = h \o (u \o r)
    <3>1. \A x, y, z \in Seq(S) : (x \o y) \o z = x \o (y \o z)
      BY ConcatAssociative, SMTT(20)
    <3>2. h \in Seq(S) /\ u \in Seq(S)
      BY <1>1, <1>2
    <3> HIDE DEF h, u
    <3> QED
      BY ONLY <3>1, <3>2, r \in Seq(S), Zenon
  <2> QED
    BY <2>1, <2>2 DEF u
<1>4. \A t \in Seq(S) : h \o t # <<>> /\ Head(h \o t) = Head(s) /\ Tail(h \o t) = t
  BY <1>1
<1>5. Tail(s) \o r \in Seq(S)
  BY <1>1
<1> QED
  BY <1>3, <1>4, <1>5

\* The append is the moment a job is accepted.
LEMMA AppendAccepts ==
    ASSUME SInv, SInv', NEW w \in Worker, AppendJob(w)
    PROVE  Serial!Accept(pushing[w])
<1> USE JobQueueAssumption
<1> DEFINE j == pushing[w]
           p == TargetOf[j]
<1>1. BacklogIs /\ BacklogIs'
  BY BacklogFound, PTL
<1>2. j \in Job /\ j # None /\ p \in Queue
  BY DEF AppendJob, SInv, IInv, Control, TypeOK
<1>3. j \notin Serial!Accepted
  BY <1>2, PushingIsNew
<1>4. /\ finished' = finished /\ batch' = batch
      /\ \A q \in Queue : jobs'[q] = IF q = p THEN Append(jobs[q], j) ELSE jobs[q]
      /\ \A v \in Worker : batch[v] \in Seq(Job)
      /\ \A q \in Queue : jobs[q] \in Seq(Job)
  BY <1>2 DEF AppendJob, SInv, IInv, TypeOK
<1>5. \A v \in Worker, q \in Queue :
         Drains(v, q)' <=> Drains(v, q)
                           \/ (v = w /\ q = p /\ previous[w] = 0 /\ current[w] = None)
  BY <1>2 DEF AppendJob, Drains, SInv, IInv, TypeOK
<1>6. previous[w] = 0 => NobodyDrains(p)
  BY <1>2 DEF SInv, IInv, Ownership, NobodyClaims, Claims
<1>7. current[w] = None => batch[w] = <<>>
  BY DEF SInv, BatchIsDrained
<1>8. \A s, r \in Seq(Job) : s \o Append(r, j) = Append(s \o r, j) /\ <<>> \o r = r
  BY <1>2
<1> HIDE DEF j, p
<1>9. \A q \in Queue : Backlog'[q] = IF q = p THEN Append(Backlog[q], j) ELSE Backlog[q]
  <2> SUFFICES ASSUME NEW q \in Queue
               PROVE  Backlog'[q] = IF q = p THEN Append(Backlog[q], j) ELSE Backlog[q]
    OBVIOUS
  <2>1. CASE q = p /\ previous[w] = 0 /\ current[w] = None
    <3>1. Drains(w, q)' /\ NobodyDrains(q)
      BY <1>5, <1>6, <2>1
    <3>2. Backlog'[q] = batch'[w] \o jobs'[q] /\ Backlog[q] = jobs[q]
      BY <1>1, <3>1 DEF BacklogIs
    <3>3. jobs'[q] = Append(jobs[q], j) /\ batch'[w] = <<>>
      BY <1>4, <1>7, <2>1
    <3>4. Append(jobs[q], j) \in Seq(Job)
      BY <1>2, <1>4
    <3> QED
      BY <1>8, <2>1, <3>2, <3>3, <3>4
  <2>2. CASE ~(q = p /\ previous[w] = 0 /\ current[w] = None)
    <3>1. \A v \in Worker : Drains(v, q)' <=> Drains(v, q)
      BY <1>5, <2>2
    <3>2. CASE NobodyDrains(q)
      BY <1>1, <1>4, <3>1, <3>2 DEF BacklogIs, NobodyDrains
    <3>3. CASE ~NobodyDrains(q)
      <4>1. PICK v \in Worker : Drains(v, q)
        BY <3>3 DEF NobodyDrains
      <4>2. Backlog'[q] = batch[v] \o jobs'[q] /\ Backlog[q] = batch[v] \o jobs[q]
        BY <1>1, <1>4, <3>1, <4>1 DEF BacklogIs
      <4>3. batch[v] \o Append(jobs[q], j) = Append(batch[v] \o jobs[q], j)
        BY <1>4, <1>8
      <4>4. jobs'[q] = IF q = p THEN Append(jobs[q], j) ELSE jobs[q]
        BY <1>4
      <4> QED
        BY <4>2, <4>3, <4>4
    <3> QED
      BY <3>2, <3>3
  <2> QED
    BY <2>1, <2>2
<1>10. Backlog' = [Backlog EXCEPT ![p] = Append(@, j)]
  <2> Backlog' = [q \in Queue |-> Backlog'[q]] /\ Backlog = [q \in Queue |-> Backlog[q]]
    BY DEF Backlog
  <2> QED
    BY <1>2, <1>9
<1> QED
  BY <1>3, <1>4, <1>10 DEF Serial!Accept, j, p

\* The end of a body finishes the oldest job of the queue the worker drains.
LEMMA FinishFinishes ==
    ASSUME SInv, SInv', NEW w \in Worker, FinishJob(w)
    PROVE  Serial!Finish(current[w])
<1> USE JobQueueAssumption
<1> DEFINE p == current[w]
           b == batch[w]
<1>1. BacklogIs /\ BacklogIs'
  BY BacklogFound, PTL
<1>2. p \in Queue /\ Drains(w, p) /\ b \in Seq(Job) /\ b # <<>>
  BY DEF FinishJob, SInv, IInv, Control, TypeOK, Drains
<1>3. /\ finished' = finished \cup {Head(b)} /\ jobs' = jobs
      /\ \A v \in Worker : batch'[v] = IF v = w THEN Tail(b) ELSE batch[v]
      /\ \A v \in Worker, q \in Queue : Drains(v, q)' <=> Drains(v, q)
      /\ \A q \in Queue : jobs[q] \in Seq(Job)
  BY DEF FinishJob, SInv, IInv, TypeOK, queueVars, Drains
<1>4. \A q \in Queue, v \in Worker : Drains(w, q) /\ Drains(v, q) => v = w
  BY DEF SInv, IInv, Ownership
<1>5. \A q \in Queue : Drains(w, q) => q = p
  BY DEF Drains
<1>6. ASSUME NEW r \in Seq(Job)
      PROVE  b \o r # <<>> /\ Head(b \o r) = Head(b) /\ Tail(b \o r) = Tail(b) \o r
  BY <1>2, <1>6, HeadTailOfConcat
<1> HIDE DEF p, b
<1>7. Backlog[p] = b \o jobs[p] /\ Backlog'[p] = Tail(b) \o jobs[p]
  BY <1>1, <1>2, <1>3 DEF BacklogIs, b
<1>8. ASSUME NEW q \in Queue, q # p PROVE Backlog'[q] = Backlog[q]
  <2>1. CASE NobodyDrains(q)
    BY <1>1, <1>3, <2>1 DEF BacklogIs, NobodyDrains
  <2>2. CASE ~NobodyDrains(q)
    <3>1. PICK v \in Worker : Drains(v, q)
      BY <2>2 DEF NobodyDrains
    <3>2. v # w
      BY <1>5, <1>8, <3>1
    <3>3. Drains(v, q)' /\ batch'[v] = batch[v]
      BY <1>3, <3>1, <3>2
    <3>4. Backlog'[q] = batch'[v] \o jobs'[q] /\ Backlog[q] = batch[v] \o jobs[q]
      BY <1>1, <3>1, <3>3 DEF BacklogIs
    <3> QED
      BY <1>3, <3>3, <3>4
  <2> QED
    BY <2>1, <2>2
<1>9. Backlog' = [Backlog EXCEPT ![p] = Tail(@)]
  <2>1. Backlog'[p] = Tail(Backlog[p])
    BY <1>2, <1>3, <1>6, <1>7
  <2> Backlog' = [q \in Queue |-> Backlog'[q]] /\ Backlog = [q \in Queue |-> Backlog[q]]
    BY DEF Backlog
  <2> QED
    BY <1>2, <1>8, <2>1
<1>10. Backlog[p] # <<>> /\ Head(Backlog[p]) = Head(b)
  BY <1>2, <1>3, <1>6, <1>7
<1> QED
  BY <1>3, <1>9, <1>10 DEF Serial!Finish, p

\* A pool that starts has no backlog.
LEMMA InitSerialMaps == Init => Serial!Init
<1> SUFFICES ASSUME Init PROVE Serial!Init
  OBVIOUS
<1>1. \A q \in Queue : NobodyDrains(q)
  BY JobQueueAssumption DEF Init, NobodyDrains, Drains
<1>2. Backlog = [q \in Queue |-> <<>>]
  BY <1>1 DEF Init, Backlog, NobodyDrains
<1> QED
  BY <1>2 DEF Init, Serial!Init

\* However workers, claims and parked queues interleave, all that happens to the
\* jobs of an object is that one is accepted at the back of its backlog or the
\* oldest finishes: no job overtakes another of its queue, runs twice, or is
\* dropped (JobQueue.cpp:10-75).
THEOREM ImplementsSerialExecutor == Spec => Serial!Init /\ [][Serial!Next]_(Serial!vars)
<1>1. ASSUME SInv, SInv', [Next]_vars PROVE [Serial!Next]_(Serial!vars)
  <2>1. CASE UNCHANGED vars
    BY <2>1 DEF vars, Serial!vars, Backlog, Drains
  <2>2. ASSUME NEW w \in Worker, Step(w) PROVE [Serial!Next]_(Serial!vars)
    <3>1. CASE AppendJob(w)
      <4>1. pushing[w] \in Job
        BY <1>1, <3>1 DEF AppendJob, SInv, IInv, Control, TypeOK
      <4> QED
        BY <1>1, <3>1, <4>1, AppendAccepts DEF Serial!Next
    <3>2. CASE FinishJob(w)
      <4>1. current[w] \in Queue
        BY <1>1, <3>2 DEF FinishJob, SInv, IInv, Control, TypeOK
      <4> QED
        BY <1>1, <3>2, <4>1, FinishFinishes DEF Serial!Next
    <3> QED
      BY <1>1, <2>2, <3>1, <3>2, StepsThatStutter DEF Step
  <2>3. ASSUME NEW w \in Worker, NEW j \in Job, BeginPush(w, j)
        PROVE  [Serial!Next]_(Serial!vars)
    BY <1>1, <2>3, StepsThatStutter
  <2> QED
    BY <1>1, <2>1, <2>2, <2>3 DEF Next
<1> QED
  BY <1>1, SerialInvariant, InitSerialMaps, PTL DEF Spec
-----------------------------------------------------------------------------

(***************************************************************************)
(* The inductive invariant of the timers                                   *)
(***************************************************************************)

Holds(w, j) == \E i \in DOMAIN due[w] : due[w][i] = j

\* Between the compare-exchange that succeeds and the drop of the flag.
Distributes(w) == stage[w] \in {"collecting", "unlocking"}

\* The flag admits one worker at a time.
OneDistributor ==
    /\ \A w \in Worker : Distributes(w) => distributing
    /\ \A w, v \in Worker : Distributes(w) /\ Distributes(v) => v = w

\* PumpOnce distributes before it drains, and has pushed what it took.
Rounds ==
    \A w \in Worker :
        /\ phase[w] # "dispatch" => stage[w] = "after"
        /\ stage[w] \notin {"unlocking", "pushing"} => due[w] = <<>>

\* What a distributor holds was due when it called.
HeldIsDue ==
    \A w \in Worker :
        /\ now[w] <= clock
        /\ \A j \in TimedJob : Holds(w, j) => dueAt[j] # None /\ dueAt[j] <= now[w]

\* The heap, the vectors of the distributors and the queues share no timer.
OnePlace ==
    \A j \in TimedJob :
        /\ j \in heap => j \notin issued /\ \A w \in Worker : ~Holds(w, j)
        /\ \A w \in Worker : Holds(w, j) =>
              j \notin issued /\ \A v \in Worker : Holds(v, j) => v = w
        /\ j \in heap \/ j \in issued \/ (\E w \in Worker : Holds(w, j)) <=> dueAt[j] # None

TInv ==
    /\ IInv
    /\ TimerTypeOK
    /\ IsFiniteSet(heap)
    /\ OneDistributor
    /\ Rounds
    /\ HeldIsDue
    /\ OnePlace
    /\ NeverEarly
    /\ \A w \in Worker : \A i, k \in DOMAIN due[w] : due[w][i] = due[w][k] => i = k

\* None, the null of dueAt, is no clock time, so that a reserved timer is seen to
\* be reserved.
LEMMA TimedJobs ==
    /\ TimedJob \subseteq Job /\ Delay \in [TimedJob -> Nat]
    /\ MaxTick \in Nat /\ None \notin Nat
BY JobTimerAssumption

\* Every step of the pool with timers is one of the pool, or leaves it as it is.
LEMMA TimedStepIsAStep == TimerTypeOK /\ [TNext]_allVars => [Next]_vars
<1> SUFFICES ASSUME TimerTypeOK, [TNext]_allVars PROVE [Next]_vars
  OBVIOUS
<1>1. CASE UNCHANGED allVars
  BY <1>1 DEF allVars
<1>2. CASE Tick
  BY <1>2 DEF Tick
<1>3. ASSUME NEW w \in Worker, WorkerStep(w) PROVE [Next]_vars
  <2>1. CASE DrainStep(w)
    BY <2>1 DEF DrainStep, Next, Step
  <2>2. CASE CallDistribute(w) \/ TryDistribute(w) \/ Collect(w)
             \/ StopDistributing(w) \/ DistributeDone(w)
    BY <2>2 DEF CallDistribute, TryDistribute, Collect, StopDistributing, DistributeDone
  <2>3. CASE PushDue(w)
    <3>1. PICK j : j = Head(due[w]) /\ BeginPush(w, j)
      BY <2>3 DEF PushDue
    <3>2. j \in Job
      BY <2>3, <3>1, TimedJobs DEF PushDue, TimerTypeOK
    <3> QED
      BY <3>1, <3>2 DEF Next
  <2>4. CASE EnterPumpAfterTimers(w) \/ NextPumpOnce(w)
    BY <2>4 DEF EnterPumpAfterTimers, NextPumpOnce, Next, Step
  <2> QED
    BY <1>3, <2>1, <2>2, <2>3, <2>4 DEF WorkerStep
<1>4. ASSUME NEW w \in Worker, NEW j \in TimedJob, Reserve(w, j) PROVE [Next]_vars
  BY <1>4 DEF Reserve
<1>5. ASSUME NEW w \in Worker, NEW j \in Job \ TimedJob, PushNow(w, j) PROVE [Next]_vars
  BY <1>5 DEF PushNow, Next
<1> QED
  BY <1>1, <1>2, <1>3, <1>4, <1>5 DEF TNext

\* No timer is reserved when the pool starts.
LEMMA TInitTInv == TInit => TInv
<1> SUFFICES ASSUME TInit PROVE TInv
  OBVIOUS
<1>1. IInv /\ TypeOK
  BY InitIInv DEF TInit, IInv
<1>2. TimerTypeOK
  <2>1. now \in [Worker -> 0..MaxTick] /\ clock \in 0..MaxTick
    BY TimedJobs DEF TInit
  <2>2. due \in [Worker -> Seq(TimedJob)] /\ stage \in [Worker -> Stage]
    BY DEF TInit, Stage
  <2> QED
    BY <1>1, <2>1, <2>2 DEF TInit, TimerTypeOK
<1>3. \A w \in Worker, j \in TimedJob : ~Holds(w, j)
  BY DEF TInit, Holds
<1>4. IsFiniteSet(heap)
  BY FS_EmptySet DEF TInit
<1>5. OneDistributor /\ Rounds
  BY DEF TInit, Init, OneDistributor, Rounds, Distributes
<1>6. HeldIsDue
  BY <1>3 DEF TInit, HeldIsDue
<1>7. OnePlace /\ NeverEarly
  BY <1>3 DEF TInit, Init, OnePlace, NeverEarly
<1>8. \A w \in Worker : \A i, k \in DOMAIN due[w] : due[w][i] = due[w][k] => i = k
  BY DEF TInit
<1> QED
  BY <1>1, <1>2, <1>4, <1>5, <1>6, <1>7, <1>8 DEF TInv

\* The steps that touch no timer: those of the queues and those that move a
\* worker along Distribute.
LEMMA NothingMovesTInv ==
    ASSUME TInv, IInv', TypeOK', UNCHANGED <<clock, dueAt, heap, due>>, issued' = issued,
           stage' \in [Worker -> Stage], now' \in [Worker -> 0..MaxTick],
           distributing' \in BOOLEAN,
           \A w \in Worker : now'[w] \in {now[w], clock},
           \A w \in Worker : now'[w] # now[w] => due[w] = <<>>,
           OneDistributor', Rounds'
    PROVE  TInv'
<1> USE TimedJobs DEF TInv
<1>1. \A w \in Worker, j \in TimedJob : Holds(w, j)' <=> Holds(w, j)
  BY DEF Holds
<1>2. TimerTypeOK'
  BY DEF TimerTypeOK
<1>3. HeldIsDue'
  <2>1. \A w \in Worker, j \in TimedJob : Holds(w, j) => now'[w] = now[w]
    BY DEF Holds
  <2>2. clock \in Nat
    BY DEF TimerTypeOK
  <2> QED
    BY <1>1, <2>1, <2>2 DEF HeldIsDue
<1>4. OnePlace'
  BY <1>1 DEF OnePlace
<1>5. NeverEarly'
  BY DEF NeverEarly
<1> QED
  BY <1>2, <1>3, <1>4, <1>5

\* A drain runs where Distribute has returned, or before it is called.
LEMMA DrainTInv ==
    ASSUME TInv, IInv', NEW w \in Worker, DrainStep(w)
    PROVE  TInv'
<1>1. UNCHANGED timerVars /\ issued' = issued
  BY DEF DrainStep, AppendJob, Park, PopAll, FinishJob, Release, KeepDraining, Yield, Retire,
         TakeParked, pushVars
<1>2. \A v \in Worker : phase'[v] # "dispatch" => phase[v] # "dispatch"
  BY DEF DrainStep, AppendJob, Park, PopAll, FinishJob, Release, KeepDraining, Yield, Retire,
         TakeParked, AfterDrain, TInv, TimerTypeOK, TypeOK
<1>3. OneDistributor' /\ Rounds'
  BY <1>1, <1>2 DEF timerVars, TInv, OneDistributor, Distributes, Rounds
<1>4. TypeOK'
  BY DEF IInv
<1> QED
  BY <1>1, <1>3, <1>4, NothingMovesTInv DEF timerVars, TInv, TimerTypeOK, HeldIsDue

\* What moves a worker along PumpOnce without taking a timer from anywhere.
LEMMA RoundsTInv ==
    ASSUME TInv, IInv', NEW w \in Worker,
           \/ CallDistribute(w) \/ TryDistribute(w) \/ StopDistributing(w)
           \/ DistributeDone(w) \/ EnterPumpAfterTimers(w) \/ NextPumpOnce(w)
    PROVE  TInv'
<1>1. /\ UNCHANGED <<clock, dueAt, heap, due>> /\ issued' = issued
      /\ TypeOK'
  BY DEF CallDistribute, TryDistribute, StopDistributing, DistributeDone, EnterPumpAfterTimers,
         NextPumpOnce, EnterPump, LeavePump, vars, heapVars, timerVars, pushVars, IInv
<1>2. /\ stage' \in [Worker -> Stage] /\ distributing' \in BOOLEAN
      /\ now' \in [Worker -> 0..MaxTick]
  BY DEF CallDistribute, TryDistribute, StopDistributing, DistributeDone, EnterPumpAfterTimers,
         NextPumpOnce, Stage, timerVars, TInv, TimerTypeOK
<1>3. \A v \in Worker : now'[v] = now[v] \/ (now'[v] = clock /\ due[v] = <<>>)
  <2>1. CASE CallDistribute(w)
    <3>1. due[w] = <<>> /\ now \in [Worker -> 0..MaxTick]
      BY <2>1 DEF CallDistribute, TInv, TimerTypeOK, Rounds
    <3> QED
      BY <2>1, <3>1 DEF CallDistribute
  <2>2. CASE ~CallDistribute(w)
    BY <2>2 DEF TryDistribute, StopDistributing, DistributeDone, EnterPumpAfterTimers,
                NextPumpOnce, timerVars
  <2> QED
    BY <2>1, <2>2
<1>4. OneDistributor'
  <2> USE DEF TInv, TimerTypeOK, OneDistributor, Distributes
  <2>1. CASE TryDistribute(w)
    BY <2>1 DEF TryDistribute
  <2>2. CASE StopDistributing(w)
    BY <2>2 DEF StopDistributing
  <2>3. CASE CallDistribute(w) \/ DistributeDone(w) \/ NextPumpOnce(w)
    BY <2>3 DEF CallDistribute, DistributeDone, NextPumpOnce
  <2>4. CASE EnterPumpAfterTimers(w)
    BY <2>4 DEF EnterPumpAfterTimers, timerVars
  <2> QED
    BY <2>1, <2>2, <2>3, <2>4
<1>5. Rounds'
  <2> USE DEF TInv, TimerTypeOK, TypeOK, Rounds
  <2>1. CASE CallDistribute(w) \/ TryDistribute(w)
    BY <2>1 DEF CallDistribute, TryDistribute, vars
  <2>2. CASE StopDistributing(w) \/ DistributeDone(w)
    BY <2>2 DEF StopDistributing, DistributeDone, vars
  <2>3. CASE EnterPumpAfterTimers(w)
    BY <2>3 DEF EnterPumpAfterTimers, EnterPump, timerVars
  <2>4. CASE NextPumpOnce(w)
    BY <2>4 DEF NextPumpOnce, LeavePump
  <2> QED
    BY <2>1, <2>2, <2>3, <2>4
<1> QED
  BY <1>1, <1>2, <1>3, <1>4, <1>5, NothingMovesTInv

\* What was not early does not become early.
LEMMA TickTInv ==
    ASSUME TInv, IInv', Tick
    PROVE  TInv'
<1> USE TimedJobs DEF TInv
<1>1. /\ UNCHANGED <<vars, dueAt, heap, distributing, stage, now, due>>
      /\ clock \in Nat /\ clock' = clock + 1 /\ clock' \in 0..MaxTick
  BY DEF Tick, heapVars, stageVars, TimerTypeOK
<1>2. \A w \in Worker, j \in TimedJob : Holds(w, j)' <=> Holds(w, j)
  BY <1>1 DEF Holds
<1>3. TimerTypeOK'
  BY <1>1 DEF TimerTypeOK, IInv
<1>4. OneDistributor' /\ Rounds'
  BY <1>1 DEF OneDistributor, Distributes, Rounds, vars
<1>5. HeldIsDue'
  <2>1. \A w \in Worker : now[w] \in Nat
    BY DEF TimerTypeOK
  <2> QED
    BY <1>1, <1>2, <2>1 DEF HeldIsDue
<1>6. OnePlace'
  BY <1>1, <1>2 DEF OnePlace, vars
<1>7. NeverEarly'
  <2>1. \A j \in TimedJob : dueAt[j] # None => dueAt[j] \in Nat
    BY DEF TimerTypeOK
  <2> QED
    BY <1>1, <2>1 DEF NeverEarly, vars
<1> QED
  BY <1>1, <1>3, <1>4, <1>5, <1>6, <1>7

\* Reserve puts into the heap a timer that was nowhere.
LEMMA ReserveTInv ==
    ASSUME TInv, IInv', NEW w \in Worker, NEW j \in TimedJob, Reserve(w, j)
    PROVE  TInv'
<1> USE TimedJobs DEF TInv
<1> DEFINE t == clock + Delay[j]
<1>1. /\ UNCHANGED <<vars, clock, distributing, stage, now, due>>
      /\ dueAt[j] = None /\ heap' = heap \cup {j}
      /\ t \in Nat /\ t # None
      /\ \A k \in TimedJob : dueAt'[k] = IF k = j THEN t ELSE dueAt[k]
      /\ dueAt' \in [TimedJob -> Nat \cup {None}]
  <2>1. t \in Nat /\ dueAt \in [TimedJob -> Nat \cup {None}]
    BY DEF TimerTypeOK
  <2>2. dueAt' = [dueAt EXCEPT ![j] = t]
    BY DEF Reserve
  <2> QED
    BY <2>1, <2>2 DEF Reserve, stageVars
<1> HIDE DEF t
<1>2. \A v \in Worker, k \in TimedJob : Holds(v, k)' <=> Holds(v, k)
  BY <1>1 DEF Holds
<1>3. TimerTypeOK'
  BY <1>1 DEF TimerTypeOK, IInv
<1>4. IsFiniteSet(heap')
  BY <1>1, FS_AddElement
<1>5. OneDistributor' /\ Rounds'
  BY <1>1 DEF OneDistributor, Distributes, Rounds, vars
<1>6. j \notin heap /\ j \notin issued /\ \A v \in Worker : ~Holds(v, j)
  BY <1>1 DEF OnePlace
<1>7. HeldIsDue'
  BY <1>1, <1>2, <1>6 DEF HeldIsDue
<1>8. OnePlace'
  BY <1>1, <1>2, <1>6 DEF OnePlace, vars
<1>9. NeverEarly'
  BY <1>1, <1>6 DEF NeverEarly, vars
<1> QED
  BY <1>1, <1>3, <1>4, <1>5, <1>7, <1>8, <1>9

\* A job without a timer changes nothing for those with one.
LEMMA PushNowTInv ==
    ASSUME TInv, IInv', NEW w \in Worker, NEW j \in Job \ TimedJob, PushNow(w, j)
    PROVE  TInv'
<1> USE TimedJobs DEF TInv
<1>1. /\ UNCHANGED timerVars /\ phase' = phase /\ issued' = issued \cup {j}
  BY DEF PushNow, BeginPush
<1>2. \A v \in Worker, k \in TimedJob : Holds(v, k)' <=> Holds(v, k)
  BY <1>1 DEF Holds, timerVars
<1>3. TimerTypeOK'
  BY <1>1 DEF TimerTypeOK, IInv, timerVars
<1>4. OneDistributor' /\ Rounds'
  BY <1>1 DEF OneDistributor, Distributes, Rounds, timerVars
<1>5. HeldIsDue'
  BY <1>1, <1>2 DEF HeldIsDue, timerVars
<1>6. OnePlace' /\ NeverEarly'
  BY <1>1, <1>2 DEF OnePlace, NeverEarly, timerVars
<1> QED
  BY <1>1, <1>3, <1>4, <1>5, <1>6 DEF timerVars

\* A timer leaves the vector of its distributor as it is handed to its queue.
LEMMA PushDueTInv ==
    ASSUME TInv, IInv', NEW w \in Worker, PushDue(w)
    PROVE  TInv'
<1> USE TimedJobs DEF TInv
<1> DEFINE s == due[w]
           j == Head(s)
<1>1. s \in Seq(TimedJob) /\ s # <<>>
  BY DEF PushDue, TimerTypeOK
<1>2. /\ j \in TimedJob /\ Tail(s) \in Seq(TimedJob)
      /\ 1 \in DOMAIN s /\ s[1] = j
      /\ \A i \in DOMAIN Tail(s) : i + 1 \in DOMAIN s /\ Tail(s)[i] = s[i + 1]
      /\ \A i \in DOMAIN s : i = 1 \/ (i - 1 \in DOMAIN Tail(s) /\ Tail(s)[i - 1] = s[i])
      /\ \A i \in DOMAIN s : i \in Nat \ {0}
      /\ \A i \in DOMAIN Tail(s) : i \in Nat \ {0}
  BY <1>1
<1>3. /\ UNCHANGED <<clock, dueAt, heap, distributing, stage, now, phase>>
      /\ issued' = issued \cup {j}
      /\ \A v \in Worker : due'[v] = IF v = w THEN Tail(s) ELSE due[v]
      /\ due' \in [Worker -> Seq(TimedJob)]
      /\ stage[w] = "pushing"
  BY <1>2 DEF PushDue, BeginPush, TimerTypeOK, heapVars
<1>4. \A i, k \in DOMAIN s : s[i] = s[k] => i = k
  OBVIOUS
<1>5. Holds(w, j)
  BY <1>2 DEF Holds
<1> HIDE DEF s, j
<1>6. \A v \in Worker, k \in TimedJob : Holds(v, k)' <=> Holds(v, k) /\ ~(v = w /\ k = j)
  <2>1. ASSUME NEW k \in TimedJob
        PROVE  (\E i \in DOMAIN Tail(s) : Tail(s)[i] = k) <=> (\E i \in DOMAIN s : s[i] = k) /\ k # j
    <3>1. ASSUME NEW i \in DOMAIN Tail(s), Tail(s)[i] = k
          PROVE  (\E n \in DOMAIN s : s[n] = k) /\ k # j
      <4>1. i + 1 \in DOMAIN s /\ s[i + 1] = k /\ i + 1 # 1
        BY <1>2, <3>1
      <4> QED
        BY <1>2, <1>4, <4>1
    <3>2. ASSUME NEW i \in DOMAIN s, s[i] = k, k # j
          PROVE  \E n \in DOMAIN Tail(s) : Tail(s)[n] = k
      BY <1>2, <3>2
    <3> QED
      BY <3>1, <3>2
  <2>2. \A k \in TimedJob : Holds(w, k)' <=> Holds(w, k) /\ k # j
    BY <1>3, <2>1 DEF Holds, s
  <2>3. \A v \in Worker \ {w}, k \in TimedJob : Holds(v, k)' <=> Holds(v, k)
    BY <1>3 DEF Holds
  <2> QED
    BY <2>2, <2>3
<1>7. TimerTypeOK'
  BY <1>3 DEF TimerTypeOK, IInv
<1>8. OneDistributor' /\ Rounds'
  BY <1>3 DEF OneDistributor, Distributes, Rounds
<1>9. HeldIsDue'
  BY <1>3, <1>6 DEF HeldIsDue
<1>10. OnePlace'
  <2> SUFFICES ASSUME NEW k \in TimedJob
               PROVE  /\ k \in heap => k \notin issued' /\ \A v \in Worker : ~Holds(v, k)'
                      /\ \A v \in Worker : Holds(v, k)' =>
                            k \notin issued' /\ \A u \in Worker : Holds(u, k)' => u = v
                      /\ k \in heap \/ k \in issued' \/ (\E v \in Worker : Holds(v, k)')
                            <=> dueAt[k] # None
    BY <1>3 DEF OnePlace
  <2>1. CASE k = j
    BY <1>2, <1>3, <1>5, <1>6, <2>1 DEF OnePlace
  <2>2. CASE k # j
    BY <1>3, <1>6, <2>2 DEF OnePlace
  <2> QED
    BY <2>1, <2>2
<1>11. NeverEarly'
  <2>1. dueAt[j] # None /\ dueAt[j] <= now[w] /\ now[w] <= clock
    BY <1>2, <1>5 DEF HeldIsDue
  <2>2. dueAt[j] \in Nat /\ now[w] \in Nat /\ clock \in Nat
    BY <1>2, <2>1 DEF TimerTypeOK
  <2>3. dueAt[j] <= clock
    BY <2>1, <2>2
  <2> QED
    BY <1>3, <2>1, <2>3 DEF NeverEarly
<1>12. \A v \in Worker : \A i, k \in DOMAIN due'[v] : due'[v][i] = due'[v][k] => i = k
  <2>1. \A i, k \in DOMAIN Tail(s) : Tail(s)[i] = Tail(s)[k] => i = k
    BY <1>2, <1>4
  <2> QED
    BY <1>3, <2>1
<1> QED
  BY <1>3, <1>7, <1>8, <1>9, <1>10, <1>11, <1>12

\* The sequences that Collect may build of a set have each of its elements once.
LEMMA SeqsOfSet ==
    ASSUME NEW S, IsFiniteSet(S), NEW s \in SetToSeqs(S)
    PROVE  /\ s \in Seq(S)
           /\ \A i, k \in DOMAIN s : s[i] = s[k] => i = k
           /\ \A x : x \in S <=> \E i \in DOMAIN s : s[i] = x
<1> DEFINE n == Cardinality(S)
<1>1. n \in Nat /\ IsFiniteSet(1..n) /\ Cardinality(1..n) = n
  BY FS_CardinalityType, FS_Interval
<1>2. s \in [1..n -> S] /\ \A i, k \in 1..n : i # k => s[i] # s[k]
  BY DEF SetToSeqs
<1> HIDE DEF n
<1>3. s \in Injection(1..n, S)
  BY <1>2 DEF Injection, IsInjective
<1>4. s \in Surjection(1..n, S)
  BY <1>1, <1>3, FS_Injection DEF n
<1>5. \A x \in S : \E i \in 1..n : s[i] = x
  BY <1>4 DEF Surjection
<1>6. s \in Seq(S)
  BY <1>1, <1>2
<1> QED
  BY <1>2, <1>5, <1>6

\* What is due moves from the heap to the vector of the one distributor.
LEMMA CollectTInv ==
    ASSUME TInv, IInv', NEW w \in Worker, Collect(w)
    PROVE  TInv'
<1> USE TimedJobs DEF TInv
<1> DEFINE D == DueNow(w)
<1>1. /\ D \subseteq heap /\ heap \subseteq TimedJob /\ IsFiniteSet(D)
      /\ \A j \in D : dueAt[j] # None /\ dueAt[j] <= now[w]
  BY FS_Subset DEF DueNow, TimerTypeOK, OnePlace
<1>2. PICK s \in SetToSeqs(D) : due' = [due EXCEPT ![w] = s]
  BY DEF Collect
<1>3. /\ UNCHANGED <<vars, clock, dueAt, distributing, now>> /\ heap' = heap \ D
      /\ due[w] = <<>>
      /\ stage[w] = "collecting"
      /\ stage' \in [Worker -> Stage]
      /\ \A v \in Worker : stage'[v] = IF v = w THEN "unlocking" ELSE stage[v]
  BY DEF Collect, Rounds, TimerTypeOK, Stage
<1> HIDE DEF D
<1>4. /\ s \in Seq(D)
      /\ \A i, k \in DOMAIN s : s[i] = s[k] => i = k
      /\ \A x : x \in D <=> \E i \in DOMAIN s : s[i] = x
  BY <1>1, SeqsOfSet
<1>5. s \in Seq(TimedJob)
  <2>1. s \in [1..Len(s) -> D] /\ Len(s) \in Nat
    BY <1>4
  <2>2. s \in [1..Len(s) -> TimedJob]
    BY <1>1, <2>1
  <2> QED
    BY <2>1, <2>2
<1>6. /\ due' \in [Worker -> Seq(TimedJob)]
      /\ \A v \in Worker : due'[v] = IF v = w THEN s ELSE due[v]
  BY <1>2, <1>5 DEF TimerTypeOK
<1>7. \A v \in Worker, j \in TimedJob : Holds(v, j)' <=> IF v = w THEN j \in D ELSE Holds(v, j)
  BY <1>4, <1>6 DEF Holds
<1>8. \A j \in TimedJob : ~Holds(w, j)
  BY <1>3 DEF Holds
<1>9. TimerTypeOK'
  BY <1>3, <1>6 DEF TimerTypeOK, IInv
<1>10. IsFiniteSet(heap')
  BY <1>3, FS_Subset
<1>11. OneDistributor' /\ Rounds'
  BY <1>3, <1>6 DEF OneDistributor, Distributes, Rounds, vars
<1>12. HeldIsDue'
  BY <1>1, <1>3, <1>7 DEF HeldIsDue
<1>13. OnePlace'
  BY <1>1, <1>3, <1>7, <1>8 DEF OnePlace, vars
<1>14. NeverEarly'
  BY <1>3 DEF NeverEarly, vars
<1>15. \A v \in Worker : \A i, k \in DOMAIN due'[v] : due'[v][i] = due'[v][k] => i = k
  BY <1>4, <1>6
<1> QED
  BY <1>3, <1>9, <1>10, <1>11, <1>12, <1>13, <1>14, <1>15

(***************************************************************************)
(* The theorems                                                            *)
(***************************************************************************)

\* Every step of the pool with timers keeps the invariant.
LEMMA TimedInductive == TInv /\ [TNext]_allVars => TInv'
<1> SUFFICES ASSUME TInv, [TNext]_allVars PROVE TInv'
  OBVIOUS
<1>1. IInv'
  BY TimedStepIsAStep, Inductive DEF TInv
<1>2. CASE UNCHANGED allVars
  <2>1. UNCHANGED timerVars /\ issued' = issued /\ phase' = phase /\ TypeOK'
    BY <1>1, <1>2 DEF allVars, vars, IInv
  <2>2. OneDistributor' /\ Rounds'
    BY <2>1 DEF timerVars, TInv, OneDistributor, Distributes, Rounds
  <2> QED
    BY <1>1, <2>1, <2>2, NothingMovesTInv DEF timerVars, TInv, TimerTypeOK
<1>3. CASE Tick
  BY <1>1, <1>3, TickTInv
<1>4. ASSUME NEW w \in Worker, WorkerStep(w) PROVE TInv'
  BY <1>1, <1>4, DrainTInv, RoundsTInv, CollectTInv, PushDueTInv DEF WorkerStep
<1>5. ASSUME NEW w \in Worker, NEW j \in TimedJob, Reserve(w, j) PROVE TInv'
  BY <1>1, <1>5, ReserveTInv
<1>6. ASSUME NEW w \in Worker, NEW j \in Job \ TimedJob, PushNow(w, j) PROVE TInv'
  BY <1>1, <1>6, PushNowTInv
<1> QED
  BY <1>2, <1>3, <1>4, <1>5, <1>6 DEF TNext

\* Every reachable state of the pool with timers satisfies the invariant.
THEOREM TimedInvariant == TSpec => []TInv
BY TInitTInv, TimedInductive, PTL DEF TSpec

\* A pool whose workers also distribute timers takes only steps of the pool
\* without: Distribute hands its timers over by JobQueue::Push, like anybody.
THEOREM TimedPoolIsAPool == TSpec => Init /\ [][Next]_vars
<1>1. TInit => Init
  BY DEF TInit
<1>2. TInv /\ [TNext]_allVars => [Next]_vars
  BY TimedStepIsAStep DEF TInv
<1> QED
  BY <1>1, <1>2, TimedInvariant, PTL DEF TSpec

\* So at most one worker runs the jobs of a queue here too, also when one of
\* them reached the queue from the vector of a distributor.
THEOREM TimedMutualExclusion == TSpec => []OneWorkerPerQueue
<1>1. TInv => OneWorkerPerQueue
  BY DEF TInv, IInv, TypeOK, Ownership, Drains, OneWorkerPerQueue
<1> QED
  BY <1>1, TimedInvariant, PTL

\* No timer reaches its queue before its due time, whatever time passes between
\* the reading of the clock, the collection and the push.
THEOREM TimersAreNeverEarly == TSpec => []NeverEarly
<1>1. TInv => NeverEarly
  BY DEF TInv
<1> QED
  BY <1>1, TimedInvariant, PTL

\* A reserved timer is in exactly one place, the heap, the vector of one
\* distributor, or the queues, although the flag is dropped before the vector
\* is pushed and others may distribute meanwhile.
THEOREM TimersAreReservedOnce == TSpec => []ReservedOnce
<1>1. ASSUME TInv, NEW j \in TimedJob
      PROVE  Cardinality({w \in Worker : \E i \in DOMAIN due[w] : due[w][i] = j})
                 + (IF j \in heap THEN 1 ELSE 0) + (IF j \in issued THEN 1 ELSE 0)
             = (IF dueAt[j] = None THEN 0 ELSE 1)
  <2> DEFINE H == {w \in Worker : \E i \in DOMAIN due[w] : due[w][i] = j}
  <2>1. /\ j \in heap => j \notin issued /\ H = {}
        /\ \A w \in H : j \notin issued /\ H = {w}
        /\ j \in heap \/ j \in issued \/ H # {} <=> dueAt[j] # None
    BY <1>1 DEF TInv, OnePlace, Holds
  <2>2. CASE H = {}
    <3>1. Cardinality(H) = 0
      BY <2>2, FS_EmptySet
    <3> HIDE DEF H
    <3>2. Cardinality(H) + (IF j \in heap THEN 1 ELSE 0) + (IF j \in issued THEN 1 ELSE 0)
          = (IF dueAt[j] = None THEN 0 ELSE 1)
      BY <2>1, <2>2, <3>1
    <3> QED
      BY <3>2 DEF H
  <2>3. CASE H # {}
    <3>1. PICK w : w \in H
      BY <2>3
    <3>2. Cardinality(H) = 1
      BY <2>1, <3>1, FS_Singleton
    <3> HIDE DEF H
    <3>3. Cardinality(H) + (IF j \in heap THEN 1 ELSE 0) + (IF j \in issued THEN 1 ELSE 0)
          = (IF dueAt[j] = None THEN 0 ELSE 1)
      BY <2>1, <2>3, <3>1, <3>2
    <3> QED
      BY <3>3 DEF H
  <2> QED
    BY <2>2, <2>3
<1>2. TInv => ReservedOnce
  BY <1>1 DEF ReservedOnce
<1> QED
  BY <1>2, TimedInvariant, PTL
=============================================================================
