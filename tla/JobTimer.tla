------------------------------ MODULE JobTimer ------------------------------
(***************************************************************************)
(* JobTimer on top of the worker pool: DoTimer puts a job in a min-heap    *)
(* and, once per PumpOnce, one worker at a time moves what is due to the   *)
(* queues the jobs belong to.  Rooms, instances and links use it for every *)
(* timeout, sweep, heartbeat, reconnect and game tick.                     *)
(*                                                                         *)
(* The queue machinery is JobQueue's own, action for action; this module   *)
(* adds the stretch of PumpOnce between Dispatch and the global queue.     *)
(***************************************************************************)
EXTENDS JobQueue, SequencesExt

CONSTANTS
    TimedJob,   \* jobs handed to DoTimer; the others are pushed directly
    Delay,      \* delayMs of each timed job, in clock steps
    MaxTick     \* bound on the clock

ASSUME JobTimerAssumption ==
    /\ TimedJob \subseteq Job
    /\ Delay \in [TimedJob -> Nat]
    /\ MaxTick \in Nat
    /\ None \notin Nat

VARIABLES
    clock,          \* NowTick()
    dueAt,          \* executeTick of each reserved job, None before Reserve
    heap,           \* _items
    distributing,   \* _distributing
    stage,          \* where in Distribute a worker is
    now,            \* the argument Distribute was called with
    due             \* the worker's local vector of due jobs

heapVars == <<dueAt, heap>>
stageVars == <<distributing, stage, now, due>>
timerVars == <<clock, dueAt, heap, distributing, stage, now, due>>
allVars == <<vars, timerVars>>

Stage == {"before", "trying", "collecting", "unlocking", "pushing", "after"}

TimerTypeOK ==
    /\ TypeOK
    /\ clock \in 0..MaxTick
    /\ dueAt \in [TimedJob -> Nat \cup {None}]
    /\ heap \in SUBSET TimedJob
    /\ distributing \in BOOLEAN
    /\ stage \in [Worker -> Stage]
    /\ now \in [Worker -> 0..MaxTick]
    /\ due \in [Worker -> Seq(TimedJob)]

TInit ==
    /\ Init
    /\ clock = 0
    /\ dueAt = [j \in TimedJob |-> None]
    /\ heap = {}
    /\ distributing = FALSE
    /\ stage = [w \in Worker |-> "before"]
    /\ now = [w \in Worker |-> 0]
    /\ due = [w \in Worker |-> <<>>]
-----------------------------------------------------------------------------
\* Code that runs on behalf of a completion or of a job.
InHandler(w) ==
    \/ pc[w] = "free" /\ phase[w] = "dispatch" /\ stage[w] = "before"
    \/ pc[w] = "run"

\* JobTimer::Reserve: the due time is fixed when DoTimer is called.
Reserve(w, j) ==
    /\ InHandler(w)
    /\ dueAt[j] = None
    /\ clock + Delay[j] <= MaxTick    \* bound: nothing falls due beyond the clock
    /\ dueAt' = [dueAt EXCEPT ![j] = clock + Delay[j]]
    /\ heap' = heap \cup {j}
    /\ UNCHANGED <<vars, clock, stageVars>>

\* PumpOnce evaluates NowTick() for the call.
CallDistribute(w) ==
    /\ pc[w] = "free" /\ phase[w] = "dispatch" /\ stage[w] = "before"
    /\ now' = [now EXCEPT ![w] = clock]
    /\ stage' = [stage EXCEPT ![w] = "trying"]
    /\ UNCHANGED <<vars, clock, heapVars, distributing, due>>

\* The compare-exchange: a second distributor skips the attempt.
TryDistribute(w) ==
    /\ stage[w] = "trying"
    /\ distributing' = TRUE
    /\ stage' = [stage EXCEPT ![w] = IF distributing THEN "after" ELSE "collecting"]
    /\ UNCHANGED <<vars, clock, heapVars, now, due>>

\* Wrong: the item that ends the loop popped before it is compared.
DueAndNext(w) ==
    {j \in heap : \A k \in heap : dueAt[k] > now[w] => dueAt[j] <= dueAt[k]}

DueNow(w) == {j \in heap : dueAt[j] <= now[w]}

\* Pops from the heap come earliest first; jobs due together, in any order.
EarliestFirst(s) == \A i, k \in DOMAIN s : i < k => dueAt[s[i]] <= dueAt[s[k]]

\* Wrong: the due items copied and left in the heap.
CollectCopies(w) ==
    /\ stage[w] = "collecting"
    /\ \E s \in SetToSeqs(DueNow(w)) :
          EarliestFirst(s) /\ due' = [due EXCEPT ![w] = s]
    /\ stage' = [stage EXCEPT ![w] = "unlocking"]
    /\ UNCHANGED <<vars, clock, heapVars, distributing, now>>

Collect(w) ==
    /\ stage[w] = "collecting"
    /\ \E s \in SetToSeqs(DueNow(w)) :
          EarliestFirst(s) /\ due' = [due EXCEPT ![w] = s]
    /\ heap' = heap \ DueNow(w)
    /\ stage' = [stage EXCEPT ![w] = "unlocking"]
    /\ UNCHANGED <<vars, clock, dueAt, distributing, now>>

\* Wrong: the flag left set.
NeverStopDistributing(w) ==
    /\ stage[w] = "unlocking"
    /\ stage' = [stage EXCEPT ![w] = "pushing"]
    /\ UNCHANGED <<vars, clock, heapVars, distributing, now, due>>

\* The flag is dropped before the due jobs are pushed.
StopDistributing(w) ==
    /\ stage[w] = "unlocking"
    /\ distributing' = FALSE
    /\ stage' = [stage EXCEPT ![w] = "pushing"]
    /\ UNCHANGED <<vars, clock, heapVars, now, due>>

\* item.owner->Push(item.job) for the next due item; the push may drain the
\* queue on this thread before the loop goes on.
PushDue(w) ==
    /\ pc[w] = "free" /\ stage[w] = "pushing" /\ due[w] # <<>>
    /\ BeginPush(w, Head(due[w]))
    /\ due' = [due EXCEPT ![w] = Tail(@)]
    /\ UNCHANGED <<clock, heapVars, distributing, stage, now>>

DistributeDone(w) ==
    /\ pc[w] = "free" /\ stage[w] = "pushing" /\ due[w] = <<>>
    /\ stage' = [stage EXCEPT ![w] = "after"]
    /\ UNCHANGED <<vars, clock, heapVars, distributing, now, due>>
-----------------------------------------------------------------------------
PushNow(w, j) ==
    /\ InHandler(w)
    /\ BeginPush(w, j)
    /\ UNCHANGED timerVars

\* Wrong: straight back to the completion port.
SkipPump(w) ==
    /\ stage[w] = "after"
    /\ pc[w] = "free"
    /\ stage' = [stage EXCEPT ![w] = "before"]
    /\ UNCHANGED <<vars, clock, heapVars, distributing, now, due>>

EnterPumpAfterTimers(w) ==
    /\ stage[w] = "after"
    /\ EnterPump(w)
    /\ UNCHANGED timerVars

NextPumpOnce(w) ==
    /\ LeavePump(w)
    /\ stage' = [stage EXCEPT ![w] = "before"]
    /\ UNCHANGED <<clock, heapVars, distributing, now, due>>

DrainStep(w) ==
    /\ \/ AppendJob(w) \/ Park(w)
       \/ PopAll(w) \/ FinishJob(w)
       \/ Release(w) \/ KeepDraining(w) \/ Yield(w)
       \/ TakeParked(w)
    /\ UNCHANGED timerVars

Tick ==
    /\ clock < MaxTick
    /\ clock' = clock + 1
    /\ UNCHANGED <<vars, heapVars, stageVars>>

WorkerStep(w) ==
    \/ DrainStep(w)
    \/ CallDistribute(w) \/ TryDistribute(w) \/ Collect(w)
    \/ StopDistributing(w) \/ PushDue(w) \/ DistributeDone(w)
    \/ EnterPumpAfterTimers(w) \/ NextPumpOnce(w)

TNext ==
    \/ Tick
    \/ \E w \in Worker :
          \/ WorkerStep(w)
          \/ \E j \in TimedJob : Reserve(w, j)
          \/ \E j \in Job \ TimedJob : PushNow(w, j)

\* Threads are scheduled and time passes.
TSpec ==
    /\ TInit /\ [][TNext]_allVars
    /\ WF_allVars(Tick)
    /\ \A w \in Worker : WF_allVars(WorkerStep(w))
-----------------------------------------------------------------------------
\* No timed job is handed to its queue before its due time: a handoff is not
\* swept early and a reconnect is not dialled early.
NeverEarly == \A j \in TimedJob \cap issued : dueAt[j] # None /\ dueAt[j] <= clock

\* A reserved job is in exactly one place until it is handed to its queue: the
\* heap, or the vector of one distributor that has yet to push it.  A second
\* distributor that runs while the first still holds its vector can neither
\* take the job again nor make it disappear.
ReservedOnce ==
    \A j \in TimedJob :
        Cardinality({w \in Worker : \E i \in DOMAIN due[w] : due[w][i] = j})
            + (IF j \in heap THEN 1 ELSE 0)
            + (IF j \in issued THEN 1 ELSE 0)
        = (IF dueAt[j] = None THEN 0 ELSE 1)

\* Every reserved job runs, even when every worker but one skips distribution.
TimerFires == \A j \in TimedJob : dueAt[j] # None ~> j \in finished

\* The pool with timers is still the pool of JobQueue.tla, fairness included,
\* so whatever is proved there holds here.
PoolSpec == Spec

\* JobQueue.h:91-92: ordering relative to other timers on the same queue is by
\* due time.  A timer that has run had no earlier timer of its queue before it
\* still waiting.
RunByDueTime ==
    \A i, j \in TimedJob :
        /\ TargetOf[i] = TargetOf[j]
        /\ dueAt[i] # None /\ dueAt[j] # None
        /\ dueAt[i] < dueAt[j]
        /\ j \in finished
        => i \in finished
=============================================================================
