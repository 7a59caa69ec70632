------------------------------ MODULE JobQueue ------------------------------
(***************************************************************************)
(* The serialisation primitive of the servers: JobQueue::Push and Execute, *)
(* the GlobalQueue of parked queues, and the part of PumpOnce that drains  *)
(* it.  Every room, chat channel and instance is a JobQueue, so all of the *)
(* game logic relies on one worker at a time running the jobs of a queue.  *)
(*                                                                         *)
(* A step is one access to state that workers share: an atomic             *)
(* read-modify-write on _jobCount, one locked operation on a LockQueue, or *)
(* the end of a job body.  Thread-local work is folded into the step       *)
(* before it.                                                              *)
(***************************************************************************)
EXTENDS Integers, Sequences, FiniteSets

CONSTANTS
    Worker,     \* the threads of the pool, each running PumpOnce for ever
    Queue,      \* the JobQueue objects
    Job,        \* the jobs that may be pushed, each at most once
    TargetOf,   \* the queue a job is pushed to
    None        \* the null pointer

ASSUME JobQueueAssumption ==
    /\ IsFiniteSet(Worker)
    /\ TargetOf \in [Job -> Queue]
    /\ None \notin Queue
    /\ None \notin Job

VARIABLES
    jobCount,   \* _jobCount of each queue: jobs accounted for and not retired
    jobs,       \* _jobs of each queue: the locked list
    parked,     \* GGlobalQueue: claimed queues no worker is draining
    phase,      \* where in PumpOnce a worker is
    pc,         \* where in Push or Execute a worker is; "free" when in neither
    current,    \* tCurrentJobQueue
    batch,      \* the popped jobs still to run; the head is running
    popped,     \* jobCount inside Execute: the size of the popped batch
    pushing,    \* the job of the Push call in progress
    previous,   \* previousCount of that call: 0 makes it the claimer
    handing,    \* the claimed queue about to go to the global queue
    issued,     \* jobs some Push call has been made for
    finished    \* jobs whose body has returned

queueVars == <<jobCount, jobs, parked>>
pushVars == <<pushing, previous, issued>>
drainVars == <<current, batch, popped>>
vars == <<jobCount, jobs, parked, phase, pc, current, batch, popped,
          pushing, previous, handing, issued, finished>>

Phase == {"dispatch", "pump", "pumped"}
PC == {"free", "append", "park", "pop", "run", "retire"}

TypeOK ==
    /\ jobCount \in [Queue -> Nat]
    /\ jobs \in [Queue -> Seq(Job)]
    /\ parked \in Seq(Queue)
    /\ phase \in [Worker -> Phase]
    /\ pc \in [Worker -> PC]
    /\ current \in [Worker -> Queue \cup {None}]
    /\ batch \in [Worker -> Seq(Job)]
    /\ popped \in [Worker -> Nat]
    /\ pushing \in [Worker -> Job \cup {None}]
    /\ previous \in [Worker -> Nat]
    /\ handing \in [Worker -> Queue \cup {None}]
    /\ issued \in SUBSET Job
    /\ finished \in SUBSET Job

Init ==
    /\ jobCount = [q \in Queue |-> 0]
    /\ jobs = [q \in Queue |-> <<>>]
    /\ parked = <<>>
    /\ phase = [w \in Worker |-> "dispatch"]
    /\ pc = [w \in Worker |-> "free"]
    /\ current = [w \in Worker |-> None]
    /\ batch = [w \in Worker |-> <<>>]
    /\ popped = [w \in Worker |-> 0]
    /\ pushing = [w \in Worker |-> None]
    /\ previous = [w \in Worker |-> 0]
    /\ handing = [w \in Worker |-> None]
    /\ issued = {}
    /\ finished = {}
-----------------------------------------------------------------------------
(***************************************************************************)
(* JobQueue::Push                                                          *)
(***************************************************************************)

\* Where a Push call returns to: the job body that made it, or the code
\* Dispatch called.
Caller(w) == IF current[w] = None THEN "free" ELSE "run"

\* The fetch_add.  A completion handler pushes during Dispatch; a job body
\* pushes while its queue is drained.
BeginPush(w, j) ==
    /\ \/ pc[w] = "free" /\ phase[w] = "dispatch"
       \/ pc[w] = "run"
    /\ j \notin issued
    /\ issued' = issued \cup {j}
    /\ previous' = [previous EXCEPT ![w] = jobCount[TargetOf[j]]]
    /\ jobCount' = [jobCount EXCEPT ![TargetOf[j]] = @ + 1]
    /\ pushing' = [pushing EXCEPT ![w] = j]
    /\ pc' = [pc EXCEPT ![w] = "append"]
    /\ UNCHANGED <<jobs, parked, phase, drainVars, handing, finished>>

\* The locked append, and what the caller owes the queue if it claimed it:
\* nothing when somebody else did, a drain when this worker is free to drain,
\* a place in the global queue when it is already draining another.
AppendJob(w) ==
    LET q == TargetOf[pushing[w]] IN
    /\ pc[w] = "append"
    /\ jobs' = [jobs EXCEPT ![q] = Append(@, pushing[w])]
    /\ pushing' = [pushing EXCEPT ![w] = None]
    /\ previous' = [previous EXCEPT ![w] = 0]
    /\ \/ /\ previous[w] # 0
          /\ pc' = [pc EXCEPT ![w] = Caller(w)]
          /\ UNCHANGED <<current, handing>>
       \/ /\ previous[w] = 0 /\ current[w] = None
          /\ current' = [current EXCEPT ![w] = q]
          /\ pc' = [pc EXCEPT ![w] = "pop"]
          /\ UNCHANGED handing
       \/ /\ previous[w] = 0 /\ current[w] # None
          /\ handing' = [handing EXCEPT ![w] = q]
          /\ pc' = [pc EXCEPT ![w] = "park"]
          /\ UNCHANGED current
    /\ UNCHANGED <<jobCount, parked, phase, batch, popped, issued, finished>>

\* GGlobalQueue->Push, from Push when the worker is busy and from Execute when
\* its slice is spent.
Park(w) ==
    /\ pc[w] = "park"
    /\ parked' = Append(parked, handing[w])
    /\ handing' = [handing EXCEPT ![w] = None]
    /\ pc' = [pc EXCEPT ![w] = Caller(w)]
    /\ UNCHANGED <<jobCount, jobs, phase, drainVars, pushVars, finished>>
-----------------------------------------------------------------------------
(***************************************************************************)
(* JobQueue::Execute                                                       *)
(***************************************************************************)

\* Wrong: the list drained as a stack.
PopAllNewestFirst(w) ==
    LET q == current[w] IN
    /\ pc[w] = "pop"
    /\ batch' = [batch EXCEPT ![w] = [i \in DOMAIN jobs[q] |-> jobs[q][Len(jobs[q]) + 1 - i]]]
    /\ popped' = [popped EXCEPT ![w] = Len(jobs[q])]
    /\ jobs' = [jobs EXCEPT ![q] = <<>>]
    /\ pc' = [pc EXCEPT ![w] = IF jobs[q] = <<>> THEN "retire" ELSE "run"]
    /\ UNCHANGED <<jobCount, parked, phase, current, pushVars, handing, finished>>

\* Wrong: the size of the round read from the counter, not from the list.
PopAllByCounter(w) ==
    LET q == current[w] IN
    /\ pc[w] = "pop"
    /\ batch' = [batch EXCEPT ![w] = jobs[q]]
    /\ popped' = [popped EXCEPT ![w] = jobCount[q]]
    /\ jobs' = [jobs EXCEPT ![q] = <<>>]
    /\ pc' = [pc EXCEPT ![w] = IF jobs[q] = <<>> THEN "retire" ELSE "run"]
    /\ UNCHANGED <<jobCount, parked, phase, current, pushVars, handing, finished>>

\* Wrong: the jobs retired when they are popped, before they run.
PopAllRetiring(w) ==
    LET q == current[w] IN
    /\ pc[w] = "pop"
    /\ batch' = [batch EXCEPT ![w] = jobs[q]]
    /\ popped' = [popped EXCEPT ![w] = 0]
    /\ jobs' = [jobs EXCEPT ![q] = <<>>]
    /\ jobCount' = [jobCount EXCEPT ![q] = @ - Len(jobs[q])]
    /\ pc' = [pc EXCEPT ![w] = IF jobs[q] = <<>> THEN "retire" ELSE "run"]
    /\ UNCHANGED <<parked, phase, current, pushVars, handing, finished>>

\* PopAll.  It may find nothing: the count is raised before the list is.
PopAll(w) ==
    LET q == current[w] IN
    /\ pc[w] = "pop"
    /\ batch' = [batch EXCEPT ![w] = jobs[q]]
    /\ popped' = [popped EXCEPT ![w] = Len(jobs[q])]
    /\ jobs' = [jobs EXCEPT ![q] = <<>>]
    /\ pc' = [pc EXCEPT ![w] = IF jobs[q] = <<>> THEN "retire" ELSE "run"]
    /\ UNCHANGED <<jobCount, parked, phase, current, pushVars, handing, finished>>

\* Wrong: a job retired when it returns, and again with its batch.
FinishAndRetireJob(w) ==
    /\ pc[w] = "run"
    /\ finished' = finished \cup {Head(batch[w])}
    /\ batch' = [batch EXCEPT ![w] = Tail(@)]
    /\ jobCount' = [jobCount EXCEPT ![current[w]] = @ - 1]
    /\ pc' = [pc EXCEPT ![w] = IF Tail(batch[w]) = <<>> THEN "retire" ELSE "run"]
    /\ UNCHANGED <<jobs, parked, phase, current, popped, pushVars, handing>>

\* The body of the running job returns and the next of the batch starts.
FinishJob(w) ==
    /\ pc[w] = "run"
    /\ finished' = finished \cup {Head(batch[w])}
    /\ batch' = [batch EXCEPT ![w] = Tail(@)]
    /\ pc' = [pc EXCEPT ![w] = IF Tail(batch[w]) = <<>> THEN "retire" ELSE "run"]
    /\ UNCHANGED <<queueVars, phase, current, popped, pushVars, handing>>

\* The fetch_sub that ends a round, common to its three outcomes.
Retire(w) ==
    /\ pc[w] = "retire"
    /\ jobCount' = [jobCount EXCEPT ![current[w]] = @ - popped[w]]
    /\ popped' = [popped EXCEPT ![w] = 0]
    /\ UNCHANGED <<jobs, parked, batch, pushVars, finished>>

\* PumpOnce looks at the clock whenever a drain it started returns.
AfterDrain(w) == IF phase[w] = "pump" THEN "pumped" ELSE phase[w]

\* Wrong: the queue let go of whatever the counter said.
ReleaseAlways(w) ==
    /\ Retire(w)
    /\ current' = [current EXCEPT ![w] = None]
    /\ pc' = [pc EXCEPT ![w] = "free"]
    /\ phase' = [phase EXCEPT ![w] = AfterDrain(w)]
    /\ UNCHANGED handing

\* Nothing arrived meanwhile: the queue is released to the next pusher.
Release(w) ==
    /\ Retire(w)
    /\ jobCount[current[w]] = popped[w]
    /\ current' = [current EXCEPT ![w] = None]
    /\ pc' = [pc EXCEPT ![w] = "free"]
    /\ phase' = [phase EXCEPT ![w] = AfterDrain(w)]
    /\ UNCHANGED handing

\* More work arrived and the slice is not spent.
KeepDraining(w) ==
    /\ Retire(w)
    /\ jobCount[current[w]] # popped[w]
    /\ pc' = [pc EXCEPT ![w] = "pop"]
    /\ UNCHANGED <<current, handing, phase>>

\* Wrong: the spent slice ends the drain and the queue is not parked.
YieldUnparked(w) ==
    /\ Retire(w)
    /\ jobCount[current[w]] # popped[w]
    /\ current' = [current EXCEPT ![w] = None]
    /\ pc' = [pc EXCEPT ![w] = "free"]
    /\ phase' = [phase EXCEPT ![w] = AfterDrain(w)]
    /\ UNCHANGED handing

\* More work arrived but the slice is spent: the claim goes to the global queue.
Yield(w) ==
    /\ Retire(w)
    /\ jobCount[current[w]] # popped[w]
    /\ handing' = [handing EXCEPT ![w] = current[w]]
    /\ current' = [current EXCEPT ![w] = None]
    /\ pc' = [pc EXCEPT ![w] = "park"]
    /\ phase' = [phase EXCEPT ![w] = AfterDrain(w)]
-----------------------------------------------------------------------------
(***************************************************************************)
(* ThreadManager::PumpOnce: completions, then parked queues until there    *)
(* are none or the slice is spent, which is looked at after each drain.    *)
(***************************************************************************)

EnterPump(w) ==
    /\ pc[w] = "free" /\ phase[w] = "dispatch"
    /\ phase' = [phase EXCEPT ![w] = "pump"]
    /\ UNCHANGED <<queueVars, pc, drainVars, pushVars, handing, finished>>

TakeParked(w) ==
    /\ pc[w] = "free" /\ phase[w] \in {"pump", "pumped"}
    /\ parked # <<>>
    /\ current' = [current EXCEPT ![w] = Head(parked)]
    /\ parked' = Tail(parked)
    /\ phase' = [phase EXCEPT ![w] = "pump"]
    /\ pc' = [pc EXCEPT ![w] = "pop"]
    /\ UNCHANGED <<jobCount, jobs, batch, popped, pushVars, handing, finished>>

LeavePump(w) ==
    /\ pc[w] = "free"
    /\ \/ phase[w] = "pump" /\ parked = <<>>
       \/ phase[w] = "pumped"
    /\ phase' = [phase EXCEPT ![w] = "dispatch"]
    /\ UNCHANGED <<queueVars, pc, drainVars, pushVars, handing, finished>>
-----------------------------------------------------------------------------
\* What a worker does without anything new being asked of it.
Step(w) ==
    \/ AppendJob(w) \/ Park(w)
    \/ PopAll(w) \/ FinishJob(w)
    \/ Release(w) \/ KeepDraining(w) \/ Yield(w)
    \/ EnterPump(w) \/ TakeParked(w) \/ LeavePump(w)

Next == \E w \in Worker : Step(w) \/ \E j \in Job : BeginPush(w, j)

\* The operating system schedules every thread of the pool.
Fairness == \A w \in Worker : WF_vars(Step(w))

Spec == Init /\ [][Next]_vars /\ Fairness
-----------------------------------------------------------------------------
(***************************************************************************)
(* Who answers for a queue                                                 *)
(***************************************************************************)

Drains(w, q) == current[w] = q
Claims(w, q) ==
    \/ previous[w] = 0 /\ pushing[w] # None /\ TargetOf[pushing[w]] = q
    \/ handing[w] = q

\* The places that answer for a queue: workers that drain it, workers that
\* claimed it and have yet to drain or park it, entries of the global queue.
Answering(q) ==
    {<<"drains", w>> : w \in {v \in Worker : Drains(v, q)}}
        \cup {<<"claims", w>> : w \in {v \in Worker : Claims(v, q)}}
        \cup {<<"parked", i>> : i \in {k \in DOMAIN parked : parked[k] = q}}

\* Push calls between the fetch_add and the append.
Appending(q) == {w \in Worker : pushing[w] # None /\ TargetOf[pushing[w]] = q}

\* At most one worker runs the jobs of a queue at a time (JobQueue.h:75-77):
\* without it two handlers of one room would interleave.
OneWorkerPerQueue ==
    \A w, v \in Worker : current[w] # None /\ current[w] = current[v] => w = v

\* A queue with work accounted for is answered for in exactly one place, and an
\* idle one in none, so that the next pusher, and only it, claims it.  Two
\* places would be two drains; no place would be jobs nobody ever runs.
AnsweredForOnce ==
    \A q \in Queue :
        IF jobCount[q] = 0 THEN Answering(q) = {} ELSE \E a \in Answering(q) : Answering(q) = {a}

CountExact(q) ==
    /\ \A w \in Worker : Drains(w, q) =>
          jobCount[q] = Len(jobs[q]) + Cardinality(Appending(q)) + popped[w]
    /\ (\A w \in Worker : ~Drains(w, q)) =>
          jobCount[q] = Len(jobs[q]) + Cardinality(Appending(q))

\* _jobCount is what is in the list, what is on its way into it, and what the
\* worker draining the queue has taken out and not yet retired.
CountIsExact == \A q \in Queue : CountExact(q)

\* Every job handed to Push eventually runs to its end, whichever worker the
\* queue travels through and however often a slice runs out on the way.
EveryJobRuns == \A j \in Job : j \in issued ~> j \in finished

(***************************************************************************)
(* The promise: a queue's backlog is what its drainer has still to run,    *)
(* followed by what is in the list.                                        *)
(***************************************************************************)
Backlog ==
    [q \in Queue |->
        IF \E w \in Worker : Drains(w, q)
        THEN batch[CHOOSE w \in Worker : Drains(w, q)] \o jobs[q]
        ELSE jobs[q]]

Serial == INSTANCE SerialExecutor WITH backlog <- Backlog
SerialSpec == Serial!Spec
=============================================================================
