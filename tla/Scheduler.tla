------------------------------ MODULE Scheduler ------------------------------
(***************************************************************************)
(* Orchid's scheduler instances (orchid/pkg/scheduler), the Redis locks    *)
(* they take per plan and config (orchid/pkg/redis/lock.go), and the row   *)
(* of plan_statistics that tells them when a plan is due.  A plan here is  *)
(* a plan+config pair.  Time appears as events: a lock's TTL passes, a     *)
(* plan's wait_seconds pass.  The job queue is JobQueue, reduced to how    *)
(* many jobs of each plan are queued or running.                           *)
(***************************************************************************)
EXTENDS Integers, Sequences, FiniteSets, FiniteSetsExt

CONSTANTS
    Plans,       \* plan+config pairs
    Schedulers,  \* scheduler instances
    Free,        \* a lock key that is not set
    BatchSize,   \* limit of ListSchedulablePlans
    MaxJobs,     \* bound: jobs of one plan at a time
    MaxFaults,   \* bound: crashes, failed calls and failed executions
    Toggles,     \* bound: plans that are enabled and disabled through the API
    Stops        \* bound: schedulers that are stopped

ASSUME SchedulerAssumptions ==
    /\ IsFiniteSet(Plans) /\ IsFiniteSet(Schedulers)
    /\ Free \notin Schedulers
    /\ BatchSize \in Nat \ {0}
    /\ MaxJobs \in Nat \ {0}
    /\ MaxFaults \in Nat
    /\ Toggles \subseteq Plans
    /\ Stops \subseteq Schedulers

VARIABLES
    enabled,   \* [Plans -> BOOLEAN], plans.enabled and configs.enabled
    recorded,  \* plans with a last_execution_at, the oldest first
    waiting,   \* plans whose wait_seconds since last_execution_at have not passed
    lock,      \* [Plans -> owner of the lock key]
    up,        \* [Schedulers -> "up", "stopping" or "down"]
    pc,        \* [Schedulers -> "idle", "acquire", "publish" or "release"]
    todo,      \* [Schedulers -> plans of the cycle not dealt with, in order]
    expired,   \* history: schedulers that lost a lock to its TTL while using it
    queued,    \* [Plans -> jobs in the stream]
    running,   \* [Plans -> executions in progress]
    faults

vars == <<enabled, recorded, waiting, lock, up, pc, todo, expired, queued, running, faults>>
statistics == <<recorded, waiting>>
jobs == <<queued, running>>

Init ==
    /\ enabled = [p \in Plans |-> TRUE]
    /\ recorded = <<>>
    /\ waiting = {}
    /\ lock = [p \in Plans |-> Free]
    /\ up = [s \in Schedulers |-> "up"]
    /\ pc = [s \in Schedulers |-> "idle"]
    /\ todo = [s \in Schedulers |-> <<>>]
    /\ expired = {}
    /\ queued = [p \in Plans |-> 0]
    /\ running = [p \in Plans |-> 0]
    /\ faults = 0

\* A call to Redis or the database fails, a plan fails, a process dies.
Fault ==
    /\ faults < MaxFaults
    /\ faults' = faults + 1

-----------------------------------------------------------------------------
(* ListSchedulablePlans *)

Due == {p \in Plans : enabled[p] /\ p \notin waiting}

Rank(p) == IF \E i \in DOMAIN recorded : recorded[i] = p
           THEN CHOOSE i \in DOMAIN recorded : recorded[i] = p
           ELSE 0

\* Mutant of InOrder: no ORDER BY.
AnyOrder(b) == TRUE

\* ORDER BY last_execution_at ASC NULLS FIRST; rows without one come in any
\* order.
InOrder(b) ==
    /\ \A i, j \in DOMAIN b : i < j => Rank(b[i]) <= Rank(b[j])
    /\ \A i \in DOMAIN b, p \in Due : p \in {b[j] : j \in DOMAIN b} \/ Rank(b[i]) <= Rank(p)

\* Every result the query may return.
Batches ==
    LET n == Min({BatchSize, Cardinality(Due)}) IN
    {b \in [1..n -> Due] : InOrder(b) /\ \A i, j \in 1..n : i # j => b[i] # b[j]}

-----------------------------------------------------------------------------
(* One scheduling cycle *)

Goto(s, rest) ==
    /\ todo' = [todo EXCEPT ![s] = rest]
    /\ pc' = [pc EXCEPT ![s] = IF rest = <<>> THEN "idle" ELSE "acquire"]

\* The ticker fires and the due plans are listed; a failed query ends the
\* cycle.  The select may choose the ticker although the stop channel is closed.
List(s) ==
    /\ up[s] # "down"
    /\ pc[s] = "idle"
    /\ \/ \E b \in Batches : Goto(s, b) /\ UNCHANGED faults
       \/ Fault /\ UNCHANGED <<pc, todo>>
    /\ UNCHANGED <<enabled, statistics, lock, up, expired, jobs>>

\* SET NX.  A plan that is locked, or an error, is skipped.
Acquire(s) ==
    /\ pc[s] = "acquire"
    /\ LET p == Head(todo[s]) IN
         \/ /\ lock[p] = Free
            /\ lock' = [lock EXCEPT ![p] = s]
            /\ pc' = [pc EXCEPT ![s] = "publish"]
            /\ UNCHANGED <<todo, faults>>
         \/ /\ (lock[p] # Free /\ UNCHANGED faults) \/ Fault
            /\ Goto(s, Tail(todo[s]))
            /\ UNCHANGED lock
    /\ UNCHANGED <<enabled, statistics, up, expired, jobs>>

\* XADD (up to the bound), or an error; either way the deferred release follows.
Publish(s) ==
    /\ pc[s] = "publish"
    /\ LET p == Head(todo[s]) IN
         \/ /\ queued' = [queued EXCEPT ![p] = IF @ + running[p] < MaxJobs THEN @ + 1 ELSE @]
            /\ UNCHANGED faults
         \/ Fault /\ UNCHANGED queued
    /\ pc' = [pc EXCEPT ![s] = "release"]
    /\ UNCHANGED <<enabled, statistics, lock, up, todo, expired, running>>

\* Mutant of Release: DEL without comparing the value.
ReleaseAnyones(s) ==
    /\ pc[s] = "release"
    /\ lock' = [lock EXCEPT ![Head(todo[s])] = Free]
    /\ Goto(s, Tail(todo[s]))
    /\ expired' = expired \ {s}
    /\ UNCHANGED <<enabled, statistics, up, jobs, faults>>

\* The script deletes the key when it still holds this lock's value; the error
\* of a failed call is dropped.
Release(s) ==
    /\ pc[s] = "release"
    /\ LET p == Head(todo[s]) IN
         \/ lock' = [lock EXCEPT ![p] = IF @ = s THEN Free ELSE @] /\ UNCHANGED faults
         \/ Fault /\ UNCHANGED lock
    /\ Goto(s, Tail(todo[s]))
    /\ expired' = expired \ {s}
    /\ UNCHANGED <<enabled, statistics, up, jobs>>

Uses(s, p) == pc[s] \in {"publish", "release"} /\ Head(todo[s]) = p

\* The TTL of a lock passes, whether its holder is slow or gone.
Expire(p) ==
    /\ lock[p] # Free
    /\ lock' = [lock EXCEPT ![p] = Free]
    /\ expired' = IF Uses(lock[p], p) THEN expired \union {lock[p]} ELSE expired
    /\ UNCHANGED <<enabled, statistics, up, pc, todo, jobs, faults>>

\* A scheduler dies and is started again; its lock stays in Redis.
Crash(s) ==
    /\ up[s] = "up"
    /\ Fault
    /\ pc' = [pc EXCEPT ![s] = "idle"]
    /\ todo' = [todo EXCEPT ![s] = <<>>]
    /\ expired' = expired \ {s}
    /\ UNCHANGED <<enabled, statistics, lock, up, jobs>>

\* Stop closes the stop channel; the poll loop sees it between two cycles.
Stop(s) ==
    /\ s \in Stops
    /\ up[s] = "up"
    /\ up' = [up EXCEPT ![s] = "stopping"]
    /\ UNCHANGED <<enabled, statistics, lock, pc, todo, expired, jobs, faults>>

Exit(s) ==
    /\ up[s] = "stopping"
    /\ pc[s] = "idle"
    /\ up' = [up EXCEPT ![s] = "down"]
    /\ UNCHANGED <<enabled, statistics, lock, pc, todo, expired, jobs, faults>>

-----------------------------------------------------------------------------
(* Executions, the API and time *)

\* A Processor takes a job of the plan.
Begin(p) ==
    /\ queued[p] > 0
    /\ queued' = [queued EXCEPT ![p] = @ - 1]
    /\ running' = [running EXCEPT ![p] = @ + 1]
    /\ UNCHANGED <<enabled, statistics, lock, up, pc, todo, expired, faults>>

\* RecordExecution: the upsert of last_execution_at, which moves p to the end.
Record(p) ==
    /\ recorded' = SubSeq(recorded, 1, Rank(p) - 1) \o SubSeq(recorded, Rank(p) + 1, Len(recorded)) \o <<p>>
    /\ waiting' = waiting \union {p}

\* Execute returns.  Success or failure, the execution is recorded; an error of
\* that is only logged.  A failed job is delivered again later.
Finish(p, ok) ==
    /\ running[p] > 0
    /\ running' = [running EXCEPT ![p] = @ - 1]
    /\ queued' = IF ok THEN queued ELSE [queued EXCEPT ![p] = @ + 1]
    /\ \/ ok /\ Record(p) /\ UNCHANGED faults
       \/ Fault /\ (Record(p) \/ UNCHANGED statistics)
    /\ UNCHANGED <<enabled, lock, up, pc, todo, expired>>

\* wait_seconds after last_execution_at.
WaitPasses(p) ==
    /\ p \in waiting
    /\ waiting' = waiting \ {p}
    /\ UNCHANGED <<enabled, recorded, lock, up, pc, todo, expired, jobs, faults>>

Toggle(p) ==
    /\ p \in Toggles
    /\ enabled' = [enabled EXCEPT ![p] = ~@]
    /\ UNCHANGED <<statistics, lock, up, pc, todo, expired, jobs, faults>>

-----------------------------------------------------------------------------
Next ==
    \/ \E s \in Schedulers :
         List(s) \/ Acquire(s) \/ Publish(s) \/ Release(s) \/ Crash(s) \/ Stop(s) \/ Exit(s)
    \/ \E p \in Plans :
         Expire(p) \/ Begin(p) \/ Finish(p, TRUE) \/ Finish(p, FALSE) \/ WaitPasses(p) \/ Toggle(p)

Spec == Init /\ [][Next]_vars

\* Poll loops run, TTLs and waits pass, Processors work off the queue.
FairSpec ==
    /\ Spec
    /\ \A s \in Schedulers : WF_vars(List(s) \/ Acquire(s) \/ Publish(s) \/ Release(s))
    /\ \A p \in Plans :
         /\ WF_vars(Expire(p))
         /\ WF_vars(Begin(p) \/ Finish(p, TRUE))
         /\ WF_vars(WaitPasses(p))

-----------------------------------------------------------------------------
(* Properties *)

\* The locks and the cycle of each scheduler: it has plans to deal with unless it
\* is idle, and never more than the query's limit.
CycleOK ==
    /\ lock \in [Plans -> Schedulers \union {Free}]
    /\ pc \in [Schedulers -> {"idle", "acquire", "publish", "release"}]
    /\ todo \in [Schedulers -> Seq(Plans)]
    /\ \A s \in Schedulers : Len(todo[s]) <= BatchSize /\ (pc[s] = "idle" <=> todo[s] = <<>>)
    /\ up \in [Schedulers -> {"up", "stopping", "down"}]
    /\ expired \subseteq Schedulers

JobsOK ==
    /\ queued \in [Plans -> Nat]
    /\ running \in [Plans -> Nat]
    /\ \A p \in Plans : queued[p] + running[p] <= MaxJobs

\* Every variable has its type; a batch is never larger than its limit, and only plans
\* with a recorded execution wait.
TypeOK ==
    /\ CycleOK /\ JobsOK
    /\ enabled \in [Plans -> BOOLEAN]
    /\ recorded \in Seq(Plans) /\ Len(recorded) <= Cardinality(Plans)
    /\ waiting \subseteq {recorded[i] : i \in DOMAIN recorded}
    /\ faults \in 0..MaxFaults

\* A scheduler between Acquire and Release owns the lock of its plan unless
\* the TTL took it: no other scheduler's release, late or not, takes it away.
OwnsUnlessExpired ==
    \A s \in Schedulers, p \in Plans : Uses(s, p) => lock[p] = s \/ s \in expired

\* No plan starves: one that is due gets a job or stops being due, although
\* the batch is smaller than the set of due plans, and although a crashed
\* scheduler left its lock behind.  Until the last scheduler stops, that is.
DuePlansGetJobs ==
    \A p \in Plans :
      p \in Due ~> \/ queued[p] + running[p] > 0
                   \/ p \notin Due
                   \/ \A s \in Schedulers : up[s] # "up"
=============================================================================
