------------------------------- MODULE JobQueue -------------------------------
(***************************************************************************)
(* Orchid's job queue: a Redis stream read through one consumer group by   *)
(* several Processor instances (orchid/pkg/queue/processor.go), the stream *)
(* operations they call (orchid/pkg/redis/streams.go) and the dead letter  *)
(* queue with its operator API (orchid/pkg/redis/dlq.go).                  *)
(*                                                                         *)
(* A message ID is the position of the message in the stream.  Redis       *)
(* returns messages and pending entries in ID order, so every list of IDs  *)
(* a loop walks through is kept as a set and walked by its least element.  *)
(* Only the Go channel jobsCh is a sequence: it mixes the consume loop's   *)
(* messages with those of the claim loop.                                  *)
(***************************************************************************)
EXTENDS Integers, Sequences, FiniteSets

CONSTANTS
    Jobs,          \* job payloads
    Kind,          \* [Jobs -> Kinds], what the payload looks like
    Processors,    \* Processor instances sharing the consumer group
    Workers,       \* worker goroutines of each Processor
    Operators,     \* concurrent requests to the dead letter queue API
    MaxRetries,    \* ProcessorConfig.MaxRetries
    BatchSize,     \* ProcessorConfig.BatchSize
    DLQMaxLen,     \* approximate MAXLEN of the dead letter stream
    MaxMsgs,       \* bound: messages ever published to the stream
    MaxDead,       \* bound: entries ever added to the dead letter queue
    Faults,        \* which failures the environment may inject
    Prompt         \* TRUE: no goroutine dawdles for ClaimMinIdle (see Blocked)

\* "plan": a plan execution job.  "unknown": another job type.  "malformed":
\* JSON that is not a JobMessage.  "garbage": no JSON object under "data".
Kinds == {"plan", "unknown", "malformed", "garbage"}

FaultKinds == {"ack", "range", "dlqAdd", "claim", "crash", "api"}

ASSUME JobQueueAssumptions ==
    /\ Kind \in [Jobs -> Kinds]
    /\ IsFiniteSet(Processors)
    /\ MaxRetries \in Nat \ {0}
    /\ BatchSize \in Nat \ {0}
    /\ DLQMaxLen \in Nat \ {0}
    /\ MaxMsgs \in Nat
    /\ MaxDead \in Nat
    /\ Faults \subseteq FaultKinds
    /\ Prompt \in BOOLEAN

MsgIds == 1..MaxMsgs
Entries == 1..MaxDead
Threads == Processors \X Workers
None == 0

\* make(chan jobItem, config.BatchSize*2)
ChanCap == BatchSize * 2

VARIABLES
    stream,      \* the stream: Seq(Jobs), a message's ID is its index
    cursor,      \* the group's last delivered ID
    pel,         \* the group's pending entries list: delivered, not acked
    deliveries,  \* delivery counter of each message (XPENDING RetryCount)
    stale,       \* messages idle for at least ClaimMinIdle
    dlqLen,      \* entries ever added to the dead letter stream
    dlqMsg,      \* entry -> message whose job the entry carries
    dlq,         \* entries now in the dead letter stream
    batch,       \* [Processors -> SUBSET MsgIds], consumed and not yet sent
    jobsCh,      \* [Processors -> Seq(MsgIds)], the buffered channel
    loop,        \* [Processors -> claim loop's position]
    bury,        \* [Processors -> SUBSET MsgIds], to move to the DLQ
    reclaim,     \* [Processors -> SUBSET MsgIds], staleIDs, then claimed
    worker,      \* [Threads -> what the worker goroutine does]
    op,          \* [Operators -> progress of a DLQ retry request]
    succeeded,   \* history: messages whose job returned no error
    attempts,    \* history: times each message's job was started
    reposted,    \* history: entries whose job a retry published again
    purged       \* history: entries deleted by an operator or trimmed

streamVars == <<stream, cursor, pel, deliveries, stale>>
dlqVars == <<dlqLen, dlqMsg, dlq, op, reposted, purged>>
loopVars == <<loop, bury, reclaim>>
workVars == <<worker, succeeded, attempts>>
vars == <<stream, cursor, pel, deliveries, stale, dlqLen, dlqMsg, dlq, batch,
          jobsCh, loop, bury, reclaim, worker, op, succeeded, attempts,
          reposted, purged>>

Idle == [pc |-> "take", msg |-> None]
NoOp == [pc |-> "none", entry |-> None]

Init ==
    /\ stream = <<>>
    /\ cursor = 0
    /\ pel = {}
    /\ deliveries = [m \in MsgIds |-> 0]
    /\ stale = {}
    /\ dlqLen = 0
    /\ dlqMsg = [e \in Entries |-> None]
    /\ dlq = {}
    /\ batch = [p \in Processors |-> {}]
    /\ jobsCh = [p \in Processors |-> <<>>]
    /\ loop = [p \in Processors |-> "wait"]
    /\ bury = [p \in Processors |-> {}]
    /\ reclaim = [p \in Processors |-> {}]
    /\ worker = [t \in Threads |-> Idle]
    /\ op = [o \in Operators |-> NoOp]
    /\ succeeded = {}
    /\ attempts = [m \in MsgIds |-> 0]
    /\ reposted = {}
    /\ purged = {}

-----------------------------------------------------------------------------
(* What a message decodes to *)

\* Consume, Claim and Range drop entries whose data is not a JSON object.
Readable(m) == Kind[stream[m]] # "garbage"

\* parseJobMessage: the payload unmarshals into a JobMessage.
Parses(m) == Kind[stream[m]] \in {"plan", "unknown"}

IsLeast(m, S) == m \in S /\ \A n \in S : m <= n

-----------------------------------------------------------------------------
(* The stream *)

\* Streams.Publish, reached from PublishPlanExecution or another client.
Publish(j) ==
    /\ Len(stream) < MaxMsgs
    /\ stream' = Append(stream, j)
    /\ UNCHANGED <<cursor, pel, deliveries, stale, batch, jobsCh>>
    /\ UNCHANGED <<dlqVars, loopVars, workVars>>

\* Every goroutine of p waits: the workers for a job or for the end of one,
\* the consume loop for the channel or for messages, the claim loop for a tick.
Blocked(p) ==
    /\ \A w \in Workers : jobsCh[p] = <<>> \/ worker[<<p, w>>].pc = "run"
    /\ batch[p] # {} => Len(jobsCh[p]) = ChanCap
    /\ loop[p] = "wait"

\* Time passes: an entry of the pending list has been idle for ClaimMinIdle.
BecomeStale(m) ==
    /\ m \in pel \ stale
    /\ Prompt => \A p \in Processors : Blocked(p)
    /\ stale' = stale \union {m}
    /\ UNCHANGED <<stream, cursor, pel, deliveries, batch, jobsCh>>
    /\ UNCHANGED <<dlqVars, loopVars, workVars>>

\* Streams.Ack: XACK takes the messages in S out of the pending list.
Acked(S) ==
    /\ pel' = pel \ S
    /\ stale' = stale \ S
    /\ UNCHANGED <<stream, cursor, deliveries>>

\* A failed XACK is only logged.
AckOrFail(m) == Acked({m}) \/ ("ack" \in Faults /\ UNCHANGED streamVars)

-----------------------------------------------------------------------------
(* consumeLoop *)

\* The messages one XREADGROUP ... COUNT BatchSize STREAMS s > returns.
Fresh == {m \in MsgIds : cursor < m /\ m <= Len(stream) /\ m <= cursor + BatchSize}

\* Streams.Consume, called when the previous batch was sent.  What is not
\* readable is in the pending list although the loop never sees it.
Consume(p) ==
    /\ batch[p] = {}
    /\ Fresh # {}
    /\ \E last \in Fresh :
         /\ \A m \in Fresh : m <= last
         /\ cursor' = last
    /\ pel' = pel \union Fresh
    /\ deliveries' = [m \in MsgIds |-> IF m \in Fresh THEN 1 ELSE deliveries[m]]
    /\ batch' = [batch EXCEPT ![p] = {m \in Fresh : Readable(m)}]
    /\ UNCHANGED <<stream, stale, jobsCh, dlqVars, loopVars, workVars>>

\* A message that does not parse is acknowledged and skipped.
SkipInvalid(p, m) ==
    /\ IsLeast(m, batch[p])
    /\ ~Parses(m)
    /\ batch' = [batch EXCEPT ![p] = @ \ {m}]
    /\ AckOrFail(m)
    /\ UNCHANGED <<jobsCh, dlqVars, loopVars, workVars>>

\* Mutant of Send: no limit on the channel.
SendUnbounded(p, m) ==
    /\ IsLeast(m, batch[p])
    /\ Parses(m)
    /\ batch' = [batch EXCEPT ![p] = @ \ {m}]
    /\ jobsCh' = [jobsCh EXCEPT ![p] = Append(@, m)]
    /\ UNCHANGED <<streamVars, dlqVars, loopVars, workVars>>

\* Send to the workers; blocks while the channel is full.
Send(p, m) ==
    /\ IsLeast(m, batch[p])
    /\ Parses(m)
    /\ Len(jobsCh[p]) < ChanCap
    /\ batch' = [batch EXCEPT ![p] = @ \ {m}]
    /\ jobsCh' = [jobsCh EXCEPT ![p] = Append(@, m)]
    /\ UNCHANGED <<streamVars, dlqVars, loopVars, workVars>>

ConsumeLoop(p) == Consume(p) \/ \E m \in batch[p] : SkipInvalid(p, m) \/ Send(p, m)

-----------------------------------------------------------------------------
(* claimLoop: one pass of claimPendingMessages per tick *)

\* XPENDING s g - + BatchSize: the lowest IDs, however long they are idle.
Pending == {m \in pel : Cardinality({n \in pel : n <= m}) <= BatchSize}

\* Mutants of Exceeded: an off-by-one in either direction.
ExceededLate(m) == deliveries[m] > MaxRetries + 1
ExceededEarly(m) == deliveries[m] >= MaxRetries

\* RetryCount > MaxRetries: the message goes to the dead letter queue.
Exceeded(m) == deliveries[m] > MaxRetries

\* Mutant of Inspect: exhausted messages are only logged.
InspectNoBury(p) ==
    /\ loop[p] = "wait"
    /\ Pending \intersect stale # {}
    /\ reclaim' = [reclaim EXCEPT ![p] = {m \in Pending \intersect stale : ~Exceeded(m)}]
    /\ loop' = [loop EXCEPT ![p] = "bury"]
    /\ UNCHANGED <<streamVars, dlqVars, workVars, batch, jobsCh, bury>>

\* A tick: the pending entries are split by the counters they have now; the
\* rest of the pass works on this snapshot.
Inspect(p) ==
    /\ loop[p] = "wait"
    /\ Pending \intersect stale # {}
    /\ bury' = [bury EXCEPT ![p] = {m \in Pending \intersect stale : Exceeded(m)}]
    /\ reclaim' = [reclaim EXCEPT ![p] = {m \in Pending \intersect stale : ~Exceeded(m)}]
    /\ loop' = [loop EXCEPT ![p] = "bury"]
    /\ UNCHANGED <<streamVars, dlqVars, workVars, batch, jobsCh>>

\* Mutant of BuryDrop: what cannot be read back is not acknowledged.
BuryDropNoAck(p, m) ==
    /\ loop[p] = "bury"
    /\ IsLeast(m, bury[p])
    /\ ~Parses(m) \/ "range" \in Faults
    /\ bury' = [bury EXCEPT ![p] = @ \ {m}]
    /\ UNCHANGED <<streamVars, dlqVars, workVars, batch, jobsCh, loop, reclaim>>

\* moveToDLQ of a message that cannot be read back or parsed: acknowledged
\* without a dead letter.  A failed XRANGE is treated the same way.
BuryDrop(p, m) ==
    /\ loop[p] = "bury"
    /\ IsLeast(m, bury[p])
    /\ ~Parses(m) \/ "range" \in Faults
    /\ bury' = [bury EXCEPT ![p] = @ \ {m}]
    /\ AckOrFail(m)
    /\ UNCHANGED <<dlqVars, workVars, batch, jobsCh, loop, reclaim>>

\* What XADD ... MAXLEN ~ DLQMaxLen may leave of the entries S: the newest
\* ones, at least DLQMaxLen of them when anything is dropped.
Trims(S) ==
    {K \in {{e \in S : e > k} : k \in 0..MaxDead} :
        K = S \/ Cardinality(K) >= DLQMaxLen}

\* DeadLetterQueue.Add
AddToDLQ(m) ==
    /\ dlqLen < MaxDead
    /\ dlqLen' = dlqLen + 1
    /\ dlqMsg' = [dlqMsg EXCEPT ![dlqLen + 1] = m]
    /\ dlq' \in Trims(dlq \union {dlqLen + 1})
    /\ purged' = purged \union (dlq \ dlq')
    /\ UNCHANGED <<op, reposted>>

\* moveToDLQ up to the dead letter; a failed Add is only logged.
BuryAdd(p, m) ==
    /\ loop[p] = "bury"
    /\ IsLeast(m, bury[p])
    /\ Parses(m)
    /\ AddToDLQ(m) \/ ("dlqAdd" \in Faults /\ UNCHANGED dlqVars)
    /\ loop' = [loop EXCEPT ![p] = "buryAck"]
    /\ UNCHANGED <<streamVars, workVars, batch, jobsCh, bury, reclaim>>

\* The last step of moveToDLQ: acknowledge the original message.
BuryAck(p, m) ==
    /\ loop[p] = "buryAck"
    /\ IsLeast(m, bury[p])
    /\ bury' = [bury EXCEPT ![p] = @ \ {m}]
    /\ loop' = [loop EXCEPT ![p] = "bury"]
    /\ AckOrFail(m)
    /\ UNCHANGED <<dlqVars, workVars, batch, jobsCh, reclaim>>

\* Mutant of Claim: XCLAIM ... JUSTID counts no delivery.
ClaimJustId(p) ==
    /\ loop[p] = "bury"
    /\ bury[p] = {}
    /\ reclaim[p] # {}
    /\ LET claimed == reclaim[p] \intersect pel \intersect stale IN
         /\ stale' = stale \ claimed
         /\ reclaim' = [reclaim EXCEPT ![p] = {m \in claimed : Readable(m)}]
    /\ loop' = [loop EXCEPT ![p] = "send"]
    /\ UNCHANGED <<stream, cursor, pel, deliveries, dlqVars, workVars, batch, jobsCh, bury>>

\* Streams.Claim: XCLAIM takes what is still pending and still idle, resets
\* the idle time and counts a delivery; it does not look at the counter.
\* The loop goes on with the readable ones.
Claim(p) ==
    /\ loop[p] = "bury"
    /\ bury[p] = {}
    /\ reclaim[p] # {}
    /\ LET claimed == reclaim[p] \intersect pel \intersect stale IN
         /\ deliveries' = [m \in MsgIds |->
                             IF m \in claimed THEN deliveries[m] + 1 ELSE deliveries[m]]
         /\ stale' = stale \ claimed
         /\ reclaim' = [reclaim EXCEPT ![p] = {m \in claimed : Readable(m)}]
    /\ loop' = [loop EXCEPT ![p] = "send"]
    /\ UNCHANGED <<stream, cursor, pel, dlqVars, workVars, batch, jobsCh, bury>>

\* A failed XCLAIM ends the pass.
ClaimFails(p) ==
    /\ "claim" \in Faults
    /\ loop[p] = "bury"
    /\ bury[p] = {}
    /\ reclaim[p] # {}
    /\ loop' = [loop EXCEPT ![p] = "wait"]
    /\ reclaim' = [reclaim EXCEPT ![p] = {}]
    /\ UNCHANGED <<streamVars, dlqVars, workVars, batch, jobsCh, bury>>

\* Claimed messages go to the workers; one that does not parse is skipped
\* and stays pending, and so is one that finds the channel full.
Resend(p, m) ==
    /\ loop[p] = "send"
    /\ IsLeast(m, reclaim[p])
    /\ reclaim' = [reclaim EXCEPT ![p] = @ \ {m}]
    /\ jobsCh' = IF Parses(m) /\ Len(jobsCh[p]) < ChanCap
                   THEN [jobsCh EXCEPT ![p] = Append(@, m)]
                   ELSE jobsCh
    /\ UNCHANGED <<streamVars, dlqVars, workVars, batch, loop, bury>>

\* claimPendingMessages returns to the ticker.
EndPass(p) ==
    /\ loop[p] \in {"bury", "send"}
    /\ bury[p] = {}
    /\ reclaim[p] = {}
    /\ loop' = [loop EXCEPT ![p] = "wait"]
    /\ UNCHANGED <<streamVars, dlqVars, workVars, batch, jobsCh, bury, reclaim>>

ClaimLoop(p) ==
    \/ Inspect(p)
    \/ \E m \in bury[p] : BuryDrop(p, m) \/ BuryAdd(p, m) \/ BuryAck(p, m)
    \/ Claim(p)
    \/ ClaimFails(p)
    \/ \E m \in reclaim[p] : Resend(p, m)
    \/ EndPass(p)

-----------------------------------------------------------------------------
(* worker *)

\* Mutant of Take: the message is acknowledged before the job runs.
TakeAndAck(p, w) ==
    /\ worker[<<p, w>>].pc = "take"
    /\ jobsCh[p] # <<>>
    /\ LET m == Head(jobsCh[p]) IN
         /\ worker' = [worker EXCEPT ![<<p, w>>] = [pc |-> "run", msg |-> m]]
         /\ attempts' = [attempts EXCEPT ![m] = @ + 1]
         /\ AckOrFail(m)
    /\ jobsCh' = [jobsCh EXCEPT ![p] = Tail(@)]
    /\ UNCHANGED <<dlqVars, loopVars, batch, succeeded>>

\* The worker receives a message and calls processJob.
Take(p, w) ==
    /\ worker[<<p, w>>].pc = "take"
    /\ jobsCh[p] # <<>>
    /\ LET m == Head(jobsCh[p]) IN
         /\ worker' = [worker EXCEPT ![<<p, w>>] = [pc |-> "run", msg |-> m]]
         /\ attempts' = [attempts EXCEPT ![m] = @ + 1]
    /\ jobsCh' = [jobsCh EXCEPT ![p] = Tail(@)]
    /\ UNCHANGED <<streamVars, dlqVars, loopVars, batch, succeeded>>

\* processJob returns: processPlanExecution without an error ...
Finish(p, w) ==
    /\ worker[<<p, w>>].pc = "run"
    /\ Kind[stream[worker[<<p, w>>].msg]] = "plan"
    /\ succeeded' = succeeded \union {worker[<<p, w>>].msg}
    /\ worker' = [worker EXCEPT ![<<p, w>>] = [pc |-> "ack", msg |-> @.msg]]
    /\ UNCHANGED <<streamVars, dlqVars, loopVars, batch, jobsCh, attempts>>

\* Mutant of Fail: the message is acknowledged whatever the result.
FailAndAck(p, w) ==
    /\ worker[<<p, w>>].pc = "run"
    /\ worker' = [worker EXCEPT ![<<p, w>>] = [pc |-> "ack", msg |-> @.msg]]
    /\ UNCHANGED <<streamVars, dlqVars, loopVars, batch, jobsCh, succeeded, attempts>>

\* ... or with one (a plan that failed, an unknown job type): only logged,
\* the message stays pending.
Fail(p, w) ==
    /\ worker[<<p, w>>].pc = "run"
    /\ worker' = [worker EXCEPT ![<<p, w>>] = Idle]
    /\ UNCHANGED <<streamVars, dlqVars, loopVars, batch, jobsCh, succeeded, attempts>>

\* Acknowledge a successful job.
AckDone(p, w) ==
    /\ worker[<<p, w>>].pc = "ack"
    /\ worker' = [worker EXCEPT ![<<p, w>>] = Idle]
    /\ AckOrFail(worker[<<p, w>>].msg)
    /\ UNCHANGED <<dlqVars, loopVars, batch, jobsCh, succeeded, attempts>>

Work(p, w) == Take(p, w) \/ Finish(p, w) \/ Fail(p, w) \/ AckDone(p, w)

\* The process dies and is started again: everything in memory is gone, the
\* pending list in Redis is not.
Crash(p) ==
    /\ "crash" \in Faults
    /\ batch' = [batch EXCEPT ![p] = {}]
    /\ jobsCh' = [jobsCh EXCEPT ![p] = <<>>]
    /\ loop' = [loop EXCEPT ![p] = "wait"]
    /\ bury' = [bury EXCEPT ![p] = {}]
    /\ reclaim' = [reclaim EXCEPT ![p] = {}]
    /\ worker' = [t \in Threads |-> IF t[1] = p THEN Idle ELSE worker[t]]
    /\ UNCHANGED <<streamVars, dlqVars, succeeded, attempts>>

-----------------------------------------------------------------------------
(* The dead letter queue's API *)

\* Mutant of RetryGet: the entry is deleted before its job is published.
RetryGetAndDelete(o, e) ==
    /\ op[o].pc = "none"
    /\ e \in dlq
    /\ op' = [op EXCEPT ![o] = [pc |-> "publish", entry |-> e]]
    /\ dlq' = dlq \ {e}
    /\ UNCHANGED <<streamVars, loopVars, workVars, batch, jobsCh>>
    /\ UNCHANGED <<dlqLen, dlqMsg, reposted, purged>>

\* DeadLetterQueue.Retry: Get the entry ...
RetryGet(o, e) ==
    /\ op[o].pc = "none"
    /\ e \in dlq
    /\ op' = [op EXCEPT ![o] = [pc |-> "publish", entry |-> e]]
    /\ UNCHANGED <<streamVars, loopVars, workVars, batch, jobsCh>>
    /\ UNCHANGED <<dlqLen, dlqMsg, dlq, reposted, purged>>

\* ... publish its job as a new message ...
RetryPublish(o) ==
    /\ op[o].pc = "publish"
    /\ Len(stream) < MaxMsgs
    /\ stream' = Append(stream, stream[dlqMsg[op[o].entry]])
    /\ reposted' = reposted \union {op[o].entry}
    /\ op' = [op EXCEPT ![o] = [pc |-> "delete", entry |-> @.entry]]
    /\ UNCHANGED <<cursor, pel, deliveries, stale, loopVars, workVars, batch, jobsCh>>
    /\ UNCHANGED <<dlqLen, dlqMsg, dlq, purged>>

\* ... delete the entry; that it is gone already is only logged.
RetryDelete(o) ==
    /\ op[o].pc = "delete"
    /\ dlq' = dlq \ {op[o].entry}
    /\ op' = [op EXCEPT ![o] = NoOp]
    /\ UNCHANGED <<streamVars, loopVars, workVars, batch, jobsCh>>
    /\ UNCHANGED <<dlqLen, dlqMsg, reposted, purged>>

\* The request ends early: Publish or XDEL failed, or the server died.
RetryFails(o) ==
    /\ "api" \in Faults
    /\ op[o].pc # "none"
    /\ op' = [op EXCEPT ![o] = NoOp]
    /\ UNCHANGED <<streamVars, loopVars, workVars, batch, jobsCh>>
    /\ UNCHANGED <<dlqLen, dlqMsg, dlq, reposted, purged>>

\* DeadLetterQueue.Delete for DELETE /api/v1/dlq/:id; one XDEL.
DeleteEntry(e) ==
    /\ Operators # {}
    /\ e \in dlq
    /\ dlq' = dlq \ {e}
    /\ purged' = purged \union {e}
    /\ UNCHANGED <<streamVars, loopVars, workVars, batch, jobsCh>>
    /\ UNCHANGED <<dlqLen, dlqMsg, op, reposted>>

Api(o) == (\E e \in dlq : RetryGet(o, e)) \/ RetryPublish(o) \/ RetryDelete(o) \/ RetryFails(o)

-----------------------------------------------------------------------------
\* Nothing is left to do: the bounds are reached, every message is settled.
Quiescent ==
    /\ \/ dlqLen = MaxDead
       \/ Len(stream) = MaxMsgs /\ cursor = MaxMsgs /\ pel = {}
    /\ UNCHANGED vars

Next ==
    \/ \E j \in Jobs : Publish(j)
    \/ \E m \in pel : BecomeStale(m)
    \/ \E p \in Processors : ConsumeLoop(p) \/ ClaimLoop(p) \/ Crash(p)
    \/ \E p \in Processors, w \in Workers : Work(p, w)
    \/ \E o \in Operators : Api(o)
    \/ \E e \in dlq : DeleteEntry(e)
    \/ Quiescent

Spec == Init /\ [][Next]_vars

\* The Go scheduler runs every runnable goroutine, the ticker fires again and
\* again, and time passes.
LoopFairness ==
    /\ \A m \in MsgIds : WF_vars(BecomeStale(m))
    /\ \A p \in Processors : WF_vars(ClaimLoop(p))

\* ... and no job runs for ever.
WorkFairness ==
    /\ \A p \in Processors : WF_vars(ConsumeLoop(p))
    /\ \A p \in Processors, w \in Workers : WF_vars(Work(p, w))

LoopSpec == Spec /\ LoopFairness

-----------------------------------------------------------------------------
(* Properties *)

Worker == [pc : {"take", "run", "ack"}, msg : 0..MaxMsgs]
Op == [pc : {"none", "publish", "delete"}, entry : 0..MaxDead]

Shape ==
    /\ stream \in Seq(Jobs)
    /\ cursor \in Nat
    /\ pel \subseteq MsgIds
    /\ deliveries \in [MsgIds -> Nat]
    /\ stale \subseteq MsgIds
    /\ dlqLen \in 0..MaxDead
    /\ dlqMsg \in [Entries -> 0..MaxMsgs]
    /\ dlq \subseteq 1..dlqLen
    /\ batch \in [Processors -> SUBSET MsgIds]
    /\ jobsCh \in [Processors -> Seq(MsgIds)]
    /\ loop \in [Processors -> {"wait", "bury", "buryAck", "send"}]
    /\ bury \in [Processors -> SUBSET MsgIds]
    /\ reclaim \in [Processors -> SUBSET MsgIds]
    /\ worker \in [Threads -> Worker]
    /\ op \in [Operators -> Op]
    /\ succeeded \subseteq MsgIds
    /\ attempts \in [MsgIds -> Nat]
    /\ reposted \subseteq 1..dlqLen
    /\ purged \subseteq 1..dlqLen

\* Buffers within their capacity, the group's cursor within the stream.
Sizes ==
    /\ Len(stream) <= MaxMsgs
    /\ cursor <= Len(stream)
    /\ \A p \in Processors : Len(jobsCh[p]) <= ChanCap

\* Whatever holds a message ID holds the ID of a delivered message.
Delivered ==
    /\ pel \subseteq 1..cursor
    /\ stale \subseteq pel
    /\ succeeded \subseteq 1..cursor
    /\ \A p \in Processors :
         /\ batch[p] \subseteq 1..cursor
         /\ bury[p] \subseteq 1..cursor
         /\ reclaim[p] \subseteq 1..cursor
         /\ \A i \in 1..Len(jobsCh[p]) : jobsCh[p][i] \in 1..cursor
    /\ \A t \in Threads : worker[t].pc # "take" => worker[t].msg \in 1..cursor
    /\ \A e \in 1..dlqLen : dlqMsg[e] \in 1..cursor
    /\ \A o \in Operators : op[o].pc # "none" => op[o].entry \in 1..dlqLen

\* Type invariant: the channel never exceeds the capacity NewProcessor gives
\* it, and no goroutine, dead letter or request refers to a message that was
\* not delivered, after crashes and failed calls too.
TypeOK == Shape /\ Sizes /\ Delivered

\* Messages that have a dead letter.
Dead == {dlqMsg[e] : e \in 1..dlqLen}

\* A delivered message leaves the pending list only when its job succeeded,
\* it has a dead letter, or it is not a job at all: crashes, failed acks and
\* concurrent claims of the Processors lose no job.
NoSilentLoss ==
    \A m \in 1..cursor : m \in pel \/ m \in succeeded \/ m \in Dead \/ ~Parses(m)

\* Copies of a message on their way from Redis to a worker.
InTransit(m) ==
    Cardinality({p \in Processors : m \in batch[p]})
    + Cardinality({p \in Processors : loop[p] = "send" /\ m \in reclaim[p]})
    + Cardinality({c \in Processors \X (1..ChanCap) :
                      c[2] <= Len(jobsCh[c[1]]) /\ jobsCh[c[1]][c[2]] = m})

\* Every run of a job is paid for by a delivery that Redis counted, so the
\* retry counter the claim loop decides on never lags behind the runs.
RunsArePaidFor == \A m \in MsgIds : attempts[m] + InTransit(m) <= deliveries[m]

\* The claim loop decides on a snapshot, and other Processors may claim the
\* message after it was taken; still no message is delivered more often than
\* MaxRetries plus once per Processor.
DeliveryBound == \A m \in MsgIds : deliveries[m] <= MaxRetries + Cardinality(Processors)

\* A dead letter is written only for a message whose delivery counter is
\* above MaxRetries (processor.go: RetryCount <= MaxRetries is claimed again).
BuriedAfterBudget == \A m \in Dead : deliveries[m] > MaxRetries

\* Retry publishes before it deletes, so a dead letter goes away only after
\* its job is back in the stream, or because an operator or the length
\* limit removed it.
DeadLettersKept == \A e \in 1..dlqLen : e \in dlq \/ e \in reposted \/ e \in purged

\* A delivered message is settled in the end even if no job ever returns: the
\* claim loops alone take it through its retries to the dead letter queue.
EveryDeliverySettles == \A m \in MsgIds : m \in pel ~> m \notin pel

\* When jobs do return, every published message is delivered and settled.
EverythingSettles ==
    WorkFairness => \A m \in MsgIds : m <= Len(stream) ~> (m <= cursor /\ m \notin pel)

\* What the queue promises its publishers.
Ledger == INSTANCE JobLedger WITH
    log <- stream,
    delivered <- cursor,
    settled <- (1..cursor) \ pel,
    done <- succeeded,
    dead <- Dead,
    IsJob <- [j \in Jobs |-> Kind[j] \in {"plan", "unknown"}]

LedgerSpec == Ledger!Spec

=============================================================================
