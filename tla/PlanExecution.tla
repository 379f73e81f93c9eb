---------------------------- MODULE PlanExecution ----------------------------
(***************************************************************************)
(* Orchid's executions of one plan with one config (orchid/pkg/execution), *)
(* with what they share: the stored context, the cached token of the auth  *)
(* flow (orchid/pkg/auth) and the rate limiter's buckets in Redis          *)
(* (orchid/pkg/ratelimit, orchid/pkg/redis).  Executions overlap, because  *)
(* the queue redelivers and nothing else keeps them apart.                 *)
(*                                                                         *)
(* The API is paged: the request asks for the page after the cursor in the *)
(* context, and set_context takes the cursor of each response, whatever    *)
(* its status; a response without one sets it to null, which is 0.  What   *)
(* a response makes of the step's conditions is a choice among the kinds   *)
(* that the plan can meet.                                                 *)
(*                                                                         *)
(* Time is counted down in ticks.  It passes while executions wait: for a  *)
(* response, in a sleep, for a rate limit, in sub-steps; the other steps   *)
(* take no time.                                                           *)
(***************************************************************************)
EXTENDS Integers, Sequences, FiniteSets, SequencesExt, FiniteSetsExt

CONSTANTS
    Executions,
    Plans,          \* Plans[c]: [pages, shape, life, limits, kinds], case by case; life is
                    \* the expires_in of the auth flow's tokens, 0 without one
    MaxRetries,     \* RetryConfig.MaxRetries
    MaxLoops,       \* PlanExecutorConfig.MaxLoops
    MaxRun,         \* MaxExecutionTime, or MaxExecutionSeconds if less
    StepTimeout,    \* Step.TimeoutSeconds
    HttpTimeout,    \* the HTTP client's own
    MaxWait,        \* ExecuteOptions.MaxRateWait
    MaxDelay,       \* RetryConfig.MaxDelay
    SlotTTL,        \* of a concurrency slot
    BlockTime,      \* until the reset that a response announces, or its Retry-After
    Skew,           \* AuthFlow.SkewSeconds
    MaxFaults       \* bound: crashes and failed calls

\* 30 seconds are less than the 2 minutes of a slot, than the default skew of a minute
\* and than the life of a token.
ASSUME TimesAssumption ==
    /\ HttpTimeout < SlotTTL /\ HttpTimeout <= Skew
    /\ \A c \in DOMAIN Plans : Plans[c].life = 0 \/ HttpTimeout < Plans[c].life
    /\ {MaxRetries, MaxLoops, MaxRun, StepTimeout, HttpTimeout, MaxWait, MaxDelay,
        SlotTTL, BlockTime, Skew, MaxFaults} \subseteq Nat

ASSUME PlansAssumption ==
    \A c \in DOMAIN Plans :
        /\ Plans[c].pages \in Nat /\ Plans[c].life \in Nat
        /\ DOMAIN Plans[c].limits = 1..Len(Plans[c].limits) /\ Len(Plans[c].limits) \in Nat
        /\ \A l \in DOMAIN Plans[c].limits :
             /\ Plans[c].limits[l].concurrent \in Nat /\ Plans[c].limits[l].window \in Nat
             /\ Plans[c].limits[l].requests \in Nat \ {0}

ASSUME ExecutionsAssumption == IsFiniteSet(Executions)

VARIABLES
    case,
    status,     \* plan_executions.status
    stored,     \* plan_contexts: the cursor
    stats,      \* plan_statistics: [success, failure]
    token,      \* the cached token: [left, alive, ttl], or NoToken
    window,     \* window[l]: what the entries of a bucket still have to stay, oldest first
    slots,      \* slots[l][i]: [owner, left]; free if nothing is left
    block,      \* block[l]: how long the bucket is still blocked
    run,        \* run[x]: where execution x is
    seen,       \* history: <<x, page, how>>: "responses", "errors", "lost", "broke" or "retried"
    faults

redis  == <<window, slots, block>>
tables == <<status, stored, stats>>
vars == <<case, tables, token, redis, run, seen, faults>>

plan == Plans[case]
Limits == DOMAIN plan.limits
NoToken == [left |-> 0, alive |-> 0, ttl |-> 0]
Free == [owner |-> "", left |-> 0]

Idle == [pc |-> "idle", left |-> 0, step |-> 0, wait |-> 0, timer |-> 0, try |-> 0, loops |-> 0,
         cursor |-> 0, start |-> 0, page |-> 0, limit |-> 0, kind |-> "", more |-> FALSE,
         error |-> FALSE, abort |-> FALSE, token |-> -1, result |-> "", cut |-> FALSE]

Dec(n) == IF n > 0 THEN n - 1 ELSE 0
At(x, pc) == run[x].pc = pc
Goes(x, r) == run' = [run EXCEPT ![x] = r]
GoesTo(x, pc) == Goes(x, [run[x] EXCEPT !.pc = pc])
\* What is left of an execution when a loop ends, and when the plan does.
Between(x, pc) == [Idle EXCEPT !.pc = pc, !.left = run[x].left, !.loops = run[x].loops,
                               !.cursor = run[x].cursor, !.start = run[x].start, !.cut = run[x].cut]
Fails(x, result) ==
    Goes(x, [Idle EXCEPT !.pc = "mark", !.result = result, !.start = run[x].start, !.cut = run[x].cut])

\* A call under the deadline of the execution succeeds, or fails.
Fault == faults < MaxFaults /\ faults' = faults + 1
Works(x) == run[x].left > 0 /\ UNCHANGED faults
Breaks(x) == IF run[x].left = 0 THEN UNCHANGED faults ELSE Fault

\* The context of a step is done when its own or the execution's deadline passes.
Expired(x) == run[x].left = 0 \/ run[x].step = 0

-----------------------------------------------------------------------------
(* PlanExecutor.Execute and executePlan.                                    *)

\* The record is created and execution.started published; without the record the
\* execution ends there.
Begin(x) ==
    /\ At(x, "idle")
    /\ \/ /\ status' = [status EXCEPT ![x] = "pending"]
          /\ Goes(x, [run[x] EXCEPT !.pc = "start", !.left = MaxRun])
          /\ UNCHANGED faults
       \/ Fault /\ GoesTo(x, "done") /\ UNCHANGED status
    /\ UNCHANGED <<case, stored, stats, token, redis, seen>>

MarkStarted(x) ==
    /\ At(x, "start")
    /\ \/ Works(x) /\ status' = [status EXCEPT ![x] = "running"] /\ GoesTo(x, "load")
       \/ Breaks(x) /\ Fails(x, "failed") /\ UNCHANGED status
    /\ UNCHANGED <<case, stored, stats, token, redis, seen>>

\* The plan, the config and the definition are read; one that is missing, disabled or
\* does not parse ends the execution.
LoadPlan(x) ==
    /\ At(x, "load")
    /\ \/ Works(x) /\ GoesTo(x, "context")
       \/ Breaks(x) /\ Fails(x, "failed")
    /\ UNCHANGED <<case, tables, token, redis, seen>>

LoadContext(x) ==
    /\ At(x, "context")
    /\ \/ /\ Works(x)
          /\ Goes(x, [run[x] EXCEPT !.pc = IF plan.life > 0 THEN "token" ELSE "loop",
                                    !.cursor = stored, !.start = stored])
       \/ Breaks(x) /\ Fails(x, "failed")
    /\ UNCHANGED <<case, tables, token, redis, seen>>

(* auth.Manager.GetAuthContext *)

\* Mutant: without the skew.
IsExpiredLate(t) == t.left <= 0

IsExpired(t) == t.left <= Skew

\* calculateTTL
TTL(t) == IF t.left > Skew THEN t.left - Skew ELSE MaxRun

\* A miss, an error of Redis and a token about to expire are the same.
GetCachedToken(x) ==
    /\ At(x, "token")
    /\ \/ /\ token # NoToken /\ ~IsExpired(token)
          /\ Goes(x, [run[x] EXCEPT !.pc = "loop", !.token = token.alive])
          /\ UNCHANGED faults
       \/ /\ IF token = NoToken \/ IsExpired(token) THEN UNCHANGED faults ELSE Fault
          /\ Goes(x, [run[x] EXCEPT !.pc = "issue", !.timer = HttpTimeout])
    /\ UNCHANGED <<case, tables, token, redis, seen>>

\* The authorization server issues a token, whose life begins; the answer is on its way.
Issue(x) ==
    /\ At(x, "issue")
    /\ Goes(x, [run[x] EXCEPT !.pc = "answer", !.token = plan.life])
    /\ UNCHANGED <<case, tables, token, redis, seen, faults>>

\* executeAuthFlow: the expiry is counted from the answer on; an error ends the execution.
Answer(x) ==
    /\ run[x].pc \in {"issue", "answer"}
    /\ \/ /\ At(x, "answer") /\ Works(x)
          /\ GoesTo(x, "cache")
       \/ Breaks(x) /\ Fails(x, "failed")
    /\ UNCHANGED <<case, tables, token, redis, seen>>

\* The token is cached if Redis can, and used in any case.
CacheToken(x) ==
    /\ At(x, "cache")
    /\ LET t == [left |-> plan.life, alive |-> run[x].token, ttl |-> 0]
       IN \/ Works(x) /\ token' = [t EXCEPT !.ttl = TTL(t)]
          \/ Breaks(x) /\ UNCHANGED token
    /\ Goes(x, [run[x] EXCEPT !.pc = "loop", !.timer = 0])
    /\ UNCHANGED <<case, tables, redis, seen>>

-----------------------------------------------------------------------------
(* executeStepWithLoop, and the attempts of StepExecutor.ExecuteWithOptions. *)

\* Mutant: the loops are not counted.
LoopHeadEndless(x) ==
    /\ At(x, "loop")
    /\ IF run[x].left = 0 THEN Fails(x, "failed")
       ELSE Goes(x, [Between(x, "build") EXCEPT !.step = StepTimeout])
    /\ UNCHANGED <<case, tables, token, redis, seen, faults>>

LoopHead(x) ==
    /\ At(x, "loop")
    /\ IF run[x].left = 0 \/ run[x].loops = MaxLoops THEN Fails(x, "failed")
       ELSE Goes(x, [Between(x, "build") EXCEPT !.loops = @ + 1, !.step = StepTimeout])
    /\ UNCHANGED <<case, tables, token, redis, seen, faults>>

\* Mutant: the cursor moves when the page is asked for.
BuildAhead(x) ==
    /\ At(x, "build")
    /\ Goes(x, [run[x] EXCEPT !.pc = IF plan.limits = <<>> THEN "send" ELSE "acquire",
                              !.page = run[x].cursor + 1, !.cursor = @ + 1,
                              !.limit = 1, !.wait = IF plan.limits = <<>> THEN 0 ELSE MaxWait])
    /\ UNCHANGED <<case, tables, token, redis, seen, faults>>

\* BuildRequest, from the context as it is by now.
Build(x) ==
    /\ At(x, "build")
    /\ \/ /\ Goes(x, [run[x] EXCEPT !.pc = IF plan.limits = <<>> THEN "send" ELSE "acquire",
                                    !.page = run[x].cursor + 1,
                                    !.limit = 1, !.wait = IF plan.limits = <<>> THEN 0 ELSE MaxWait])
          /\ UNCHANGED faults
       \/ Fault /\ Fails(x, "failed")
    /\ UNCHANGED <<case, tables, token, redis, seen>>

(* ratelimit.Manager.WaitForLimit, Check *)

FreeSlots(l) == {i \in DOMAIN slots[l] : slots[l][i].left = 0}
\* Lock.Release deletes what is still the owner's.
Released(x) == [l \in Limits |-> [i \in DOMAIN slots[l] |-> IF slots[l][i].owner = x THEN Free ELSE slots[l][i]]]

\* Not allowed for another t: the slots are given back.  The wait has a limit.
Deny(x, t) ==
    /\ slots' = Released(x)
    /\ IF t > run[x].wait THEN Fails(x, "failed")
       ELSE Goes(x, [run[x] EXCEPT !.pc = "pause", !.timer = t])

\* Mutant: the first slot is taken without asking.
AcquireAny(x) ==
    /\ At(x, "acquire")
    /\ slots' = IF DOMAIN slots[run[x].limit] = {} THEN slots
                ELSE [slots EXCEPT ![run[x].limit][1] = [owner |-> x, left |-> SlotTTL]]
    /\ GoesTo(x, "window")
    /\ UNCHANGED <<case, tables, token, window, block, seen, faults>>

\* One of the slots of the limit, if it has any.  An error ends the step and leaves
\* the slots of the limits before to their TTL.
Acquire(x) ==
    /\ At(x, "acquire")
    /\ LET l == run[x].limit
       IN \/ DOMAIN slots[l] = {} /\ GoesTo(x, "window") /\ UNCHANGED <<slots, faults>>
          \/ /\ FreeSlots(l) # {} /\ ~Expired(x)
             /\ slots' = [slots EXCEPT ![l][Min(FreeSlots(l))] = [owner |-> x, left |-> SlotTTL]]
             /\ GoesTo(x, "window")
             /\ UNCHANGED faults
          \/ /\ DOMAIN slots[l] # {} /\ FreeSlots(l) = {} /\ ~Expired(x)
             /\ Deny(x, 1)
             /\ UNCHANGED faults
          \/ /\ DOMAIN slots[l] # {}
             /\ IF Expired(x) THEN UNCHANGED faults ELSE Fault
             /\ Fails(x, "failed")
             /\ UNCHANGED slots
    /\ UNCHANGED <<case, tables, token, window, block, seen>>

\* RateLimiter.Allow, behind the block of the bucket.  An error lets the request pass.
CheckWindow(x) ==
    /\ At(x, "window")
    /\ LET l == run[x].limit
           onwards == IF l < Len(plan.limits) THEN [run[x] EXCEPT !.pc = "acquire", !.limit = @ + 1]
                      ELSE [run[x] EXCEPT !.pc = "send"]
       IN \/ /\ ~Expired(x) /\ block[l] = 0 /\ Len(window[l]) < plan.limits[l].requests
             /\ window' = [window EXCEPT ![l] = Append(@, plan.limits[l].window)]
             /\ Goes(x, onwards)
             /\ UNCHANGED <<slots, faults>>
          \/ /\ ~Expired(x)
             /\ block[l] > 0 \/ Len(window[l]) >= plan.limits[l].requests
             /\ Deny(x, IF block[l] > 0 THEN block[l] ELSE Head(window[l]))
             /\ UNCHANGED <<window, faults>>
          \/ /\ IF Expired(x) THEN UNCHANGED faults ELSE Fault
             /\ Goes(x, onwards)
             /\ UNCHANGED <<window, slots>>
    /\ UNCHANGED <<case, tables, token, block, seen>>

\* The wait for a limit, which the deadline of the step ends.
Pause(x) ==
    /\ At(x, "pause")
    /\ \/ run[x].timer = 0 /\ Goes(x, [run[x] EXCEPT !.pc = "acquire", !.limit = 1])
       \/ Expired(x) /\ Fails(x, "failed")
    /\ UNCHANGED <<case, tables, token, redis, seen, faults>>

(* The request *)

Send(x) ==
    /\ At(x, "send") /\ ~Expired(x)
    /\ Goes(x, [run[x] EXCEPT !.pc = "flight", !.timer = HttpTimeout])
    /\ UNCHANGED <<case, tables, token, redis, seen, faults>>

\* The slots are released under the step's context: if that is done, they stay.
Release(x) == slots' = IF Expired(x) THEN slots ELSE Released(x)

\* CalculateBackoff, of the Fibonacci kind.
Fibonacci(attempt) ==
    LET f[n \in 0..attempt] == IF n <= 2 THEN 1 ELSE f[n - 1] + f[n - 2] IN f[attempt]
CalculateBackoff(attempt) == Min({Fibonacci(attempt), MaxDelay})

\* Another attempt after a sleep that heeds no deadline.
Retry(x, r, delays) == \E delay \in delays : Goes(x, [r EXCEPT !.pc = "sleep", !.timer = delay])

\* A request that fails, or is not sent because the step's time is up.
NetError(x) ==
    /\ At(x, "flight") \/ (At(x, "send") /\ Expired(x))
    /\ IF Expired(x) \/ run[x].timer = 0 THEN UNCHANGED faults ELSE Fault
    /\ Release(x)
    /\ IF run[x].try < MaxRetries THEN Retry(x, run[x], {CalculateBackoff(run[x].try + 1)})
       ELSE Fails(x, "failed")
    /\ UNCHANGED <<case, tables, token, window, block, seen>>

\* The responses the plan can meet, as records: what the conditions, the status lists and
\* the body make of it (is), whether it is to be retried (a 429, which no condition undoes,
\* or retry_when), whether it has a cursor for set_context (next), and whether it announces
\* a time to wait (resets).
Kinds == plan.kinds
HasCursor(kind) == kind.next

\* updateDynamicLimit: a response can block the bucket of a limit that looks at headers.
Blocked(l, kind) == IF kind.resets /\ plan.limits[l].dynamic THEN BlockTime ELSE block[l]

\* The sleep before a retry: the backoff, or the Retry-After of a 429.
Delays(x, kind) == {CalculateBackoff(run[x].try + 1)} \union (IF kind.resets THEN {BlockTime} ELSE {})

\* A response: the bucket is blocked if the response says so, the conditions are
\* evaluated, the context is set, and only then it is decided whether to retry.  The
\* cursor of a response that is retried stays set: the retry asks for the page after it.
Respond(x, kind) ==
    /\ At(x, "flight") /\ ~Expired(x)
    /\ Release(x)
    /\ block' = [l \in Limits |-> Blocked(l, kind)]
    /\ LET r == [run[x] EXCEPT !.kind = kind.is,
                               !.cursor = IF HasCursor(kind) THEN Min({run[x].page, plan.pages}) ELSE 0,
                               !.more = HasCursor(kind) /\ run[x].page < plan.pages,
                               !.wait = 0, !.timer = 0]
       IN \/ kind.is = "invalid" /\ Fails(x, "failed") /\ UNCHANGED seen
          \/ /\ kind.is # "invalid" /\ kind.retry /\ run[x].try < MaxRetries
             /\ Retry(x, r, Delays(x, kind))
             /\ seen' = IF HasCursor(kind) THEN seen \union {<<x, run[x].page, "retried">>} ELSE seen
          \/ /\ kind.is # "invalid" /\ (kind.retry => run[x].try >= MaxRetries)
             /\ Goes(x, [r EXCEPT !.pc = "result", !.step = 0, !.try = 0, !.cut = @ \/ ~HasCursor(kind)])
             /\ UNCHANGED seen
    /\ UNCHANGED <<case, tables, token, window, faults>>

Wake(x) ==
    /\ At(x, "sleep") /\ run[x].timer = 0
    /\ Goes(x, [run[x] EXCEPT !.pc = "build", !.try = @ + 1])
    /\ UNCHANGED <<case, tables, token, redis, seen, faults>>

(* What the plan makes of the result *)

\* abort_when ends the plan, break_when the loop, both before the page is published.
Result(x) ==
    /\ At(x, "result")
    /\ CASE run[x].kind = "abortWhen" -> Fails(x, "aborted") /\ UNCHANGED seen
         [] run[x].kind = "break"     -> /\ Goes(x, [Between(x, "save") EXCEPT !.cut = TRUE])
                                         /\ seen' = seen \union {<<x, run[x].page, "broke">>}
         [] OTHER                     -> /\ GoesTo(x, IF plan.shape = "plain" THEN "emit" ELSE "subs")
                                         /\ UNCHANGED seen
    /\ UNCHANGED <<case, tables, token, redis, faults>>

\* Sub-steps, once or for each item.  Sub-steps that run once leave their own response in
\* the context, for `while' to see; an error or an abort condition ends the plan.  Those of
\* an item that fail are counted, and an abort condition ends the plan after the page.  The
\* status policies send the page to the error topic, and abort after that.  The fan-out
\* over items does not return if the execution's deadline passes while they are sent and
\* leaves a worker waiting (see Fanout).
SubSteps(x) ==
    /\ At(x, "subs")
    /\ \/ \E more \in (IF plan.shape = "subs" THEN BOOLEAN ELSE {run[x].more}) :
             Goes(x, [run[x] EXCEPT !.pc = "emit", !.more = more, !.cut = @ \/ more # run[x].more])
          /\ UNCHANGED faults
       \/ \E error, abort \in BOOLEAN :
             /\ plan.shape = "subs" => error
             /\ Fault /\ Goes(x, [run[x] EXCEPT !.pc = "emit", !.error = error, !.abort = abort])
       \/ \E result \in {"failed", "aborted"} :
             /\ plan.shape # "subs" => result = "failed"
             /\ Breaks(x) /\ Fails(x, result)
       \/ /\ plan.shape # "subs" /\ run[x].left = 0
          /\ GoesTo(x, "hung") /\ UNCHANGED faults
    /\ UNCHANGED <<case, tables, token, redis, seen>>

\* Where emitStepBatchToKafka publishes.
Topic(r) == IF r.error \/ r.kind \in {"ignored", "abortOn"} THEN "errors" ELSE "responses"

\* Mutant: the loop is left before the page is published.
EmitIfMore(x) ==
    /\ At(x, "emit")
    /\ IF run[x].abort \/ run[x].kind = "abortOn" THEN Fails(x, "aborted")
       ELSE Goes(x, Between(x, IF run[x].more THEN "loop" ELSE "save"))
    /\ seen' = IF run[x].more THEN seen \union {<<x, run[x].page, Topic(run[x])>>} ELSE seen
    /\ UNCHANGED <<case, tables, token, redis, faults>>

\* The page is published; a failure is logged.  Then the policies, then `while'.
Emit(x) ==
    /\ At(x, "emit")
    /\ \/ Works(x) /\ seen' = seen \union {<<x, run[x].page, Topic(run[x])>>}
       \/ Breaks(x) /\ seen' = seen \union {<<x, run[x].page, "lost">>}
    /\ IF run[x].abort \/ run[x].kind = "abortOn" THEN Fails(x, "aborted")
       ELSE Goes(x, Between(x, IF run[x].more THEN "loop" ELSE "save"))
    /\ UNCHANGED <<case, tables, token, redis>>

\* An expression that cannot be evaluated fails the plan: iterate_over before the page
\* is published, `while' after that.
EvaluationFails(x) ==
    /\ At(x, "emit") /\ Fault
    /\ \/ UNCHANGED seen
       \/ /\ ~run[x].abort /\ run[x].kind # "abortOn"
          /\ seen' = seen \union {<<x, run[x].page, Topic(run[x])>>}
    /\ Fails(x, "failed")
    /\ UNCHANGED <<case, tables, token, redis>>

\* The context is saved whole; a failure is logged.
Save(x) ==
    /\ At(x, "save")
    /\ \/ Works(x) /\ stored' = run[x].cursor
       \/ Breaks(x) /\ UNCHANGED stored
    /\ Fails(x, "success")
    /\ UNCHANGED <<case, status, stats, token, redis, seen>>

\* MarkCompleted, outside the deadline; a failure is logged.
Mark(x) ==
    /\ At(x, "mark")
    /\ \/ status' = [status EXCEPT ![x] = run[x].result] /\ UNCHANGED faults
       \/ Fault /\ UNCHANGED status
    /\ GoesTo(x, "report")
    /\ UNCHANGED <<case, stored, stats, token, redis, seen>>

\* RecordExecution and execution.completed; failures are logged.
Report(x) ==
    /\ At(x, "report")
    /\ LET f == IF run[x].result = "success" THEN "success" ELSE "failure"
       IN \/ stats' = [stats EXCEPT ![f] = @ + 1] /\ UNCHANGED faults
          \/ Fault /\ UNCHANGED stats
    /\ GoesTo(x, "done")
    /\ UNCHANGED <<case, status, stored, token, redis, seen>>

-----------------------------------------------------------------------------

\* The process dies; the tables and Redis stay as they are.
Crash(x) ==
    /\ run[x].pc \notin {"idle", "done"}
    /\ Fault
    /\ GoesTo(x, "done")
    /\ UNCHANGED <<case, tables, token, redis, seen>>

\* Mutant: a slot is set without a TTL.
SlotKept(s) == s

\* A tick later: a slot, and the other countdowns.
SlotAged(s) == IF s.left <= 1 THEN Free ELSE [s EXCEPT !.left = @ - 1]
TokenAged(t) == IF t.ttl <= 1 THEN NoToken
                ELSE [left |-> Dec(t.left), alive |-> Dec(t.alive), ttl |-> t.ttl - 1]
\* The oldest entries go, up to the first that stays.
WindowAged(w) ==
    LET stay == {i \in DOMAIN w : w[i] > 1}
        rest == SubSeq(w, Min(stay), Len(w))
    IN IF stay = {} THEN <<>> ELSE [i \in DOMAIN rest |-> rest[i] - 1]
RunAged(r) ==
    IF r.pc \in {"idle", "done"} THEN r
    ELSE [r EXCEPT !.left = Dec(@), !.step = Dec(@), !.wait = Dec(@), !.timer = Dec(@),
                   !.token = IF r.pc = "answer" THEN Dec(@) ELSE @]

\* Where time passes: the timer of a request is its timeout, which cannot be passed.
Waits(x) == \/ run[x].pc \in {"idle", "subs", "hung", "done"}
            \/ run[x].pc \in {"issue", "answer", "flight"} /\ run[x].timer > 0
            \/ run[x].pc \in {"pause", "sleep"} /\ run[x].timer > 0

Tick ==
    /\ \A x \in Executions : Waits(x)
    /\ run' = [x \in Executions |-> RunAged(run[x])]
    /\ token' = TokenAged(token)
    /\ window' = [l \in Limits |-> WindowAged(window[l])]
    /\ slots' = [l \in Limits |-> [i \in DOMAIN slots[l] |-> SlotAged(slots[l][i])]]
    /\ block' = [l \in Limits |-> Dec(block[l])]
    /\ UNCHANGED <<case, tables, seen, faults>>

Init ==
    /\ case \in DOMAIN Plans
    /\ status = [x \in Executions |-> "none"]
    /\ stored = 0
    /\ stats = [success |-> 0, failure |-> 0]
    /\ token = NoToken
    /\ window = [l \in Limits |-> <<>>]
    /\ slots = [l \in Limits |-> [i \in 1..plan.limits[l].concurrent |-> Free]]
    /\ block = [l \in Limits |-> 0]
    /\ run = [x \in Executions |-> Idle]
    /\ seen = {} /\ faults = 0

Execute(x) ==
    \/ MarkStarted(x) \/ LoadPlan(x) \/ LoadContext(x)
    \/ GetCachedToken(x) \/ Issue(x) \/ Answer(x) \/ CacheToken(x)
    \/ LoopHead(x) \/ Build(x) \/ Acquire(x) \/ CheckWindow(x) \/ Pause(x) \/ Send(x)
    \/ NetError(x) \/ Wake(x) \/ \E kind \in Kinds : Respond(x, kind)
    \/ Result(x) \/ SubSteps(x) \/ Emit(x) \/ EvaluationFails(x) \/ Save(x) \/ Mark(x) \/ Report(x)

Next == \/ \E x \in Executions : Begin(x) \/ Execute(x) \/ Crash(x)
        \/ Tick

\* Every process keeps working, and time passes.  That executions begin is not assumed.
Spec == Init /\ [][Next]_vars /\ WF_vars(Tick) /\ \A x \in Executions : WF_vars(Execute(x))

-----------------------------------------------------------------------------
(* Properties.                                                              *)

\* Every variable has its type: loops, attempts and the entries of a window stay within
\* their limits, each execution is counted once, and a final status is the result that
\* the execution had.
TypeOK ==
    /\ stored \in 0..plan.pages
    /\ stats.success + stats.failure <= Cardinality(Executions)
    /\ \A x \in Executions :
         /\ status[x] \in {"none", "pending", "running", "success", "failed", "aborted"}
         /\ run[x].cursor \in 0..plan.pages /\ run[x].try \in 0..MaxRetries /\ run[x].loops \in 0..MaxLoops
         /\ run[x].left \in 0..MaxRun /\ run[x].timer >= 0
         /\ status[x] \in {"success", "failed", "aborted"} => status[x] = run[x].result
    /\ \A l \in Limits : /\ Len(window[l]) <= plan.limits[l].requests
                         /\ \A i \in DOMAIN slots[l] : slots[l][i].left \in 0..SlotTTL
    /\ token.alive <= token.left /\ faults \in 0..MaxFaults

\* The concurrency slots in Redis bound the requests in flight, whatever crashes,
\* deadlines and expiring slots do.
InFlightBounded ==
    \A l \in Limits : plan.limits[l].concurrent > 0 =>
        Cardinality({x \in Executions : At(x, "flight")}) <= plan.limits[l].concurrent

\* A token that an execution is given is still alive at the server that issued it:
\* the skew makes up for the time that its answer took, which the cached expiry leaves out.
TokensAlive == \A x \in Executions : run[x].pc \notin {"issue", "answer"} => run[x].token # 0

\* The stored cursor passes over no page unseen, whichever of the overlapping executions
\* saved it: every page up to it was published by some execution, or its publication
\* failed and was logged, or break_when held on it, or its response was retried after its
\* cursor had gone into the context, which is how a page is lost.
SavedWasEmitted ==
    \A p \in 1..stored : \E s \in seen : s[2] = p

\* An execution that succeeds has met every page after the one it started from, through
\* retries, waits and requests that failed, unless a response without a cursor (an ignored
\* one, or one that was still busy when the retries were used up), a break, or the response
\* of a sub-step ended the loop.  A page it met is one it published, failed to publish or
\* broke on, or one whose response it retried although the context had its cursor.
SuccessCoversPages ==
    \A x \in Executions : run[x].result = "success" /\ ~run[x].cut =>
        \A p \in (run[x].start + 1)..plan.pages : \E s \in seen : s[1] = x /\ s[2] = p

\* Every execution that begins ends, whatever the API and Redis answer, unless its
\* deadline passes during a fan-out over items and the fan-out never returns.
HangsInFanout(x) == At(x, "hung") /\ plan.shape \notin {"plain", "subs"} /\ run[x].left = 0
EveryExecutionEnds ==
    \A x \in Executions : []<>(run[x].pc \in {"idle", "done"} \/ HangsInFanout(x))

\* Every slot comes back, after a crash or a release that failed too.
SlotsComeBack == []<>(\A l \in Limits : FreeSlots(l) = DOMAIN slots[l])
=============================================================================
