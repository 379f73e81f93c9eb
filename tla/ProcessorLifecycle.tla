------------------------- MODULE ProcessorLifecycle -------------------------
(***************************************************************************)
(* Start and Stop of Orchid's queue Processor: the goroutines Start        *)
(* launches, the stop channel they poll, and the jobs channel that the     *)
(* closing goroutine closes (orchid/pkg/queue/processor.go).  Which job    *)
(* travels does not matter here: the channel is its length.                *)
(***************************************************************************)
EXTENDS Integers, FiniteSets

CONSTANTS
    Workers,     \* worker goroutines; NewProcessor makes it at least one
    ChanCap,     \* capacity of jobsCh
    MaxJobs      \* bound: messages Redis delivers

ASSUME LifecycleAssumptions ==
    /\ IsFiniteSet(Workers) /\ Workers # {}
    /\ ChanCap \in Nat \ {0}
    /\ MaxJobs \in Nat

VARIABLES
    running,   \* Processor.running, under mu
    started,   \* history: Start was called
    stopCh,    \* TRUE: stopCh is closed
    jobsCh,    \* messages buffered in jobsCh
    closed,    \* TRUE: jobsCh is closed
    stoppedC,  \* TRUE: stoppedC is closed
    left,      \* messages Redis has not delivered yet
    consumer,  \* position of consumeLoop
    claimer,   \* position of claimLoop
    worker,    \* [Workers -> position of worker]
    closer,    \* position of the goroutine that waits for the stop signal
    stopper,   \* position of the caller of Stop
    panicked   \* TRUE: the process died of a panic

vars == <<running, started, stopCh, jobsCh, closed, stoppedC, left, consumer,
          claimer, worker, closer, stopper, panicked>>
goroutines == <<consumer, claimer, worker, closer>>
channels == <<stopCh, jobsCh, closed, stoppedC, left>>

Init ==
    /\ running = FALSE
    /\ started = FALSE
    /\ stopCh = FALSE
    /\ jobsCh = 0
    /\ closed = FALSE
    /\ stoppedC = FALSE
    /\ left = MaxJobs
    /\ consumer = "off"
    /\ claimer = "off"
    /\ worker = [w \in Workers |-> "off"]
    /\ closer = "off"
    /\ stopper = "idle"
    /\ panicked = FALSE

\* Start: running is set first, then the consumer group is created; an error
\* there returns without undoing it.
Start ==
    /\ ~started
    /\ started' = TRUE
    /\ running' = TRUE
    /\ \/ /\ consumer' = "poll"
          /\ claimer' = "wait"
          /\ worker' = [w \in Workers |-> "recv"]
          /\ closer' = "wait"
       \/ UNCHANGED goroutines
    /\ UNCHANGED <<channels, stopper, panicked>>

\* Stop, up to the close of the stop channel.
Stop ==
    /\ stopper = "idle"
    /\ running
    /\ running' = FALSE
    /\ stopCh' = TRUE
    /\ stopper' = "waiting"
    /\ UNCHANGED <<started, jobsCh, closed, stoppedC, left, goroutines, panicked>>

\* Stop returns: the processor has stopped, or the caller's context is done.
StopReturns ==
    /\ stopper = "waiting"
    /\ stopper' = IF stoppedC THEN "stopped" ELSE "timedOut"
    /\ UNCHANGED <<running, started, channels, goroutines, panicked>>

\* Mutant of CloseJobs: the jobs channel is left open.
CloseNothing ==
    /\ closer = "wait"
    /\ stopCh
    /\ closer' = "join"
    /\ UNCHANGED <<running, started, channels, consumer, claimer, worker, stopper, panicked>>

\* close(p.jobsCh), then wg.Wait, then close(p.stoppedC).
CloseJobs ==
    /\ closer = "wait"
    /\ stopCh
    /\ closed' = TRUE
    /\ closer' = "join"
    /\ UNCHANGED <<running, started, stopCh, jobsCh, stoppedC, left, consumer, claimer, worker, stopper, panicked>>

AllExited ==
    /\ consumer = "exit"
    /\ claimer = "exit"
    /\ \A w \in Workers : worker[w] = "exit"

Join ==
    /\ closer = "join"
    /\ AllExited
    /\ stoppedC' = TRUE
    /\ closer' = "exit"
    /\ UNCHANGED <<running, started, stopCh, jobsCh, closed, left, consumer, claimer, worker, stopper, panicked>>

-----------------------------------------------------------------------------
(* consumeLoop *)

\* The stop channel is polled between two batches only.
Poll ==
    /\ consumer = "poll"
    /\ consumer' = IF stopCh THEN "exit" ELSE "consume"
    /\ UNCHANGED <<running, started, channels, claimer, worker, closer, stopper, panicked>>

\* XREADGROUP returns messages, or none after BlockTimeout or an error; with a
\* done context the error ends the loop.
Consume ==
    /\ consumer = "consume"
    /\ \/ left > 0 /\ left' = left - 1 /\ consumer' = "send"
       \/ left' = left /\ consumer' \in {"poll", "exit"}
    /\ UNCHANGED <<running, started, stopCh, jobsCh, closed, stoppedC, claimer, worker, closer, stopper, panicked>>

\* The batch is worked off, or has another message.
NextOfBatch ==
    \/ consumer' = "poll" /\ UNCHANGED left
    \/ left > 0 /\ left' = left - 1 /\ consumer' = "send"

\* A message that does not parse is acknowledged and skipped.
SkipInvalid ==
    /\ consumer = "send"
    /\ NextOfBatch
    /\ UNCHANGED <<running, started, stopCh, jobsCh, closed, stoppedC, claimer, worker, closer, stopper, panicked>>

\* select: a send on a closed channel is ready, and panics when it is chosen.
Send ==
    /\ consumer = "send"
    /\ \/ closed /\ panicked' = TRUE /\ UNCHANGED <<jobsCh, consumer, left>>
       \/ ~closed /\ jobsCh < ChanCap /\ jobsCh' = jobsCh + 1 /\ NextOfBatch /\ UNCHANGED panicked
       \/ stopCh /\ consumer' = "exit" /\ UNCHANGED <<jobsCh, panicked, left>>
    /\ UNCHANGED <<running, started, stopCh, closed, stoppedC, claimer, worker, closer, stopper>>

-----------------------------------------------------------------------------
(* claimLoop *)

\* select over the stop channel and the ticker; when both are ready either
\* may be chosen.  A pass may have claimed a message.
ClaimTick ==
    /\ claimer = "wait"
    /\ claimer' \in {"send"} \union (IF stopCh THEN {"exit"} ELSE {})
    /\ UNCHANGED <<running, started, channels, consumer, worker, closer, stopper, panicked>>

\* The same select as in Send, with a default case for a full channel; then the
\* next claimed message, if there is one.
ClaimSend ==
    /\ claimer = "send"
    /\ \/ closed /\ panicked' = TRUE /\ UNCHANGED <<jobsCh, claimer>>
       \/ /\ ~closed /\ jobsCh < ChanCap
          /\ jobsCh' = jobsCh + 1 /\ claimer' \in {"send", "wait"} /\ UNCHANGED panicked
       \/ ~closed /\ ~stopCh /\ jobsCh = ChanCap /\ claimer' \in {"send", "wait"} /\ UNCHANGED <<jobsCh, panicked>>
       \/ stopCh /\ claimer' = "wait" /\ UNCHANGED <<jobsCh, panicked>>
    /\ UNCHANGED <<running, started, stopCh, closed, stoppedC, left, consumer, worker, closer, stopper>>

\* The pass ends: nothing was claimed, or nothing of the rest parses.
ClaimNothing ==
    /\ claimer = "send"
    /\ claimer' = "wait"
    /\ UNCHANGED <<running, started, channels, consumer, worker, closer, stopper, panicked>>

-----------------------------------------------------------------------------
(* worker: for item := range p.jobsCh *)

\* Mutant of Receive: the worker polls the stop channel like the loops do.
ReceiveUntilStop(w) ==
    /\ worker[w] = "recv"
    /\ \/ jobsCh > 0 /\ jobsCh' = jobsCh - 1 /\ worker' = [worker EXCEPT ![w] = "run"]
       \/ stopCh /\ worker' = [worker EXCEPT ![w] = "exit"] /\ UNCHANGED jobsCh
    /\ UNCHANGED <<running, started, stopCh, closed, stoppedC, left, consumer, claimer, closer, stopper, panicked>>

\* A closed channel still hands out what is buffered, then ends the loop.
Receive(w) ==
    /\ worker[w] = "recv"
    /\ \/ jobsCh > 0 /\ jobsCh' = jobsCh - 1 /\ worker' = [worker EXCEPT ![w] = "run"]
       \/ jobsCh = 0 /\ closed /\ worker' = [worker EXCEPT ![w] = "exit"] /\ UNCHANGED jobsCh
    /\ UNCHANGED <<running, started, stopCh, closed, stoppedC, left, consumer, claimer, closer, stopper, panicked>>

JobDone(w) ==
    /\ worker[w] = "run"
    /\ worker' = [worker EXCEPT ![w] = "recv"]
    /\ UNCHANGED <<running, started, channels, consumer, claimer, closer, stopper, panicked>>

-----------------------------------------------------------------------------
Alive ==
    \/ Start \/ Stop \/ StopReturns
    \/ CloseJobs \/ Join
    \/ Poll \/ Consume \/ SkipInvalid \/ Send
    \/ ClaimTick \/ ClaimSend \/ ClaimNothing
    \/ \E w \in Workers : Receive(w) \/ JobDone(w)

\* A panic ends the process, and so does the return of Stop.
Over ==
    /\ panicked \/ (stopper # "waiting" /\ started)
    /\ UNCHANGED vars

Next == (~panicked /\ Alive) \/ Over

Fairness ==
    /\ WF_vars(~panicked /\ (Poll \/ Consume \/ SkipInvalid \/ Send))
    /\ WF_vars(~panicked /\ (ClaimTick \/ ClaimSend))
    /\ SF_vars(~panicked /\ claimer = "wait" /\ ClaimTick /\ claimer' = "exit")
    /\ WF_vars(~panicked /\ (CloseJobs \/ Join))
    /\ \A w \in Workers : WF_vars(~panicked /\ (Receive(w) \/ JobDone(w)))

Spec == Init /\ [][Next]_vars /\ Fairness

-----------------------------------------------------------------------------
(* Properties *)

Flags ==
    /\ running \in BOOLEAN /\ started \in BOOLEAN /\ stopCh \in BOOLEAN
    /\ closed \in BOOLEAN /\ stoppedC \in BOOLEAN /\ panicked \in BOOLEAN

Positions ==
    /\ jobsCh \in 0..ChanCap
    /\ left \in 0..MaxJobs
    /\ consumer \in {"off", "poll", "consume", "send", "exit"}
    /\ claimer \in {"off", "wait", "send", "exit"}
    /\ worker \in [Workers -> {"off", "recv", "run", "exit"}]
    /\ closer \in {"off", "wait", "join", "exit"}
    /\ stopper \in {"idle", "waiting", "stopped", "timedOut"}

\* Every goroutine is at one of its steps, and the channel within its capacity.
TypeOK == Flags /\ Positions

\* When the processor reports that it has stopped, no goroutine is left and no
\* message that reached the channel was thrown away.
StoppedMeansDrained == stoppedC => AllExited /\ jobsCh = 0

\* Stop of a processor whose goroutines run ends: with the stopped signal, or
\* with the panic of a send on the channel that Stop has closed.
StopEnds == (stopCh /\ consumer # "off") ~> (stoppedC \/ panicked)
=============================================================================
