------------------------------- MODULE Fanout -------------------------------
(***************************************************************************)
(* One call of Orchid's FanoutExecutor.ExecuteWithOptions: the caller      *)
(* that starts the rest and collects results, the goroutine that sends the *)
(* items, the workers, and the goroutine that closes the result channel    *)
(* after wg.Wait (orchid/pkg/execution/fanout.go).  Items are      *)
(* their indices; both channels are FIFO and have room for every item, so  *)
(* the item channel is the interval of the indices sent and not received.  *)
(***************************************************************************)
EXTENDS Integers, Sequences, FiniteSets

CONSTANTS
    NItems,     \* length of the evaluated iterate_over list
    Workers,    \* worker goroutines: min(Concurrency, NItems) of them
    MayAbort,   \* TRUE: a sub-step's abort_when may hold
    MayCancel   \* TRUE: the plan's deadline may pass during the call

ASSUME FanoutAssumptions ==
    /\ NItems \in Nat \ {0}
    /\ IsFiniteSet(Workers) /\ Cardinality(Workers) \in 1..NItems
    /\ MayAbort \in BOOLEAN
    /\ MayCancel \in BOOLEAN

Items == 1..NItems
Outcomes == {"ok", "error"} \union (IF MayAbort THEN {"abort"} ELSE {})

VARIABLES
    cancelled,   \* workerCtx is done
    sender,      \* the sending goroutine: "off", "send" or "exit"
    sent,        \* items sent to itemChan
    received,    \* items taken from itemChan
    itemClosed,  \* itemChan is closed
    worker,      \* [Workers -> item in hand, 0: at the range, -1: returned]
    started,     \* history: how often the sub-steps of each item were begun
    resultChan,  \* Seq of <<item, outcome>>
    resClosed,   \* resultChan is closed
    results,     \* [Items -> outcome or "none"], FanoutResult.Results
    caller       \* the caller: "call", "collect", "aborted", "returned" or "refused"

vars == <<cancelled, sender, sent, received, itemClosed, worker, started,
          resultChan, resClosed, results, caller>>

AtRange == 0
Returned == -1

Init ==
    /\ cancelled = FALSE
    /\ sender = "off"
    /\ sent = 0
    /\ received = 0
    /\ itemClosed = FALSE
    /\ worker = [w \in Workers |-> Returned]
    /\ started = [i \in Items |-> 0]
    /\ resultChan = <<>>
    /\ resClosed = FALSE
    /\ results = [i \in Items |-> "none"]
    /\ caller = "call"

\* The nesting is too deep, iterate_over is missing or does not evaluate, or
\* there are no items: nothing is started.
Refuse ==
    /\ caller = "call"
    /\ caller' = "refused"
    /\ UNCHANGED <<cancelled, sender, sent, received, itemClosed, worker, started,
                   resultChan, resClosed, results>>

\* The channels are made and the goroutines started.
Begin ==
    /\ caller = "call"
    /\ caller' = "collect"
    /\ sender' = "send"
    /\ worker' = [w \in Workers |-> AtRange]
    /\ UNCHANGED <<cancelled, sent, received, itemClosed, started, resultChan, resClosed, results>>

\* The deadline of the execution passes, or the parent fanout is aborted.
Cancel ==
    /\ MayCancel
    /\ ~cancelled
    /\ cancelled' = TRUE
    /\ UNCHANGED <<sender, sent, received, itemClosed, worker, started,
                   resultChan, resClosed, results, caller>>

-----------------------------------------------------------------------------
(* The sending goroutine *)

SendItem ==
    /\ sender = "send"
    /\ sent < NItems
    /\ sent' = sent + 1
    /\ UNCHANGED <<cancelled, sender, received, itemClosed, worker, started,
                   resultChan, resClosed, results, caller>>

\* case <-workerCtx.Done(): return, without closing the channel.
SenderQuits ==
    /\ sender = "send"
    /\ sent < NItems
    /\ cancelled
    /\ sender' = "exit"
    /\ UNCHANGED <<cancelled, sent, received, itemClosed, worker, started,
                   resultChan, resClosed, results, caller>>

\* Mutant of CloseItems: the channel is not closed on the normal path either.
CloseItemsNever ==
    /\ sender = "send"
    /\ sent = NItems
    /\ sender' = "exit"
    /\ UNCHANGED <<cancelled, sent, received, itemClosed, worker, started,
                   resultChan, resClosed, results, caller>>

CloseItems ==
    /\ sender = "send"
    /\ sent = NItems
    /\ itemClosed' = TRUE
    /\ sender' = "exit"
    /\ UNCHANGED <<cancelled, sent, received, worker, started,
                   resultChan, resClosed, results, caller>>

-----------------------------------------------------------------------------
(* A worker *)

\* Receive the next item and begin its sub-steps.
TakeItem(w) ==
    /\ worker[w] = AtRange
    /\ received < sent
    /\ ~cancelled
    /\ received' = received + 1
    /\ worker' = [worker EXCEPT ![w] = received + 1]
    /\ started' = [started EXCEPT ![received + 1] = @ + 1]
    /\ UNCHANGED <<cancelled, sender, sent, itemClosed, resultChan, resClosed, results, caller>>

\* Receive an item after the context is done: the item is dropped.
DropItem(w) ==
    /\ worker[w] = AtRange
    /\ received < sent
    /\ cancelled
    /\ received' = received + 1
    /\ worker' = [worker EXCEPT ![w] = Returned]
    /\ UNCHANGED <<cancelled, sender, sent, itemClosed, started, resultChan, resClosed, results, caller>>

\* The range loop ends when the channel is closed and empty.
RangeEnds(w) ==
    /\ worker[w] = AtRange
    /\ received = sent
    /\ itemClosed
    /\ worker' = [worker EXCEPT ![w] = Returned]
    /\ UNCHANGED <<cancelled, sender, sent, received, itemClosed, started,
                   resultChan, resClosed, results, caller>>

\* Mutant of FinishItem: an item that failed is not reported.
FinishItemQuietly(w) ==
    /\ worker[w] \in Items
    /\ \E o \in Outcomes :
         resultChan' = IF o = "error" THEN resultChan ELSE Append(resultChan, <<worker[w], o>>)
    /\ worker' = [worker EXCEPT ![w] = AtRange]
    /\ UNCHANGED <<cancelled, sender, sent, received, itemClosed, started,
                   resClosed, results, caller>>

\* The sub-steps ran, or failed under a done context.  Nested fanouts are
\* calls of the same kind and stand behind the outcome.
FinishItem(w) ==
    /\ worker[w] \in Items
    /\ \E o \in Outcomes : resultChan' = Append(resultChan, <<worker[w], o>>)
    /\ worker' = [worker EXCEPT ![w] = AtRange]
    /\ UNCHANGED <<cancelled, sender, sent, received, itemClosed, started,
                   resClosed, results, caller>>

-----------------------------------------------------------------------------
(* The closing goroutine and the caller *)

\* wg.Wait(); close(resultChan)
CloseResults ==
    /\ ~resClosed
    /\ sender # "off"
    /\ \A w \in Workers : worker[w] = Returned
    /\ resClosed' = TRUE
    /\ UNCHANGED <<cancelled, sender, sent, received, itemClosed, worker, started,
                   resultChan, results, caller>>

\* One turn of the result loop; an abort cancels the workers and leaves it.
Collect ==
    /\ caller = "collect"
    /\ resultChan # <<>>
    /\ LET r == Head(resultChan) IN
         /\ results' = [results EXCEPT ![r[1]] = r[2]]
         /\ IF r[2] = "abort"
            THEN caller' = "aborted" /\ cancelled' = TRUE
            ELSE UNCHANGED <<caller, cancelled>>
    /\ resultChan' = Tail(resultChan)
    /\ UNCHANGED <<sender, sent, received, itemClosed, worker, started, resClosed>>

\* The result loop ends; the deferred cancel runs on return.
Return ==
    /\ caller = "collect"
    /\ resultChan = <<>>
    /\ resClosed
    /\ caller' = "returned"
    /\ UNCHANGED <<cancelled, sender, sent, received, itemClosed, worker, started,
                   resultChan, resClosed, results>>

-----------------------------------------------------------------------------
Done ==
    /\ caller \notin {"call", "collect"}
    /\ UNCHANGED vars

Next ==
    \/ Cancel
    \/ Refuse \/ Begin
    \/ SendItem \/ SenderQuits \/ CloseItems
    \/ \E w \in Workers : TakeItem(w) \/ DropItem(w) \/ RangeEnds(w) \/ FinishItem(w)
    \/ CloseResults
    \/ Collect \/ Return
    \/ Done

\* Every goroutine that can run does; sub-steps end.
Fairness ==
    /\ WF_vars(SendItem \/ SenderQuits \/ CloseItems)
    /\ \A w \in Workers : WF_vars(TakeItem(w) \/ DropItem(w) \/ RangeEnds(w) \/ FinishItem(w))
    /\ WF_vars(CloseResults)
    /\ WF_vars(Refuse \/ Begin \/ Collect \/ Return)

Spec == Init /\ [][Next]_vars /\ Fairness

-----------------------------------------------------------------------------
(* Properties *)

\* Every goroutine is at one of its steps, no item is started twice, and the workers
\* receive no more than was sent.
TypeOK ==
    /\ cancelled \in BOOLEAN /\ itemClosed \in BOOLEAN /\ resClosed \in BOOLEAN
    /\ sender \in {"off", "send", "exit"}
    /\ sent \in 0..NItems
    /\ received \in 0..sent
    /\ worker \in [Workers -> Items \union {AtRange, Returned}]
    /\ started \in [Items -> 0..1]
    /\ resultChan \in Seq(Items \X Outcomes) /\ Len(resultChan) <= NItems
    /\ results \in [Items -> Outcomes \union {"none"}]
    /\ caller \in {"call", "collect", "aborted", "returned", "refused"}

\* Where an item is: waiting, with a worker, on the way to the caller, or
\* collected.
Reported(i) == results[i] # "none" \/ \E k \in 1..Len(resultChan) : resultChan[k][1] = i
InHand(i) == \E w \in Workers : worker[w] = i

\* Until the context is done no item gets lost between the channels: each is
\* unsent or buffered, with a worker, or reported.  When the call returns then,
\* without an abort or a timeout, the caller has the outcome of every item, and
\* each was run exactly once.
NoItemLost ==
    ~cancelled => \A i \in Items :
        /\ i > received \/ InHand(i) \/ Reported(i)
        /\ caller = "returned" => results[i] # "none" /\ started[i] = 1

\* The call returns unless the sender gives up with items left to send, because the context
\* was done by then: once all are sent it returns, whatever is cancelled later.
ReturnsOnceSent ==
    <>(caller \notin {"call", "collect"} \/ (sender = "exit" /\ sent < NItems))
=============================================================================
