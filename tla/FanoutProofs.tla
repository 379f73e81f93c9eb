---------------------------- MODULE FanoutProofs ----------------------------
(***************************************************************************)
(* Proofs about the two places where Orchid's goroutines share channels:   *)
(* one call of the FanoutExecutor, for any number of items and of workers, *)
(* and the Start and Stop of the queue Processor (ProcessorLifecycle).     *)
(***************************************************************************)
EXTENDS Fanout, FiniteSetTheorems, FunctionTheorems, TLAPS

-----------------------------------------------------------------------------
(* The inductive invariant *)

Types ==
    /\ sender \in {"off", "send", "exit"}
    /\ sent \in 0..NItems
    /\ received \in 0..sent
    /\ worker \in [Workers -> Items \union {AtRange, Returned}]
    /\ started \in [Items -> 0..1]
    /\ resultChan \in Seq(Items \X Outcomes)
    /\ results \in [Items -> Outcomes \union {"none"}]
    /\ caller \in {"call", "collect", "aborted", "returned", "refused"}

InChan(i) == \E k \in 1..Len(resultChan) : resultChan[k][1] = i

\* Nothing is started before Begin, and nothing after a refusal.
NothingBeforeBegin ==
    caller \in {"call", "refused"} <=> sender = "off"

\* An item is in one place only: with one worker, in the result channel once,
\* or collected; and wherever it is, it was received and started.
OneWorker == \A v, w \in Workers : worker[v] \in Items /\ worker[v] = worker[w] => v = w
OneReport == \A k, l \in 1..Len(resultChan) : resultChan[k][1] = resultChan[l][1] => k = l
InHandOnly == \A i \in Items : InHand(i) => ~InChan(i) /\ results[i] = "none"
InChanOnly == \A i \in Items : InChan(i) => results[i] = "none"
Begun == \A i \in Items :
           /\ i > received => started[i] = 0
           /\ InHand(i) \/ Reported(i) => i <= received /\ started[i] = 1

\* Until the context is done a received item is with a worker or reported, and
\* a worker returns only when every item was received.
Received == ~cancelled => \A i \in 1..received : InHand(i) \/ Reported(i)
ReturnedMeansAll ==
    ~cancelled /\ sender # "off" => \A w \in Workers : worker[w] = Returned => itemClosed /\ received = sent
ClosedMeansSent == itemClosed => sent = NItems

\* The result channel is closed behind the last worker, and the result loop
\* ends over the closed and empty channel.
Closed ==
    /\ sender = "off" \/ resClosed => \A w \in Workers : worker[w] = Returned
    /\ resClosed => sender # "off"
    /\ caller = "returned" => resClosed /\ resultChan = <<>>

Places == OneWorker /\ OneReport /\ InHandOnly /\ InChanOnly /\ Begun
Protocol == NothingBeforeBegin /\ ReturnedMeansAll /\ ClosedMeansSent /\ Closed

IInv == Types /\ Places /\ Received /\ Protocol

-----------------------------------------------------------------------------
(* Lemmas about the result channel *)

LEMMA NoneIsNoOutcome == "none" \notin Outcomes
  BY DEF Outcomes

\* A report is added behind the ones that are there.
LEMMA ChanAppend ==
  ASSUME Types, NEW i \in Items, NEW o \in Outcomes,
         resultChan' = Append(resultChan, <<i, o>>)
  PROVE  /\ resultChan' \in Seq(Items \X Outcomes)
         /\ \A x \in Items : InChan(x)' <=> InChan(x) \/ x = i
         /\ OneReport /\ ~InChan(i) => OneReport'
<1> DEFINE n == Len(resultChan)
<1>1. /\ resultChan' \in Seq(Items \X Outcomes)
      /\ Len(resultChan') = n + 1 /\ n \in Nat
      /\ resultChan'[n + 1] = <<i, o>>
      /\ \A k \in 1..n : resultChan'[k] = resultChan[k]
  BY DEF Types
<1> HIDE DEF n
<1>2. 1..Len(resultChan') = 1..n \union {n + 1} /\ n + 1 \notin 1..n /\ 1..n = 1..Len(resultChan)
  BY <1>1 DEF n
<1>3. resultChan'[n + 1][1] = i
  BY <1>1
<1>4. \A x \in Items : InChan(x)' <=> InChan(x) \/ x = i
  BY <1>1, <1>2, <1>3 DEF InChan
<1>5. ASSUME OneReport, ~InChan(i) PROVE OneReport'
  BY <1>1, <1>2, <1>3, <1>5 DEF OneReport, InChan
<1> QED BY <1>1, <1>4, <1>5

\* The first report is taken out.
LEMMA ChanTail ==
  ASSUME Types, OneReport, resultChan # <<>>, resultChan' = Tail(resultChan)
  PROVE  /\ resultChan' \in Seq(Items \X Outcomes)
         /\ Head(resultChan) \in Items \X Outcomes
         /\ InChan(Head(resultChan)[1])
         /\ \A x \in Items : InChan(x)' <=> InChan(x) /\ x # Head(resultChan)[1]
         /\ OneReport'
<1> DEFINE n == Len(resultChan)
<1>1. /\ resultChan' \in Seq(Items \X Outcomes)
      /\ Len(resultChan') = n - 1 /\ n \in Nat /\ n > 0
      /\ \A k \in 1..(n - 1) : resultChan'[k] = resultChan[k + 1]
      /\ Head(resultChan) = resultChan[1] /\ resultChan[1] \in Items \X Outcomes
  BY DEF Types
<1> HIDE DEF n
<1>2. 1..Len(resultChan') = 1..(n - 1) /\ 1..Len(resultChan) = 1..n /\ 1 \in 1..n
  BY <1>1 DEF n
<1>3. \A k \in 1..n : k = 1 \/ (k - 1 \in 1..(n - 1) /\ resultChan'[k - 1] = resultChan[k])
  BY <1>1
<1>4. \A k \in 1..(n - 1) : k + 1 \in 1..n /\ k + 1 # 1
  BY <1>1
<1>5. InChan(Head(resultChan)[1])
  BY <1>1, <1>2 DEF InChan
<1>6. ASSUME NEW x \in Items, InChan(x)' PROVE InChan(x) /\ x # Head(resultChan)[1]
  <2>1. PICK k \in 1..(n - 1) : resultChan'[k][1] = x
    BY <1>2, <1>6 DEF InChan
  <2>2. resultChan[k + 1][1] = x /\ k + 1 \in 1..n /\ k + 1 # 1
    BY <1>1, <1>4, <2>1
  <2> QED BY <1>1, <1>2, <2>2 DEF InChan, OneReport
<1>7. ASSUME NEW x \in Items, InChan(x), x # Head(resultChan)[1] PROVE InChan(x)'
  <2>1. PICK k \in 1..n : resultChan[k][1] = x
    BY <1>2, <1>7 DEF InChan
  <2> QED BY <1>1, <1>2, <1>3, <1>7, <2>1 DEF InChan
<1>8. OneReport'
  BY <1>1, <1>2, <1>4 DEF OneReport
<1> QED BY <1>1, <1>5, <1>6, <1>7, <1>8

\* Reported, in terms of InChan.
LEMMA ReportedDef == \A i : Reported(i) <=> results[i] # "none" \/ InChan(i)
  BY DEF Reported, InChan

-----------------------------------------------------------------------------
(* The steps *)

\* Steps that leave every item where it is: all but the workers' and Collect.
Stays ==
    \/ Cancel \/ Refuse \/ SendItem \/ SenderQuits \/ CloseItems
    \/ CloseResults \/ Return \/ Done \/ UNCHANGED vars

LEMMA StepCases ==
  ASSUME [Next]_vars
  PROVE  \/ Stays \/ Begin \/ Collect
         \/ \E w \in Workers : TakeItem(w) \/ DropItem(w) \/ RangeEnds(w) \/ FinishItem(w)
  BY DEF Next, Stays

LEMMA StaysMovesNothing ==
  ASSUME Stays PROVE UNCHANGED <<received, worker, started, resultChan, results>>
  BY DEF Stays, Cancel, Refuse, SendItem, SenderQuits, CloseItems, CloseResults, Return, Done, vars

LEMMA InitIInv == Init => IInv
<1> SUFFICES ASSUME Init PROVE IInv
  OBVIOUS
<1>1. Types
  <2>1. <<>> \in Seq(Items \X Outcomes)
    OBVIOUS
  <2> QED BY <2>1, FanoutAssumptions DEF Init, Types
<1>2. /\ \A i \in Items : ~InHand(i) /\ ~InChan(i) /\ ~Reported(i)
      /\ \A w \in Workers : worker[w] = Returned
  BY FanoutAssumptions DEF Init, InHand, InChan, Reported, Items, Returned
<1>3. Places
  BY <1>2, FanoutAssumptions DEF Init, Places, OneWorker, OneReport, InHandOnly, InChanOnly,
                                 Begun, Items, Returned
<1>4. Received
  BY FanoutAssumptions DEF Init, Received
<1>5. Protocol
  BY <1>2 DEF Init, Protocol, NothingBeforeBegin, ReturnedMeansAll, ClosedMeansSent, Closed
<1> QED BY <1>1, <1>3, <1>4, <1>5 DEF IInv

LEMMA TypesStep ==
  ASSUME IInv, [Next]_vars
  PROVE  Types'
<1> USE FanoutAssumptions DEF IInv
<1>1. CASE Stays
  BY <1>1 DEF Types, Stays, Cancel, Refuse, SendItem, SenderQuits, CloseItems, CloseResults,
              Return, Done, vars
<1>2. CASE Begin
  BY <1>2 DEF Types, Begin
<1>3. CASE Collect
  <2>1. /\ resultChan' \in Seq(Items \X Outcomes)
        /\ Head(resultChan)[1] \in Items /\ Head(resultChan)[2] \in Outcomes
    BY <1>3, ChanTail DEF Collect, Places
  <2> QED BY <1>3, <2>1 DEF Types, Collect
<1>4. ASSUME NEW w \in Workers, TakeItem(w) PROVE Types'
  <2>1. received + 1 \in Items /\ received + 1 <= sent /\ started[received + 1] = 0
    BY <1>4 DEF TakeItem, Types, Items, Places, Begun
  <2> QED BY <1>4, <2>1 DEF TakeItem, Types
<1>5. ASSUME NEW w \in Workers, DropItem(w) \/ RangeEnds(w) PROVE Types'
  BY <1>5 DEF DropItem, RangeEnds, Types
<1>6. ASSUME NEW w \in Workers, FinishItem(w) PROVE Types'
  <2>1. resultChan' \in Seq(Items \X Outcomes)
    BY <1>6, ChanAppend DEF FinishItem
  <2> QED BY <1>6, <2>1 DEF FinishItem, Types
<1> QED BY <1>1, <1>2, <1>3, <1>4, <1>5, <1>6, StepCases

\* An item is never in two places.
LEMMA PlacesStep ==
  ASSUME IInv, [Next]_vars
  PROVE  Places'
<1> USE FanoutAssumptions DEF IInv, Places
<1>0. Items \subseteq Nat \ {0} /\ AtRange \notin Items /\ Returned \notin Items
  BY DEF Items, AtRange, Returned
<1>1. CASE Stays
  <2>1. UNCHANGED <<received, worker, started, resultChan, results>>
    BY <1>1, StaysMovesNothing
  <2> QED BY <2>1 DEF OneWorker, OneReport, InHandOnly, InChanOnly, Begun, InHand, InChan, Reported
<1>2. CASE Begin
  <2>1. \A i \in Items : ~InHand(i)' /\ (InChan(i)' <=> InChan(i)) /\ (Reported(i)' <=> Reported(i))
    BY <1>0, <1>2 DEF Begin, InHand, InChan, Reported
  <2>2. OneWorker'
    BY <1>0, <1>2 DEF Begin, OneWorker
  <2> QED BY <1>2, <2>1, <2>2 DEF Begin, OneReport, InHandOnly, InChanOnly, Begun
<1>3. CASE Collect
  <2> DEFINE h == Head(resultChan)[1]
             o == Head(resultChan)[2]
  <2>1. h \in Items /\ o \in Outcomes /\ InChan(h) /\ OneReport'
    BY <1>3, ChanTail DEF Collect
  <2>2. \A x \in Items : InChan(x)' <=> InChan(x) /\ x # h
    BY <1>3, ChanTail DEF Collect
  <2>3. /\ results' = [results EXCEPT ![h] = o]
        /\ UNCHANGED <<received, worker, started>>
    BY <1>3 DEF Collect
  <2> HIDE DEF h, o
  <2>4. results'[h] # "none" /\ \A x \in Items : x # h => results'[x] = results[x]
    BY <2>1, <2>3, NoneIsNoOutcome DEF Types
  <2>5. \A x \in Items : InHand(x)' <=> InHand(x)
    BY <2>3 DEF InHand
  <2>6. ~InHand(h)
    BY <2>1 DEF InHandOnly
  <2>7. \A x \in Items : Reported(x)' => Reported(x)
    BY <2>1, <2>2, <2>4 DEF Reported, InChan
  <2>8. OneWorker' /\ InHandOnly' /\ InChanOnly'
    BY <2>1, <2>2, <2>3, <2>4, <2>5, <2>6 DEF OneWorker, InHandOnly, InChanOnly
  <2>9. Begun'
    BY <2>3, <2>5, <2>7 DEF Begun
  <2> QED BY <2>1, <2>8, <2>9
<1>4. ASSUME NEW w \in Workers, TakeItem(w) PROVE Places'
  <2> DEFINE r == received + 1
  <2>1. r \in Items /\ r > received /\ received' = r
    BY <1>4 DEF TakeItem, Types, Items
  <2>2. ~InHand(r) /\ ~Reported(r) /\ started[r] = 0
    BY <2>1 DEF Begun, Items, Types
  <2>3. /\ worker' = [worker EXCEPT ![w] = r]
        /\ started' = [started EXCEPT ![r] = 1]
        /\ UNCHANGED <<resultChan, results>>
    BY <1>4, <2>2 DEF TakeItem
  <2>4. received \in Nat
    BY DEF Types
  <2> HIDE DEF r
  <2>5. \A x \in Items : InHand(x)' <=> InHand(x) \/ x = r
    BY <1>0, <1>4, <2>1, <2>3 DEF InHand, TakeItem, Types
  <2>6. \A x \in Items : (InChan(x)' <=> InChan(x)) /\ (Reported(x)' <=> Reported(x))
    BY <2>3 DEF InChan, Reported
  <2>7. OneWorker'
    BY <2>2, <2>3 DEF OneWorker, InHand, Types
  <2>8. OneReport' /\ InChanOnly'
    BY <2>3, <2>6 DEF OneReport, InChanOnly
  <2>9. InHandOnly'
    BY <2>2, <2>3, <2>5, <2>6 DEF InHandOnly, Reported, InChan
  <2>10. Begun'
    BY <2>1, <2>2, <2>3, <2>4, <2>5, <2>6 DEF Begun, Types, Items
  <2> QED BY <2>7, <2>8, <2>9, <2>10
<1>5. ASSUME NEW w \in Workers, DropItem(w) \/ RangeEnds(w) PROVE Places'
  <2>1. worker[w] \notin Items /\ worker' = [worker EXCEPT ![w] = Returned]
    BY <1>0, <1>5 DEF DropItem, RangeEnds
  <2>2. UNCHANGED <<started, resultChan, results>> /\ received' \in Nat /\ received' >= received
    BY <1>5 DEF DropItem, RangeEnds, Types
  <2>3. \A x \in Items : InHand(x)' <=> InHand(x)
    BY <1>0, <2>1 DEF InHand, Types
  <2>4. \A x \in Items : (InChan(x)' <=> InChan(x)) /\ (Reported(x)' <=> Reported(x))
    BY <2>2 DEF InChan, Reported
  <2>5. OneWorker'
    BY <1>0, <2>1 DEF OneWorker, Types
  <2>6. OneReport' /\ InHandOnly' /\ InChanOnly'
    BY <2>2, <2>3, <2>4 DEF OneReport, InHandOnly, InChanOnly
  <2>7. Begun'
    BY <1>0, <2>2, <2>3, <2>4 DEF Begun, Types
  <2> QED BY <2>5, <2>6, <2>7
<1>6. ASSUME NEW w \in Workers, FinishItem(w) PROVE Places'
  <2> DEFINE i == worker[w]
  <2>1. i \in Items /\ InHand(i) /\ ~InChan(i) /\ results[i] = "none"
    BY <1>6 DEF FinishItem, InHand, InHandOnly
  <2>2. OneReport' /\ \A x \in Items : InChan(x)' <=> InChan(x) \/ x = i
    BY <1>6, <2>1, ChanAppend DEF FinishItem
  <2>3. worker' = [worker EXCEPT ![w] = AtRange] /\ UNCHANGED <<received, started, results>>
    BY <1>6 DEF FinishItem
  <2>4. \A x \in Items : InHand(x)' <=> InHand(x) /\ x # i
    BY <1>0, <2>1, <2>3 DEF InHand, OneWorker, Types
  <2>5. OneWorker'
    BY <1>0, <2>3 DEF OneWorker, Types
  <2>6. \A x \in Items : Reported(x)' <=> Reported(x) \/ x = i
    BY <2>2, <2>3 DEF Reported, InChan
  <2> HIDE DEF i
  <2>7. InHandOnly' /\ InChanOnly'
    BY <2>1, <2>2, <2>3, <2>4 DEF InHandOnly, InChanOnly
  <2>8. Begun'
    BY <2>1, <2>3, <2>4, <2>6 DEF Begun
  <2> QED BY <2>2, <2>5, <2>7, <2>8
<1> QED BY <1>1, <1>2, <1>3, <1>4, <1>5, <1>6, StepCases

\* An item that was received stays with a worker until it is reported.
LEMMA ReceivedStep ==
  ASSUME IInv, [Next]_vars
  PROVE  Received'
<1> SUFFICES ASSUME ~cancelled', NEW i \in 1..received'
             PROVE  InHand(i)' \/ Reported(i)'
  BY DEF Received
<1> USE FanoutAssumptions DEF IInv
<1>0. ~cancelled
  BY StepCases DEF Stays, Cancel, Refuse, SendItem, SenderQuits, CloseItems, CloseResults, Return,
                   Done, vars, Begin, Collect, TakeItem, DropItem, RangeEnds, FinishItem
<1>1. i \in 1..received => InHand(i) \/ Reported(i)
  BY <1>0 DEF Received
<1>2. 1..received \subseteq Items /\ AtRange \notin Items
  BY DEF Types, Items, AtRange
<1>3. CASE Stays
  BY <1>1, <1>3, StaysMovesNothing DEF InHand, Reported
<1>4. CASE Begin
  <2>1. ~InHand(i) /\ UNCHANGED <<received, resultChan, results>>
    BY <1>2, <1>4 DEF Begin, InHand, Protocol, Closed, NothingBeforeBegin, Items, Returned
  <2> QED BY <1>1, <2>1 DEF Reported
<1>5. CASE Collect
  <2> DEFINE h == Head(resultChan)[1]
  <2>1. h \in Items /\ Head(resultChan)[2] \in Outcomes
    BY <1>5, ChanTail DEF Collect, Places
  <2>2. \A x \in Items : InChan(x)' <=> InChan(x) /\ x # h
    BY <1>5, ChanTail DEF Collect, Places
  <2>3. /\ results' = [results EXCEPT ![h] = Head(resultChan)[2]]
        /\ UNCHANGED <<received, worker>>
    BY <1>5 DEF Collect
  <2>4. \A x \in Items : results'[x] = "none" => results[x] = "none" /\ x # h
    BY <2>1, <2>3, NoneIsNoOutcome DEF Types
  <2> HIDE DEF h
  <2>5. i \in Items /\ i \in 1..received
    BY <1>2, <2>3
  <2>6. Reported(i) => Reported(i)'
    BY <2>2, <2>4, <2>5 DEF Reported, InChan
  <2> QED BY <1>1, <2>3, <2>5, <2>6 DEF InHand
<1>6. ASSUME NEW w \in Workers, TakeItem(w) PROVE InHand(i)' \/ Reported(i)'
  <2>1. i \in 1..received \/ i = received + 1
    BY <1>6 DEF TakeItem, Types
  <2>2. CASE i = received + 1
    BY <1>6, <2>2 DEF TakeItem, InHand, Types
  <2>3. CASE i \in 1..received
    <3>1. Reported(i) => Reported(i)'
      BY <1>6 DEF TakeItem, Reported
    <3>2. InHand(i) => InHand(i)'
      BY <1>2, <1>6, <2>3 DEF TakeItem, InHand, Types
    <3> QED BY <1>1, <2>3, <3>1, <3>2
  <2> QED BY <2>1, <2>2, <2>3
<1>7. ASSUME NEW w \in Workers, RangeEnds(w) PROVE InHand(i)' \/ Reported(i)'
  <2>1. Reported(i) => Reported(i)'
    BY <1>7 DEF RangeEnds, Reported
  <2>2. InHand(i) => InHand(i)'
    BY <1>2, <1>7 DEF RangeEnds, InHand, Types
  <2> QED BY <1>1, <1>7, <2>1, <2>2 DEF RangeEnds
<1>8. ASSUME NEW w \in Workers, DropItem(w) PROVE FALSE
  BY <1>0, <1>8 DEF DropItem
<1>9. ASSUME NEW w \in Workers, FinishItem(w) PROVE InHand(i)' \/ Reported(i)'
  <2>1. \A x \in Items : InChan(x)' <=> InChan(x) \/ x = worker[w]
    BY <1>9, ChanAppend DEF FinishItem
  <2>2. i \in Items /\ i \in 1..received /\ UNCHANGED results
    BY <1>2, <1>9 DEF FinishItem
  <2>3. InHand(i) => InHand(i)' \/ i = worker[w]
    BY <1>9 DEF FinishItem, InHand, Types
  <2> QED BY <1>1, <2>1, <2>2, <2>3 DEF Reported, InChan
<1> QED BY <1>3, <1>4, <1>5, <1>6, <1>7, <1>8, <1>9, StepCases

\* The order in which the channels are closed.
LEMMA ProtocolStep ==
  ASSUME IInv, [Next]_vars
  PROVE  Protocol'
<1> USE FanoutAssumptions
        DEF IInv, Protocol, NothingBeforeBegin, ReturnedMeansAll, ClosedMeansSent, Closed
<1>0. Returned \notin Items /\ AtRange \notin Items /\ AtRange # Returned
  BY DEF Items, AtRange, Returned
<1>1. CASE Cancel \/ Refuse \/ SendItem \/ SenderQuits \/ CloseItems
  BY <1>1 DEF Cancel, Refuse, SendItem, SenderQuits, CloseItems, Types
<1>2. CASE CloseResults \/ Return \/ Done \/ UNCHANGED vars
  BY <1>2 DEF CloseResults, Return, Done, vars, Types
<1>3. CASE Begin
  BY <1>0, <1>3 DEF Begin, Types
<1>4. CASE Collect
  BY <1>4 DEF Collect, Types
<1>5. ASSUME NEW w \in Workers, TakeItem(w) PROVE Protocol'
  <2>1. worker[w] # Returned /\ received + 1 # Returned
    BY <1>0, <1>5 DEF TakeItem, Types, Returned
  <2>2. ~cancelled => \A v \in Workers : worker[v] # Returned
    BY <1>5, <2>1 DEF TakeItem, Types
  <2>3. \A v \in Workers : worker'[v] = Returned => worker[v] = Returned
    BY <1>5, <2>1 DEF TakeItem, Types
  <2> QED BY <1>5, <2>1, <2>2, <2>3 DEF TakeItem, Types
<1>6. ASSUME NEW w \in Workers, DropItem(w) \/ RangeEnds(w) PROVE Protocol'
  BY <1>0, <1>6 DEF DropItem, RangeEnds, Types
<1>7. ASSUME NEW w \in Workers, FinishItem(w) PROVE Protocol'
  <2>1. worker[w] # Returned /\ AtRange # Returned
    BY <1>0, <1>7 DEF FinishItem
  <2>2. \A v \in Workers : worker'[v] = Returned => worker[v] = Returned
    BY <1>7, <2>1 DEF FinishItem, Types
  <2> QED BY <1>7, <2>1, <2>2 DEF FinishItem, Types
<1> QED BY <1>1, <1>2, <1>3, <1>4, <1>5, <1>6, <1>7, StepCases DEF Stays

LEMMA IInvStep == IInv /\ [Next]_vars => IInv'
  BY TypesStep, PlacesStep, ReceivedStep, ProtocolStep DEF IInv

LEMMA IInvHolds == Spec => []IInv
  BY InitIInv, IInvStep, PTL DEF Spec

-----------------------------------------------------------------------------
(* Theorems *)

\* For any number of items and workers and however they interleave: until an
\* abort or the deadline no item gets lost between the two channels, and a
\* call that returns has one outcome of every item, each run exactly once.
THEOREM FanoutLosesNothing == Spec => []NoItemLost
<1>1. IInv => NoItemLost
  <2> SUFFICES ASSUME IInv, ~cancelled, NEW i \in Items
               PROVE  /\ i > received \/ InHand(i) \/ Reported(i)
                      /\ caller = "returned" => results[i] # "none" /\ started[i] = 1
    BY DEF NoItemLost
  <2>1. i > received \/ InHand(i) \/ Reported(i)
    BY FanoutAssumptions DEF IInv, Types, Received, Items
  <2>2. ASSUME caller = "returned" PROVE results[i] # "none" /\ started[i] = 1
    <3>1. Workers # {}
      BY FanoutAssumptions, FS_EmptySet
    <3>2. \A w \in Workers : worker[w] = Returned
      BY <2>2 DEF IInv, Protocol, Closed
    <3>3. received = NItems /\ resultChan = <<>>
      BY <2>2, <3>1, <3>2 DEF IInv, Protocol, Closed, NothingBeforeBegin, ReturnedMeansAll,
                              ClosedMeansSent
    <3>4. ~InHand(i) /\ i <= received
      BY <3>2, <3>3, FanoutAssumptions DEF InHand, Items, Returned
    <3>5. ~(i > received)
      BY <3>3, <3>4, FanoutAssumptions DEF Items
    <3>6. Reported(i)
      BY <2>1, <3>4, <3>5
    <3>7. results[i] # "none"
      BY <3>3, <3>6 DEF Reported
    <3> QED BY <3>6, <3>7 DEF IInv, Places, Begun
  <2> QED BY <2>1, <2>2
<1> QED BY <1>1, IInvHolds, PTL

\* resultChan is made with room for one result per item: no worker ever blocks
\* on it, also after the caller has left the result loop on an abort.
THEOREM ResultsFit == Spec => [](Len(resultChan) <= NItems)
<1>1. IInv => Len(resultChan) <= NItems
  <2> SUFFICES ASSUME IInv PROVE Len(resultChan) <= NItems
    OBVIOUS
  <2> DEFINE n == Len(resultChan)
             f == [k \in 1..n |-> resultChan[k][1]]
  <2>1. n \in Nat /\ \A k \in 1..n : resultChan[k][1] \in Items
    BY DEF IInv, Types
  <2>2. \A k, l \in 1..n : resultChan[k][1] = resultChan[l][1] => k = l
    BY DEF IInv, Places, OneReport
  <2> HIDE DEF n
  <2>3. f \in Injection(1..n, Items)
    BY <2>1, <2>2, Fun_IsInj
  <2>4. IsFiniteSet(Items) /\ Cardinality(Items) = NItems
    BY FS_Interval, FanoutAssumptions DEF Items
  <2>5. Cardinality(1..n) = n
    BY <2>1, FS_Interval
  <2>6. Cardinality(1..n) <= Cardinality(Items)
    BY <2>3, <2>4, FS_Injection DEF ExistsInjection
  <2> QED BY <2>4, <2>5, <2>6 DEF n
<1> QED BY <1>1, IInvHolds, PTL

\* The three flags are never anything else.
ChannelFlags == cancelled \in BOOLEAN /\ itemClosed \in BOOLEAN /\ resClosed \in BOOLEAN

LEMMA ChannelFlagsHold == Spec => []ChannelFlags
<1>1. Init => ChannelFlags
  BY DEF Init, ChannelFlags
<1>2. ChannelFlags /\ [Next]_vars => ChannelFlags'
  BY DEF ChannelFlags, Next, vars, Cancel, Refuse, Begin, SendItem, SenderQuits, CloseItems, TakeItem,
         DropItem, RangeEnds, FinishItem, CloseResults, Collect, Return, Done
<1> QED BY <1>1, <1>2, PTL DEF Spec

\* No item is started twice, the workers receive no more than was sent, and both
\* channels keep within their capacity, for any number of items and workers.
THEOREM FanoutTypes == Spec => []TypeOK
<1>1. IInv /\ ChannelFlags /\ Len(resultChan) <= NItems => TypeOK
  BY DEF IInv, Types, ChannelFlags, TypeOK
<1> QED BY <1>1, IInvHolds, ChannelFlagsHold, ResultsFit, PTL

-----------------------------------------------------------------------------
(* Start and Stop of the queue Processor, the other place where Orchid's   *)
(* goroutines share channels: for any number of workers, any capacity of   *)
(* the jobs channel and any number of messages.                            *)

CONSTANTS Pool, ChanCap, MaxJobs
VARIABLES running, poolStarted, stopCh, jobsCh, closed, stoppedC, left, consumer,
          claimer, poolWorker, closer, stopper, panicked

Life == INSTANCE ProcessorLifecycle
        WITH Workers <- Pool, worker <- poolWorker, started <- poolStarted

\* The assumptions of ProcessorLifecycle about its constants.
PoolOK ==
    /\ IsFiniteSet(Pool) /\ Pool # {}
    /\ ChanCap \in Nat \ {0}
    /\ MaxJobs \in Nat

\* Before Start nothing runs, so nothing that has ended is started again.
NothingBeforeStart ==
    ~poolStarted => /\ consumer = "off" /\ claimer = "off" /\ closer = "off"
                    /\ \A w \in Pool : poolWorker[w] = "off"

\* A worker leaves its range loop only over a closed and empty channel, and
\* nothing enters a closed channel: a send on it panics.
ExitMeansEmpty == \A w \in Pool : poolWorker[w] = "exit" => closed /\ jobsCh = 0

\* The stopped signal is given when all have exited.
SignalMeansExited == stoppedC => Life!AllExited

StopInv == Life!Positions /\ NothingBeforeStart /\ ExitMeansEmpty /\ SignalMeansExited

-----------------------------------------------------------------------------
(* The type invariant *)

LEMMA InitPositions == PoolOK /\ Life!Init => Life!Positions
  BY DEF PoolOK, Life!Init, Life!Positions

LEMMA InitFlags == Life!Init => Life!Flags
  BY Zenon DEF Life!Init, Life!Flags

\* Every goroutine stays at one of its steps and the channel within its capacity,
\* whichever goroutine moves.
LEMMA PositionsStep == PoolOK /\ Life!Positions /\ [Life!Next]_(Life!vars) => Life!Positions'
<1> SUFFICES ASSUME PoolOK, Life!Positions, [Life!Next]_(Life!vars) PROVE Life!Positions'
  OBVIOUS
<1> USE DEF PoolOK, Life!Positions, Life!channels, Life!goroutines
<1>1. CASE Life!Start \/ Life!Stop \/ Life!StopReturns
  BY <1>1 DEF Life!Start, Life!Stop, Life!StopReturns
<1>2. CASE Life!CloseJobs \/ Life!Join
  BY <1>2 DEF Life!CloseJobs, Life!Join
<1>3. CASE Life!Poll \/ Life!Consume \/ Life!SkipInvalid \/ Life!Send
  BY <1>3 DEF Life!Poll, Life!Consume, Life!SkipInvalid, Life!Send, Life!NextOfBatch
<1>4. CASE Life!ClaimTick \/ Life!ClaimSend \/ Life!ClaimNothing
  BY <1>4 DEF Life!ClaimTick, Life!ClaimSend, Life!ClaimNothing
<1>5. ASSUME NEW w \in Pool, Life!Receive(w) \/ Life!JobDone(w) PROVE Life!Positions'
  BY <1>5 DEF Life!Receive, Life!JobDone
<1>6. CASE UNCHANGED Life!vars
  BY <1>6 DEF Life!vars
<1> QED
  BY <1>1, <1>2, <1>3, <1>4, <1>5, <1>6 DEF Life!Next, Life!Alive, Life!Over

\* The flags stay Boolean.
LEMMA FlagsStep == Life!Flags /\ [Life!Next]_(Life!vars) => Life!Flags'
<1> SUFFICES ASSUME Life!Flags, [Life!Next]_(Life!vars) PROVE Life!Flags'
  OBVIOUS
<1> USE DEF Life!Flags, Life!channels, Life!goroutines
<1>1. CASE Life!Start \/ Life!Stop \/ Life!StopReturns
  BY <1>1, Zenon DEF Life!Start, Life!Stop, Life!StopReturns
<1>2. CASE Life!CloseJobs \/ Life!Join
  BY <1>2, Zenon DEF Life!CloseJobs, Life!Join
<1>3. CASE Life!Poll \/ Life!Consume \/ Life!SkipInvalid \/ Life!Send
  BY <1>3, Zenon DEF Life!Poll, Life!Consume, Life!SkipInvalid, Life!Send
<1>4. CASE Life!ClaimTick \/ Life!ClaimSend \/ Life!ClaimNothing
  BY <1>4, Zenon DEF Life!ClaimTick, Life!ClaimSend, Life!ClaimNothing
<1>5. ASSUME NEW w \in Pool, Life!Receive(w) \/ Life!JobDone(w) PROVE Life!Flags'
  BY <1>5, Zenon DEF Life!Receive, Life!JobDone
<1>6. CASE UNCHANGED Life!vars
  BY <1>6, Zenon DEF Life!vars
<1> QED
  BY <1>1, <1>2, <1>3, <1>4, <1>5, <1>6 DEF Life!Next, Life!Alive, Life!Over

\* For any number of workers, any capacity and any number of messages the
\* variables keep their types: jobsCh never holds more than its capacity.
THEOREM LifecycleTyped ==
  ASSUME PoolOK
  PROVE  Life!Spec => []Life!TypeOK
  BY InitPositions, InitFlags, PositionsStep, FlagsStep, PTL DEF Life!Spec, Life!TypeOK

-----------------------------------------------------------------------------
(* What Stop promises *)

\* Nothing runs initially.
LEMMA InitStopInv == PoolOK /\ Life!Init => StopInv
<1>1. Life!Init => NothingBeforeStart /\ ExitMeansEmpty
  BY DEF Life!Init, NothingBeforeStart, ExitMeansEmpty
<1>2. Life!Init => SignalMeansExited
  BY DEF Life!Init, SignalMeansExited
<1> QED
  BY <1>1, <1>2, InitPositions DEF StopInv

\* The inductive step of what Stop promises, one group of goroutines at a time.
LEMMA StopInvStep == PoolOK /\ StopInv /\ [Life!Next]_(Life!vars) => StopInv'
<1> SUFFICES ASSUME PoolOK, StopInv, [Life!Next]_(Life!vars) PROVE StopInv'
  OBVIOUS
<1> DEFINE Rest == NothingBeforeStart /\ ExitMeansEmpty /\ SignalMeansExited
<1>0. Life!Positions'
  BY PositionsStep DEF StopInv
<1> SUFFICES Rest'
  BY <1>0 DEF StopInv
<1> USE DEF StopInv, Life!Positions, NothingBeforeStart, ExitMeansEmpty, SignalMeansExited, Life!AllExited,
        Life!channels, Life!goroutines
<1>1. CASE Life!Start
  BY <1>1 DEF PoolOK, Life!Start
<1>2. CASE Life!Stop \/ Life!StopReturns
  BY <1>2 DEF Life!Stop, Life!StopReturns
<1>3. CASE Life!CloseJobs \/ Life!Join
  BY <1>3 DEF Life!CloseJobs, Life!Join
<1>4. CASE Life!Poll \/ Life!Consume \/ Life!SkipInvalid \/ Life!Send
  BY <1>4 DEF Life!Poll, Life!Consume, Life!SkipInvalid, Life!Send, Life!NextOfBatch
<1>5. CASE Life!ClaimTick \/ Life!ClaimSend \/ Life!ClaimNothing
  BY <1>5 DEF Life!ClaimTick, Life!ClaimSend, Life!ClaimNothing
<1>6. ASSUME NEW w \in Pool, Life!Receive(w) \/ Life!JobDone(w) PROVE Rest'
  BY <1>6 DEF Life!Receive, Life!JobDone
<1>7. CASE UNCHANGED Life!vars
  BY <1>7 DEF Life!vars
<1> QED
  BY <1>1, <1>2, <1>3, <1>4, <1>5, <1>6, <1>7 DEF Life!Next, Life!Alive, Life!Over

\* For any number of workers and any capacity: when Stop learns that the
\* processor has stopped, no goroutine is left, and every message that reached
\* the jobs channel was taken out of it by a worker.
THEOREM StopDrains ==
  ASSUME PoolOK
  PROVE  Life!Spec => []Life!StoppedMeansDrained
<1>1. StopInv => Life!StoppedMeansDrained
  BY DEF PoolOK, StopInv, ExitMeansEmpty, SignalMeansExited, Life!AllExited, Life!StoppedMeansDrained
<1> QED
  BY <1>1, InitStopInv, StopInvStep, PTL DEF Life!Spec
=============================================================================
