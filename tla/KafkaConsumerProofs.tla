------------------------ MODULE KafkaConsumerProofs ------------------------
(***************************************************************************)
(* Proofs about the consume loops of Lotus and Ivy, for any partitions,    *)
(* any logs, any number of restarts and any handler.                       *)
(***************************************************************************)
EXTENDS KafkaConsumer, TLAPS

-----------------------------------------------------------------------------
(* The inductive invariant *)

Shape ==
    /\ case \in DOMAIN Logs
    /\ committed \in [Partitions -> Nat]
    /\ marked \in [Partitions -> Nat]
    /\ position \in [Partitions -> Nat]
    /\ step \in [Partitions -> {"fetch", "parse", "call", "handle", "commit"}]
    /\ tried \in [Partitions -> SUBSET Nat]
    /\ handled \in [Partitions -> SUBSET Nat]
    /\ failed \in [Partitions -> SUBSET Nat]
    /\ skipped \in [Partitions -> SUBSET Nat]

\* The broker is behind the mark, and the mark behind the reader.
Behind == \A p \in Partitions : committed[p] <= marked[p] /\ marked[p] <= position[p]

\* The handler is done with message o, or there was nothing to handle, or a reader of
\* Lotus started behind it.
Settled(p, o) ==
    Parses(p, o) => o \in handled[p] \union failed[p] \/ (Service = "lotus" /\ o \in skipped[p])

\* Everything fetched is settled but the message in hand.
ReadIsSettled ==
    \A p \in Partitions : \A o \in 1..position[p] :
        o < position[p] \/ step[p] \in {"fetch", "commit"} => Settled(p, o)

\* Everything marked is settled, the message in hand included.
MarkedIsSettled == \A p \in Partitions : \A o \in 1..marked[p] : Settled(p, o)

CInv == Shape /\ Behind /\ ReadIsSettled /\ MarkedIsSettled

\* The message in hand is ahead of the mark, and the handler gets it only if it parses.
InHand ==
    \A p \in Partitions :
        /\ step[p] \in {"parse", "call", "handle"} => marked[p] < position[p]
        /\ step[p] \in {"call", "handle"} => Parses(p, position[p])

-----------------------------------------------------------------------------
LEMMA LastOrBefore == \A n \in Nat : \A o \in 1..n : o < n \/ o = n
  OBVIOUS

\* Where a reader starts: within the partition, and never before the committed offset; in
\* Ivy always at it.
LEMMA StartsAhead ==
  ASSUME Shape, NEW p \in Partitions, NEW o \in Starts(p)
  PROVE  /\ o \in Nat /\ committed[p] <= o
         /\ o = committed[p] \/ (Service = "lotus" /\ o <= Len(log[p]))
<1>1. Len(log[p]) \in Nat
  BY KafkaConsumerAssumptions DEF Shape, log
<1>2. committed[p] \in Nat /\ position[p] \in Nat
  BY DEF Shape
<1>3. CASE o = committed[p]
  BY <1>2, <1>3
<1>4. CASE Service = "lotus" /\ committed[p] = 0 /\ o \in position[p]..Len(log[p])
  BY <1>1, <1>2, <1>4
<1> QED BY <1>3, <1>4 DEF Starts

LEMMA InitCInv == ConsumerInit => CInv
<1> SUFFICES ASSUME ConsumerInit PROVE CInv
  OBVIOUS
<1>1. Shape
  BY DEF ConsumerInit, Everywhere, Shape
<1>2. \A p \in Partitions : committed[p] = 0 /\ marked[p] = 0 /\ position[p] = 0
  BY DEF ConsumerInit, Everywhere
<1>3. \A p \in Partitions : 1..position[p] = {} /\ 1..marked[p] = {}
  BY <1>2
<1>4. Behind /\ ReadIsSettled /\ MarkedIsSettled
  BY <1>2, <1>3 DEF Behind, ReadIsSettled, MarkedIsSettled
<1> QED BY <1>1, <1>4 DEF CInv

LEMMA ShapeStep ==
  ASSUME Shape, [ConsumerNext]_consumer
  PROVE  Shape'
<1> USE DEF Shape
<1>1. ASSUME NEW p \in Partitions, ConsumerStep(p) PROVE Shape'
  <2>1. CASE Fetch(p)
    BY <2>1 DEF Fetch, Goes
  <2>2. CASE Parse(p)
    <3>1. step' \in [Partitions -> {"fetch", "parse", "call", "handle", "commit"}]
      BY <2>2 DEF Parse, Goes
    <3> QED BY <2>2, <3>1 DEF Parse
  <2>3. CASE Commit(p)
    BY <2>3 DEF Commit, Goes
  <2> QED BY <1>1, <2>1, <2>2, <2>3 DEF ConsumerStep
<1>2. ASSUME NEW p \in Partitions, Call(p) PROVE Shape'
  BY <1>2 DEF Call, Goes
<1>3. ASSUME NEW p \in Partitions, NEW ok \in BOOLEAN, Return(p, ok) PROVE Shape'
  <2>1. step' \in [Partitions -> {"fetch", "parse", "call", "handle", "commit"}]
    BY <1>3 DEF Return, Goes
  <2>2. handled' \in [Partitions -> SUBSET Nat] /\ failed' \in [Partitions -> SUBSET Nat]
    BY <1>3 DEF Return
  <2> QED BY <1>3, <2>1, <2>2 DEF Return
<1>4. ASSUME NEW p \in Partitions, Flush(p) PROVE Shape'
  BY <1>4 DEF Flush
<1>5. ASSUME NEW p \in Partitions, Resume(p) PROVE Shape'
  <2>1. PICK o \in Starts(p) : /\ position' = [position EXCEPT ![p] = o]
                               /\ skipped' = [skipped EXCEPT ![p] = @ \union (committed[p] + 1)..o]
    BY <1>5 DEF Resume
  <2>2. o \in Nat /\ (committed[p] + 1)..o \subseteq Nat
    BY StartsAhead
  <2>3. position' \in [Partitions -> Nat] /\ skipped' \in [Partitions -> SUBSET Nat]
    BY <2>1, <2>2
  <2> QED BY <1>5, <2>3 DEF Resume
<1>6. CASE UNCHANGED consumer
  BY <1>6 DEF consumer
<1> QED BY <1>1, <1>2, <1>3, <1>4, <1>5, <1>6 DEF ConsumerNext, Restart

\* Nothing that is settled becomes unsettled: the logs stay, and the histories grow.
LEMMA SettledStays ==
  ASSUME Shape, [ConsumerNext]_consumer, NEW q \in Partitions, NEW o, Settled(q, o)
  PROVE  Settled(q, o)'
<1>1. UNCHANGED case
  BY DEF ConsumerNext, consumer, ConsumerStep, Fetch, Parse, Commit, Call, Return, Flush, Restart, Resume
<1>2. /\ handled[q] \subseteq handled'[q] /\ failed[q] \subseteq failed'[q]
      /\ skipped[q] \subseteq skipped'[q]
  <2>1. ASSUME NEW p \in Partitions, NEW ok \in BOOLEAN, Return(p, ok)
        PROVE  /\ handled[q] \subseteq handled'[q] /\ failed[q] \subseteq failed'[q]
               /\ skipped[q] \subseteq skipped'[q]
    BY <2>1 DEF Return, Shape
  <2>2. ASSUME UNCHANGED <<handled, failed, skipped>>
        PROVE  /\ handled[q] \subseteq handled'[q] /\ failed[q] \subseteq failed'[q]
               /\ skipped[q] \subseteq skipped'[q]
    BY <2>2
  <2>3. ASSUME NEW p \in Partitions, Resume(p)
        PROVE  /\ handled[q] \subseteq handled'[q] /\ failed[q] \subseteq failed'[q]
               /\ skipped[q] \subseteq skipped'[q]
    BY <2>3 DEF Resume, Shape
  <2> QED BY <2>1, <2>2, <2>3 DEF ConsumerNext, consumer, ConsumerStep, Fetch, Parse, Commit, Call, Flush,
                                  Restart
<1> QED BY <1>1, <1>2 DEF Settled, Parses, log

LEMMA CInvStep == CInv /\ [ConsumerNext]_consumer => CInv'
<1> SUFFICES ASSUME CInv, [ConsumerNext]_consumer PROVE CInv'
  OBVIOUS
<1>1. Shape'
  BY ShapeStep DEF CInv
<1>2. \A q \in Partitions, o \in Nat : Settled(q, o) => Settled(q, o)'
  BY SettledStays DEF CInv
<1> SUFFICES (Behind /\ ReadIsSettled /\ MarkedIsSettled)'
  BY <1>1 DEF CInv
<1> USE DEF CInv, Shape, Behind, ReadIsSettled, MarkedIsSettled
<1>3. ASSUME NEW p \in Partitions, Fetch(p) PROVE (Behind /\ ReadIsSettled /\ MarkedIsSettled)'
  <2>1. /\ position' = [position EXCEPT ![p] = @ + 1] /\ step[p] = "fetch"
        /\ step' = [step EXCEPT ![p] = "parse"] /\ UNCHANGED <<committed, marked>>
    BY <1>3 DEF Fetch, Goes
  <2>2. \A o \in 1..position[p] : Settled(p, o)
    BY <2>1
  <2> QED BY <1>2, <2>1, <2>2
<1>4. ASSUME NEW p \in Partitions, Parse(p) PROVE (Behind /\ ReadIsSettled /\ MarkedIsSettled)'
  <2>1. /\ step[p] = "parse" /\ UNCHANGED <<position, committed, marked>>
        /\ step' = [step EXCEPT ![p] = IF Parses(p, position[p]) THEN "call" ELSE "commit"]
    BY <1>4 DEF Parse, Goes
  <2>2. step'[p] = "commit" => Settled(p, position[p])
    BY <2>1 DEF Settled
  <2>3. /\ step'[p] \in {"call", "commit"}
        /\ \A q \in Partitions : q # p => step'[q] = step[q]
    BY <2>1
  <2>4. ASSUME NEW q \in Partitions, NEW o \in 1..position[q],
               o < position[q] \/ step'[q] \in {"fetch", "commit"}
        PROVE  Settled(q, o)
    <3>1. CASE q # p
      BY <2>3, <2>4, <3>1
    <3>2. CASE q = p /\ o < position[q]
      BY <3>2
    <3>3. CASE q = p /\ o = position[q]
      BY <2>2, <2>3, <2>4, <3>3
    <3>4. o < position[q] \/ o = position[q]
      BY LastOrBefore
    <3> QED BY <3>1, <3>2, <3>3, <3>4
  <2>5. (Behind /\ MarkedIsSettled)'
    BY <1>2, <2>1
  <2>6. ReadIsSettled'
    BY <1>2, <2>1, <2>4
  <2> QED BY <2>5, <2>6
<1>5. ASSUME NEW p \in Partitions, Commit(p) PROVE (Behind /\ ReadIsSettled /\ MarkedIsSettled)'
  <2>1. /\ step[p] = "commit" /\ UNCHANGED <<position, committed>>
        /\ step' = [step EXCEPT ![p] = "fetch"]
        /\ marked' = [marked EXCEPT ![p] = marked[p]] \/ marked' = [marked EXCEPT ![p] = position[p]]
    BY <1>5 DEF Commit, Goes
  <2>2. \A o \in 1..position[p] : Settled(p, o)
    BY <2>1
  <2> QED BY <1>2, <2>1, <2>2
<1>6. ASSUME NEW p \in Partitions, Call(p) PROVE (Behind /\ ReadIsSettled /\ MarkedIsSettled)'
  BY <1>2, <1>6 DEF Call, Goes
<1>7. ASSUME NEW p \in Partitions, NEW ok \in BOOLEAN, Return(p, ok)
      PROVE  (Behind /\ ReadIsSettled /\ MarkedIsSettled)'
  <2>1. UNCHANGED <<position, committed, marked>> /\ step[p] = "handle"
    BY <1>7 DEF Return, Goes
  <2>2. position[p] \in (handled[p] \union failed[p])'
    BY <1>7 DEF Return
  <2>3. Settled(p, position[p])'
    BY <2>1, <2>2 DEF Settled
  <2>4. \A q \in Partitions : q # p => step'[q] = step[q]
    BY <1>7 DEF Return, Goes
  <2>5. ASSUME NEW q \in Partitions, NEW o \in 1..position[q],
               o < position[q] \/ step'[q] \in {"fetch", "commit"}
        PROVE  Settled(q, o)'
    <3>1. CASE q # p \/ o < position[q]
      BY <1>2, <2>4, <2>5, <3>1
    <3>2. CASE q = p /\ o = position[q]
      BY <2>1, <2>3, <3>2
    <3> QED BY <3>1, <3>2, LastOrBefore
  <2>6. (Behind /\ MarkedIsSettled)'
    BY <1>2, <2>1
  <2>7. ReadIsSettled'
    BY <2>1, <2>5
  <2> QED BY <2>6, <2>7
<1>8. ASSUME NEW p \in Partitions, Flush(p) PROVE (Behind /\ ReadIsSettled /\ MarkedIsSettled)'
  BY <1>2, <1>8 DEF Flush
<1>9. ASSUME NEW p \in Partitions, Resume(p) PROVE (Behind /\ ReadIsSettled /\ MarkedIsSettled)'
  <2>1. PICK o \in Starts(p) : /\ position' = [position EXCEPT ![p] = o]
                               /\ skipped' = [skipped EXCEPT ![p] = @ \union (committed[p] + 1)..o]
    BY <1>9 DEF Resume
  <2>2. /\ marked' = [marked EXCEPT ![p] = committed[p]]
        /\ step' = [step EXCEPT ![p] = "fetch"] /\ UNCHANGED committed
    BY <1>9 DEF Resume
  <2>3. /\ o \in Nat /\ committed[p] <= o
        /\ o = committed[p] \/ Service = "lotus"
    BY StartsAhead
  <2>4. ASSUME NEW n \in 1..o PROVE Settled(p, n)'
    <3>1. CASE n <= committed[p]
      BY <1>2, <2>3, <3>1
    <3>2. CASE n \in (committed[p] + 1)..o
      <4>1. n \in skipped'[p] /\ Service = "lotus"
        BY <2>1, <2>3, <3>2
      <4> QED BY <4>1 DEF Settled
    <3> QED BY <2>3, <3>1, <3>2
  <2>5. position'[p] = o /\ marked'[p] = committed[p] /\ \A q \in Partitions :
          q # p => position'[q] = position[q] /\ marked'[q] = marked[q] /\ step'[q] = step[q]
    BY <2>1, <2>2
  <2>6. Behind'
    BY <2>2, <2>3, <2>5
  <2>7. ReadIsSettled'
    BY <1>2, <2>2, <2>4, <2>5
  <2>8. MarkedIsSettled'
    BY <1>2, <2>2, <2>3, <2>4, <2>5
  <2> QED BY <2>6, <2>7, <2>8
<1>10. CASE UNCHANGED consumer
  BY <1>2, <1>10 DEF consumer
<1> QED BY <1>3, <1>4, <1>5, <1>6, <1>7, <1>8, <1>9, <1>10 DEF ConsumerNext, ConsumerStep, Restart

LEMMA InHandStep ==
  ASSUME CInv, InHand, [ConsumerNext]_consumer
  PROVE  InHand'
<1> USE DEF CInv, Shape, Behind, InHand
<1>0. UNCHANGED case
  BY DEF ConsumerNext, consumer, ConsumerStep, Fetch, Parse, Commit, Call, Return, Flush, Restart, Resume
<1>00. \A p, o : Parses(p, o)' <=> Parses(p, o)
  BY <1>0 DEF Parses, log
<1>1. ASSUME NEW p \in Partitions, Fetch(p) PROVE InHand'
  BY <1>00, <1>1 DEF Fetch, Goes
<1>2. ASSUME NEW p \in Partitions, Parse(p) PROVE InHand'
  <2>1. /\ step[p] = "parse" /\ UNCHANGED <<position, marked>>
        /\ step'[p] = "commit" \/ (step'[p] = "call" /\ Parses(p, position[p]))
        /\ \A q \in Partitions : q # p => step'[q] = step[q]
    BY <1>2 DEF Parse, Goes
  <2> QED BY <1>00, <2>1
<1>3. ASSUME NEW p \in Partitions, Commit(p) PROVE InHand'
  BY <1>00, <1>3 DEF Commit, Goes
<1>4. ASSUME NEW p \in Partitions, Call(p) PROVE InHand'
  BY <1>00, <1>4 DEF Call, Goes
<1>5. ASSUME NEW p \in Partitions, NEW ok \in BOOLEAN, Return(p, ok) PROVE InHand'
  <2>1. /\ UNCHANGED <<position, marked>> /\ step'[p] \in {"commit", "fetch"}
        /\ \A q \in Partitions : q # p => step'[q] = step[q]
    BY <1>5 DEF Return, Goes
  <2> QED BY <1>00, <2>1
<1>6. ASSUME NEW p \in Partitions, Flush(p) PROVE InHand'
  BY <1>00, <1>6 DEF Flush
<1>7. ASSUME NEW p \in Partitions, Resume(p) PROVE InHand'
  <2>1. /\ step'[p] = "fetch"
        /\ \A q \in Partitions : q # p => /\ step'[q] = step[q] /\ position'[q] = position[q]
                                         /\ marked'[q] = marked[q]
    BY <1>7 DEF Resume
  <2> QED BY <1>00, <2>1
<1>8. CASE UNCHANGED consumer
  BY <1>00, <1>8 DEF consumer
<1> QED BY <1>1, <1>2, <1>3, <1>4, <1>5, <1>6, <1>7, <1>8 DEF ConsumerNext, ConsumerStep, Restart

LEMMA ConsumerInvariant == ConsumerSpec => [](CInv /\ InHand)
<1>1. ConsumerInit => InHand
  BY DEF ConsumerInit, Everywhere, InHand
<1> QED BY <1>1, InitCInv, CInvStep, InHandStep, PTL DEF ConsumerSpec

\* Whatever a handler does, for any partitions, logs and restarts: the committed offset of
\* a partition covers only messages that went through the handler to its return, or that
\* could not be parsed; in Lotus also those behind which a reader started when no offset
\* was committed.
THEOREM ConsumerSkipsNothing == ConsumerSpec => []CommitAfterHandler
<1>1. CInv => CommitAfterHandler
  BY DEF CInv, Shape, Behind, MarkedIsSettled, Settled, CommitAfterHandler
<1> QED BY <1>1, ConsumerInvariant, PTL

-----------------------------------------------------------------------------
(* Types *)

\* What the type invariant needs besides: the offsets stay within the log, and what is
\* in hand was tried.
WithinLog ==
    /\ case \in DOMAIN Logs /\ restarts \in 0..MaxRestarts
    /\ \A p \in Partitions :
         /\ position[p] <= Len(log[p]) /\ Len(log[p]) \in Nat
         /\ handled[p] \union failed[p] \subseteq tried[p]
         /\ tried[p] \subseteq {o \in Offsets(p) : Parses(p, o)}
         /\ step[p] = "handle" => position[p] \in tried[p]
         /\ skipped[p] \subseteq Offsets(p)

LEMMA InitWithinLog == ConsumerInit => WithinLog
  BY KafkaConsumerAssumptions DEF ConsumerInit, Everywhere, WithinLog, log

\* A step of p that does not go back.
LEMMA KeepsWithinLog ==
  ASSUME WithinLog, UNCHANGED case, restarts' \in 0..MaxRestarts, NEW p \in Partitions,
         \A q \in Partitions : q # p =>
             /\ position'[q] = position[q] /\ step'[q] = step[q]
             /\ tried'[q] = tried[q] /\ handled'[q] = handled[q] /\ failed'[q] = failed[q]
             /\ skipped'[q] = skipped[q],
         position'[p] <= Len(log[p]),
         handled'[p] \union failed'[p] \subseteq tried'[p],
         tried'[p] \subseteq {o \in Offsets(p) : Parses(p, o)},
         step'[p] = "handle" => position'[p] \in tried'[p],
         skipped'[p] \subseteq Offsets(p)
  PROVE  WithinLog'
<1>1. log' = log
  BY DEF log
<1>2. \A q \in Partitions : Offsets(q)' = Offsets(q) /\ \A o : Parses(q, o)' <=> Parses(q, o)
  BY <1>1 DEF Offsets, Parses
<1>3. ASSUME NEW q \in Partitions
      PROVE  /\ position'[q] <= Len(log[q]) /\ Len(log[q]) \in Nat
             /\ handled'[q] \union failed'[q] \subseteq tried'[q]
             /\ tried'[q] \subseteq {o \in Offsets(q) : Parses(q, o)}
             /\ step'[q] = "handle" => position'[q] \in tried'[q]
             /\ skipped'[q] \subseteq Offsets(q)
  <2>1. CASE q = p
    BY <2>1 DEF WithinLog
  <2>2. CASE q # p
    BY <2>2 DEF WithinLog
  <2> QED BY <2>1, <2>2
<1>4. ASSUME NEW q \in Partitions PROVE tried'[q] \subseteq {o \in Offsets(q)' : Parses(q, o)'}
  BY <1>2, <1>3
<1> QED BY <1>1, <1>2, <1>3, <1>4 DEF WithinLog

LEMMA WithinLogStep ==
  ASSUME CInv, InHand, WithinLog, [ConsumerNext]_consumer
  PROVE  WithinLog'
<1> USE DEF CInv, Shape
<1>0. UNCHANGED case
  BY DEF ConsumerNext, consumer, ConsumerStep, Fetch, Parse, Commit, Call, Return, Flush, Restart, Resume
<1>a. \A p \in Partitions :
        /\ position[p] <= Len(log[p]) /\ Len(log[p]) \in Nat
        /\ handled[p] \union failed[p] \subseteq tried[p]
        /\ tried[p] \subseteq {o \in Offsets(p) : Parses(p, o)}
        /\ step[p] = "handle" => position[p] \in tried[p]
        /\ skipped[p] \subseteq Offsets(p)
  BY DEF WithinLog
<1>b. restarts \in 0..MaxRestarts
  BY DEF WithinLog
<1>1. ASSUME NEW p \in Partitions, Fetch(p) PROVE WithinLog'
  <2>1. /\ UNCHANGED <<restarts, tried, handled, failed, skipped>> /\ step'[p] = "parse" /\ position'[p] <= Len(log[p])
        /\ \A q \in Partitions : q # p => step'[q] = step[q] /\ position'[q] = position[q]
    BY <1>1, <1>a DEF Fetch, Goes
  <2> QED BY <1>0, <1>a, <1>b, <2>1, KeepsWithinLog
<1>2. ASSUME NEW p \in Partitions, Parse(p) \/ Commit(p) PROVE WithinLog'
  <2>1. /\ UNCHANGED <<restarts, position, tried, handled, failed, skipped>> /\ step'[p] # "handle"
        /\ \A q \in Partitions : q # p => step'[q] = step[q]
    BY <1>2 DEF Parse, Commit, Goes
  <2> QED BY <1>0, <1>a, <1>b, <2>1, KeepsWithinLog
<1>3. ASSUME NEW p \in Partitions, Call(p) PROVE WithinLog'
  <2>1. /\ UNCHANGED <<restarts, position, handled, failed, skipped>> /\ step[p] = "call"
        /\ tried'[p] = tried[p] \union {position[p]}
        /\ \A q \in Partitions : q # p => step'[q] = step[q] /\ tried'[q] = tried[q]
    BY <1>3 DEF Call, Goes
  <2>2. position[p] \in Offsets(p) /\ Parses(p, position[p])
    <3>1. marked[p] < position[p] /\ Parses(p, position[p])
      BY <2>1 DEF InHand
    <3> QED BY <1>a, <3>1 DEF Offsets
  <2>3. tried'[p] \subseteq {o \in Offsets(p) : Parses(p, o)}
    BY <1>a, <2>1, <2>2
  <2> QED BY <1>0, <1>a, <1>b, <2>1, <2>3, KeepsWithinLog
<1>4. ASSUME NEW p \in Partitions, NEW ok \in BOOLEAN, Return(p, ok) PROVE WithinLog'
  <2>1. /\ UNCHANGED <<restarts, position, tried, skipped>> /\ step[p] = "handle" /\ step'[p] # "handle"
        /\ handled'[p] \union failed'[p] \subseteq handled[p] \union failed[p] \union {position[p]}
        /\ \A q \in Partitions : q # p => step'[q] = step[q] /\ handled'[q] = handled[q] /\ failed'[q] = failed[q]
    BY <1>4 DEF Return, Goes
  <2>2. handled'[p] \union failed'[p] \subseteq tried'[p]
    BY <1>a, <2>1
  <2> QED BY <1>0, <1>a, <1>b, <2>1, <2>2, KeepsWithinLog
<1>5. ASSUME NEW p \in Partitions, Resume(p), restarts' \in 0..MaxRestarts PROVE WithinLog'
  <2>1. PICK o \in Starts(p) : /\ position' = [position EXCEPT ![p] = o]
                               /\ skipped' = [skipped EXCEPT ![p] = @ \union (committed[p] + 1)..o]
    BY <1>5 DEF Resume
  <2>2. /\ UNCHANGED <<tried, handled, failed>> /\ step'[p] # "handle" /\ position'[p] = o
        /\ skipped'[p] = skipped[p] \union (committed[p] + 1)..o
        /\ \A q \in Partitions : q # p => /\ step'[q] = step[q] /\ position'[q] = position[q]
                                         /\ skipped'[q] = skipped[q]
    BY <1>5, <2>1 DEF Resume
  <2>3. o \in Nat /\ o <= Len(log[p])
    <3>1. committed[p] \in Nat /\ committed[p] <= marked[p] /\ marked[p] \in Nat /\ marked[p] <= position[p]
          /\ position[p] \in Nat
      BY DEF Behind
    <3> QED BY <1>a, <3>1, StartsAhead
  <2>4. (committed[p] + 1)..o \subseteq Offsets(p)
    BY <1>a, <2>3 DEF Offsets
  <2>5. skipped'[p] \subseteq Offsets(p)
    BY <1>a, <2>2, <2>4
  <2> QED BY <1>0, <1>5, <1>a, <2>2, <2>3, <2>5, KeepsWithinLog
<1>6. ASSUME NEW p \in Partitions, Flush(p) PROVE WithinLog'
  BY <1>0, <1>6, <1>a, <1>b, KeepsWithinLog DEF Flush
<1>7. CASE UNCHANGED consumer
  BY <1>7 DEF consumer, WithinLog, Parses, log, Offsets
<1>8. ASSUME NEW p \in Partitions, Restart(p) PROVE WithinLog'
  <2>1. restarts' \in 0..MaxRestarts
    BY <1>8, <1>b, KafkaConsumerAssumptions DEF Restart
  <2> QED BY <1>5, <1>8, <2>1 DEF Restart
<1> QED BY <1>1, <1>2, <1>3, <1>4, <1>5, <1>6, <1>7, <1>8, <1>b DEF ConsumerNext, ConsumerStep

LEMMA WithinLogInvariant == ConsumerSpec => []WithinLog
  BY InitWithinLog, WithinLogStep, ConsumerInvariant, PTL DEF ConsumerSpec

\* Any handler, any logs, any restarts: the broker is behind the mark, the mark behind
\* the reader, and the reader within its partition; what a handler returned from was
\* given to it, and that parses.
THEOREM ConsumerTypes == ConsumerSpec => []ConsumerTypeOK
<1>1. CInv /\ WithinLog => ConsumerTypeOK
  <2> SUFFICES ASSUME CInv, WithinLog, NEW p \in Partitions
               PROVE  /\ committed[p] \in 0..Len(log[p])
                      /\ marked[p] \in committed[p]..Len(log[p])
                      /\ position[p] \in marked[p]..Len(log[p])
                      /\ step[p] \in {"fetch", "parse", "call", "handle", "commit"}
                      /\ handled[p] \union failed[p] \subseteq tried[p]
                      /\ tried[p] \subseteq {o \in Offsets(p) : Parses(p, o)}
                      /\ skipped[p] \subseteq Offsets(p)
    BY DEF ConsumerTypeOK, WithinLog
  <2>1. committed[p] \in Nat /\ marked[p] \in Nat /\ position[p] \in Nat
    BY DEF CInv, Shape
  <2>2. committed[p] <= marked[p] /\ marked[p] <= position[p] /\ position[p] <= Len(log[p]) /\ Len(log[p]) \in Nat
    BY DEF CInv, Behind, WithinLog
  <2> QED BY <2>1, <2>2 DEF CInv, Shape, WithinLog
<1> QED BY <1>1, ConsumerInvariant, WithinLogInvariant, PTL

=============================================================================
