------------------------- MODULE IvyIngestionProofs -------------------------
(***************************************************************************)
(* Proofs about Ivy's ingestion, for any logs, deletion strategies,        *)
(* faults and restarts.                                                    *)
(***************************************************************************)
EXTENDS IvyIngestion, KafkaConsumerProofs, FiniteSetTheorems, SequenceTheorems, WellFoundedInduction

-----------------------------------------------------------------------------
(* The inductive invariants *)

\* A handler runs only while the loop of its partition is in it, on a message of the log.
HandlerShape ==
    /\ case \in DOMAIN Logs /\ DOMAIN h = Partitions
    /\ \A p \in Partitions : step[p] \in {"parse", "call", "handle"} => position[p] \in Offsets(p)
    /\ \A p \in Partitions : "pc" \in DOMAIN h[p] /\ (h[p].pc # "idle" => step[p] = "handle")

\* The columns of a staged entity.
Columns == {"data", "fp", "exec", "created", "updated", "deleted"}
RowShape == \A k \in DOMAIN entities : DOMAIN entities[k] = Columns

\* At most one partition stages k.
Single(k) == \A p, q \in Sources(k) : p = q

\* Between the two statements of an upsert, the handler has the fingerprint of the row
\* unless another partition stages the entity, too.
Between(p) ==
    /\ h[p].pc = "upsert" => Entry(Message(p)) = "upsert"
    /\ h[p].pc = "fingerprint" =>
         /\ Entry(Message(p)) = "upsert" /\ h[p].key = EntityKey(Message(p))
         /\ h[p].key \in DOMAIN entities
         /\ Single(h[p].key) => h[p].fp = Fingerprint(entities[h[p].key].data)
BetweenStatements == \A p \in Partitions : Between(p)

\* Message o of p is not handled yet, or its fingerprint is not written.
Unwritten(p, o) ==
    \/ o > position[p]
    \/ /\ o = position[p]
       /\ \/ step[p] \in {"parse", "call"}
          \/ step[p] = "handle" /\ h[p].pc \in {"upsert", "fingerprint"}

\* A fingerprint that is not that of the data will be written, or the message failed.
Repaired(k) ==
    \/ entities[k].fp = Fingerprint(entities[k].data)
    \/ ~Single(k)
    \/ \E p \in Partitions : \E o \in Offsets(p) :
         Stages(log[p][o], k) /\ (o \in failed[p] \/ Unwritten(p, o))
AllRepaired == \A k \in DOMAIN entities : Repaired(k)

FInv == HandlerShape /\ RowShape /\ BetweenStatements /\ AllRepaired

-----------------------------------------------------------------------------
(* Ivy's handlers run on the consume loop *)

\* Every statement of a handler ends in going on or in a return.
LEMMA HandlerOnLoop ==
  ASSUME NEW p \in Partitions, Handler(p)
  PROVE  UNCHANGED consumer \/ \E ok \in BOOLEAN : Return(p, ok)
<1> USE DEF Returns, Continues
<1>1. CASE Skip(p) \/ Paired(p) \/ Swept(p)
  BY <1>1 DEF Skip, Paired, Swept
<1>2. CASE Upsert(p) \/ UpdateFingerprint(p) \/ Embed(p) \/ FindByTarget(p)
  BY <1>2 DEF Upsert, UpdateFingerprint, Embed, FindByTarget
<1>3. CASE Pair(p) \/ AddMatch(p)
  BY <1>3 DEF Pair, AddMatch
<1>4. CASE Direct(p) \/ UpsertCriteria(p) \/ FindTargets(p)
  BY <1>4 DEF Direct, UpsertCriteria, FindTargets
<1>5. CASE FindCandidates(p) \/ DeleteEntity(p) \/ DeleteRelationships(p)
  BY <1>5 DEF FindCandidates, DeleteEntity, DeleteRelationships
<1>6. CASE ListStrategies(p) \/ Sweep(p)
  BY <1>6 DEF ListStrategies, Sweep
<1> QED BY <1>1, <1>2, <1>3, <1>4, <1>5, <1>6 DEF Handler

LEMMA IvyStepOnLoop == [Next]_vars => [ConsumerNext]_consumer
<1> SUFFICES ASSUME [Next]_vars PROVE [ConsumerNext]_consumer
  OBVIOUS
<1>1. ASSUME NEW p \in Partitions, Handler(p) PROVE [ConsumerNext]_consumer
  BY <1>1, HandlerOnLoop DEF ConsumerNext
<1>2. ASSUME NEW p \in Partitions, ConsumerStep(p) \/ Receive(p) \/ Flush(p) \/ Crash(p)
      PROVE  [ConsumerNext]_consumer
  BY <1>2 DEF ConsumerNext, Receive, Crash
<1>3. CASE Tick \/ UNCHANGED vars
  BY <1>3 DEF Tick, vars
<1> QED BY <1>1, <1>2, <1>3 DEF Next, Loop

\* Ivy implements the consume loop with any handler.
THEOREM IvyImplementsConsumer == Spec => ConsumerSpec
<1>1. Init => ConsumerInit
  BY DEF Init
<1> QED BY <1>1, IvyStepOnLoop, PTL DEF Spec, ConsumerSpec

\* No restart of an Ivy process, at whichever statement of whichever handler,
\* makes the group skip a message.
THEOREM IvySkipsNothing == Spec => []CommitAfterHandler
  BY IvyImplementsConsumer, ConsumerSkipsNothing, PTL

-----------------------------------------------------------------------------
(* What a step does to the handlers and the rows *)

LEMMA CaseStays ==
  ASSUME [ConsumerNext]_consumer
  PROVE  UNCHANGED case
  BY DEF ConsumerNext, consumer, ConsumerStep, Fetch, Parse, Commit, Call, Return, Flush, Restart, Resume

\* The logs stay, and with them the messages that stage an entity.
LEMMA LogStays ==
  ASSUME UNCHANGED case
  PROVE  /\ log' = log /\ \A p : Offsets(p)' = Offsets(p)
         /\ \A k : Sources(k)' = Sources(k) /\ (Single(k)' <=> Single(k))
<1>1. log' = log
  BY DEF log
<1>2. \A p : Offsets(p)' = Offsets(p)
  BY <1>1 DEF Offsets
<1>3. \A k : Sources(k)' = Sources(k)
  BY <1>1, <1>2 DEF Sources
<1> QED BY <1>1, <1>2, <1>3 DEF Single

\* The handler on p is at pc, and the others stay where they are.
HandlerAt(p, pc) ==
    /\ DOMAIN h' = Partitions /\ \A q \in Partitions : q # p => h'[q] = h[q]
    /\ "pc" \in DOMAIN h'[p] /\ h'[p].pc = pc

LEMMA HandlerGoes ==
  ASSUME HandlerShape, NEW p \in Partitions, NEW r, GoesTo(p, r), "pc" \in DOMAIN r
  PROVE  HandlerAt(p, r.pc) /\ h'[p] = r
  BY DEF HandlerShape, GoesTo, HandlerAt

LEMMA HandlerReturns ==
  ASSUME HandlerShape, NEW p \in Partitions, NEW ok \in BOOLEAN, Returns(p, ok)
  PROVE  HandlerAt(p, "idle") /\ Return(p, ok)
<1>1. "pc" \in DOMAIN Idle /\ Idle.pc = "idle"
  BY DEF Idle
<1> QED BY <1>1, HandlerGoes DEF Returns

\* The rows keep their data and fingerprints.
KeepsRows ==
    /\ DOMAIN entities' = DOMAIN entities
    /\ \A k \in DOMAIN entities :
         DOMAIN entities'[k] = Columns /\ entities'[k].data = entities[k].data /\ entities'[k].fp = entities[k].fp

LEMMA SameRows ==
  ASSUME RowShape, UNCHANGED entities
  PROVE  KeepsRows
  BY DEF RowShape, KeepsRows

\* Where a statement other than those of an upsert leaves the handler.
Elsewhere(p) ==
    /\ step[p] = "handle" /\ h[p].pc \notin {"upsert", "fingerprint"} /\ KeepsRows
    /\ \/ UNCHANGED consumer /\ \E pc : pc \notin {"upsert", "fingerprint"} /\ HandlerAt(p, pc)
       \/ HandlerAt(p, "idle") /\ \E ok \in BOOLEAN : Return(p, ok)

LEMMA OtherStatements ==
  ASSUME HandlerShape, RowShape, NEW p \in Partitions, Handler(p), ~Upsert(p), ~UpdateFingerprint(p)
  PROVE  Elsewhere(p)
<1>0. "pc" \in DOMAIN h[p]
  BY DEF HandlerShape
<1>1. ASSUME NEW ok \in BOOLEAN, Returns(p, ok) PROVE HandlerAt(p, "idle") /\ Return(p, ok)
  BY <1>1, HandlerReturns
<1>2. ASSUME NEW r, NEW pc, "pc" \in DOMAIN r, r.pc = pc, Continues(p, r)
      PROVE  HandlerAt(p, pc) /\ UNCHANGED consumer
  BY <1>2, HandlerGoes DEF Continues
<1>3. CASE Skip(p) \/ Paired(p) \/ Swept(p)
  BY <1>1, <1>3, SameRows DEF Skip, Paired, Swept, Elsewhere, Handling
<1>4. CASE Embed(p)
  <2> DEFINE r == [h[p] EXCEPT !.rels = Tail(@)]
  <2>1. Continues(p, r) /\ UNCHANGED entities /\ step[p] = "handle" /\ h[p].pc = "embed"
    BY <1>4 DEF Embed, Handling
  <2>2. "pc" \in DOMAIN r /\ r.pc = "embed"
    BY <1>0, <2>1
  <2> HIDE DEF r
  <2> QED BY <1>2, <2>1, <2>2, SameRows DEF Elsewhere
<1>5. CASE FindByTarget(p) \/ FindTargets(p)
  <2>1. /\ UNCHANGED entities /\ step[p] = "handle" /\ h[p].pc \in {"embed", "evaluate"}
        /\ \/ Returns(p, TRUE)
           \/ \E todo : Continues(p, [pc |-> "pair", todo |-> todo])
    BY <1>5 DEF FindByTarget, FindTargets, Handling
  <2>2. ASSUME NEW todo, Continues(p, [pc |-> "pair", todo |-> todo])
        PROVE  HandlerAt(p, "pair") /\ UNCHANGED consumer
    BY <1>2, <2>2
  <2> QED BY <1>1, <2>1, <2>2, SameRows DEF Elsewhere
<1>6. CASE Pair(p)
  <2> DEFINE r == [h[p] EXCEPT !.pc = "match"]
             s == [h[p] EXCEPT !.todo = Tail(@)]
  <2>1. (Continues(p, r) \/ Continues(p, s)) /\ UNCHANGED entities /\ step[p] = "handle" /\ h[p].pc = "pair"
    BY <1>6 DEF Pair, Handling
  <2>2. "pc" \in DOMAIN r /\ r.pc = "match" /\ "pc" \in DOMAIN s /\ s.pc = "pair"
    BY <1>0, <2>1
  <2> HIDE DEF r, s
  <2> QED BY <1>2, <2>1, <2>2, SameRows DEF Elsewhere
<1>7. CASE AddMatch(p)
  <2> DEFINE r == [h[p] EXCEPT !.pc = "pair", !.todo = Tail(@)]
  <2>1. Continues(p, r) /\ UNCHANGED entities /\ step[p] = "handle" /\ h[p].pc = "match"
    BY <1>7 DEF AddMatch, Handling
  <2>2. "pc" \in DOMAIN r /\ r.pc = "pair"
    BY <1>0
  <2> HIDE DEF r
  <2> QED BY <1>2, <2>1, <2>2, SameRows DEF Elsewhere
<1>8. CASE Direct(p)
  BY <1>1, <1>8, SameRows DEF Direct, Elsewhere, Handling
<1>9. CASE UpsertCriteria(p)
  <2>1. /\ UNCHANGED entities /\ step[p] = "handle" /\ h[p].pc = "criteria"
        /\ \/ \E ok \in BOOLEAN : Returns(p, ok)
           \/ \E c, row : Continues(p, [pc |-> "evaluate", crit |-> c, row |-> row])
    BY <1>9 DEF UpsertCriteria, Handling
  <2>2. ASSUME NEW c, NEW row, Continues(p, [pc |-> "evaluate", crit |-> c, row |-> row])
        PROVE  HandlerAt(p, "evaluate") /\ UNCHANGED consumer
    BY <1>2, <2>2
  <2> QED BY <1>1, <2>1, <2>2, SameRows DEF Elsewhere
<1>10. CASE FindCandidates(p)
  <2>1. /\ UNCHANGED entities /\ step[p] = "handle" /\ h[p].pc = "candidates"
        /\ \/ Returns(p, TRUE)
           \/ \E k : Continues(p, [pc |-> "delete", key |-> k])
    BY <1>10 DEF FindCandidates, Handling
  <2>2. ASSUME NEW k, Continues(p, [pc |-> "delete", key |-> k])
        PROVE  HandlerAt(p, "delete") /\ UNCHANGED consumer
    BY <1>2, <2>2
  <2> QED BY <1>1, <2>1, <2>2, SameRows DEF Elsewhere
<1>11. CASE DeleteEntity(p)
  <2> DEFINE r == [h[p] EXCEPT !.pc = "unlink"]
  <2>1. /\ step[p] = "handle" /\ h[p].pc = "delete"
        /\ Returns(p, TRUE) \/ Continues(p, r)
        /\ UNCHANGED entities \/ entities' = [entities EXCEPT ![h[p].key].deleted = TRUE]
    BY <1>11 DEF DeleteEntity, Handling
  <2>2. "pc" \in DOMAIN r /\ r.pc = "unlink"
    BY <1>0
  <2> HIDE DEF r
  <2>3. KeepsRows
    <3>1. CASE entities' = [entities EXCEPT ![h[p].key].deleted = TRUE]
      BY <3>1 DEF KeepsRows, RowShape, Columns
    <3> QED BY <2>1, <3>1, SameRows
  <2> QED BY <1>1, <1>2, <2>1, <2>2, <2>3 DEF Elsewhere
<1>12. CASE DeleteRelationships(p)
  BY <1>1, <1>12, SameRows DEF DeleteRelationships, Elsewhere, Handling
<1>13. CASE ListStrategies(p)
  <2>1. /\ UNCHANGED entities /\ step[p] = "handle" /\ h[p].pc = "strategies"
        /\ \/ Returns(p, TRUE)
           \/ \E todo : Continues(p, [pc |-> "sweep", todo |-> todo])
    BY <1>13 DEF ListStrategies, Handling
  <2>2. ASSUME NEW todo, Continues(p, [pc |-> "sweep", todo |-> todo])
        PROVE  HandlerAt(p, "sweep") /\ UNCHANGED consumer
    BY <1>2, <2>2
  <2> QED BY <1>1, <2>1, <2>2, SameRows DEF Elsewhere
<1>14. CASE Sweep(p)
  <2>1. /\ step[p] = "handle" /\ h[p].pc = "sweep"
        /\ \E rest : Continues(p, [h[p] EXCEPT !.todo = rest])
    BY <1>14 DEF Sweep, Handling
  <2>2. HandlerAt(p, "sweep") /\ UNCHANGED consumer
    <3>1. PICK rest : Continues(p, [h[p] EXCEPT !.todo = rest])
      BY <2>1
    <3> DEFINE r == [h[p] EXCEPT !.todo = rest]
    <3>2. "pc" \in DOMAIN r /\ r.pc = "sweep" /\ Continues(p, r)
      BY <1>0, <2>1, <3>1
    <3> HIDE DEF r
    <3> QED BY <1>2, <3>2
  <2>3. \/ UNCHANGED entities
        \/ \E S : entities' = [k \in DOMAIN entities |->
                     IF k \in S THEN [entities[k] EXCEPT !.deleted = TRUE] ELSE entities[k]]
    <3> DEFINE s == Head(h[p].todo)
               S == {k \in DOMAIN entities : InScope(s, k[1], k[3]) /\ Doomed(s, Message(p), entities[k], k[4])}
    <3>1. CASE entities' = [k \in DOMAIN entities |->
                          IF InScope(s, k[1], k[3]) /\ Doomed(s, Message(p), entities[k], k[4])
                          THEN [entities[k] EXCEPT !.deleted = TRUE] ELSE entities[k]]
      <4>1. entities' = [k \in DOMAIN entities |->
                     IF k \in S THEN [entities[k] EXCEPT !.deleted = TRUE] ELSE entities[k]]
        BY <3>1
      <4> QED BY <4>1
    <3> QED BY <1>14, <3>1 DEF Sweep
  <2>4. KeepsRows
    <3>1. ASSUME NEW S, entities' = [k \in DOMAIN entities |->
                     IF k \in S THEN [entities[k] EXCEPT !.deleted = TRUE] ELSE entities[k]]
          PROVE  KeepsRows
      BY <3>1 DEF KeepsRows, RowShape, Columns
    <3> QED BY <2>3, <3>1, SameRows
  <2> QED BY <2>1, <2>2, <2>4 DEF Elsewhere
<1> QED BY <1>3, <1>4, <1>5, <1>6, <1>7, <1>8, <1>9, <1>10, <1>11, <1>12, <1>13, <1>14 DEF Handler

-----------------------------------------------------------------------------
(* Preservation of the inductive invariant *)

\* Message o of p failed, or its fingerprint is still to be written.
Pending(p, o) == o \in failed[p] \/ Unwritten(p, o)

\* A step of p leaves the loops and the handlers of the others alone.
OthersStay(p) ==
    \A q \in Partitions : q # p =>
        position'[q] = position[q] /\ step'[q] = step[q] /\ h'[q] = h[q] /\ failed'[q] = failed[q]

LEMMA LengthIsNat ==
  ASSUME HandlerShape, NEW p \in Partitions
  PROVE  Len(log[p]) \in Nat
  BY KafkaConsumerAssumptions DEF HandlerShape, log

LEMMA OthersPending ==
  ASSUME NEW p \in Partitions, OthersStay(p), NEW q \in Partitions, q # p, NEW o
  PROVE  Pending(q, o)' <=> Pending(q, o)
  BY DEF OthersStay, Pending, Unwritten

\* What is known of a handler holds on as long as it stays where it is, and the row too.
LEMMA BetweenStays ==
  ASSUME BetweenStatements, UNCHANGED case, NEW q \in Partitions,
         h'[q] = h[q], position'[q] = position[q], DOMAIN entities \subseteq DOMAIN entities',
         h[q].pc = "fingerprint" /\ Single(h[q].key) =>
             entities'[h[q].key].data = entities[h[q].key].data
  PROVE  Between(q)'
<1>1. Message(q)' = Message(q)
  BY DEF Message, log
<1>2. Single(h[q].key)' <=> Single(h[q].key)
  <2>1. log' = log
    BY LogStays
  <2> QED BY <2>1 DEF Single, Sources, Offsets
<1>3. Between(q)
  BY DEF BetweenStatements
<1> QED BY <1>1, <1>2, <1>3 DEF Between

\* A message in hand that stages an entity makes its partition a source of it.
LEMMA InHandIsSource ==
  ASSUME HandlerShape, InHand, NEW p \in Partitions, step[p] = "handle", Entry(Message(p)) = "upsert"
  PROVE  /\ position[p] \in Offsets(p) /\ Stages(log[p][position[p]], EntityKey(Message(p)))
         /\ p \in Sources(EntityKey(Message(p)))
<1>1. position[p] \in Offsets(p) /\ Parses(p, position[p])
  BY DEF HandlerShape, InHand
<1>2. Stages(log[p][position[p]], EntityKey(Message(p)))
  BY <1>1 DEF Stages, Message, Parses
<1> QED BY <1>1, <1>2 DEF Sources

\* A step of p that keeps the rows keeps the invariant if it keeps what is known of
\* the handler of p, and every message pending that is.
LEMMA KeepsFInv ==
  ASSUME FInv, UNCHANGED case, NEW p \in Partitions, OthersStay(p), KeepsRows,
         DOMAIN h' = Partitions, "pc" \in DOMAIN h'[p], h'[p].pc # "idle" => step'[p] = "handle",
         step'[p] \in {"parse", "call", "handle"} => position'[p] \in Offsets(p),
         Between(p)',
         \A o \in Offsets(p) : \A k : Stages(log[p][o], k) /\ Pending(p, o) => Pending(p, o)'
  PROVE  FInv'
<1>1. HandlerShape'
  BY LogStays DEF FInv, HandlerShape, OthersStay
<1>2. RowShape'
  BY DEF KeepsRows, RowShape
<1>3. BetweenStatements'
  <2>1. ASSUME NEW q \in Partitions, q # p PROVE Between(q)'
    <3>1. h[q].pc = "fingerprint" => h[q].key \in DOMAIN entities
      BY DEF FInv, BetweenStatements, Between
    <3> QED BY <2>1, <3>1, BetweenStays DEF FInv, KeepsRows, OthersStay
  <2> QED BY <2>1 DEF BetweenStatements
<1>4. ASSUME NEW k \in DOMAIN entities' PROVE Repaired(k)'
  <2>1. k \in DOMAIN entities /\ Repaired(k) /\ entities'[k].data = entities[k].data /\ entities'[k].fp = entities[k].fp
    BY <1>4 DEF KeepsRows, FInv, AllRepaired
  <2>2. CASE entities[k].fp = Fingerprint(entities[k].data)
    BY <2>1, <2>2 DEF Repaired
  <2>3. CASE ~Single(k)
    BY <2>3, LogStays DEF Repaired
  <2>4. ASSUME NEW q \in Partitions, NEW o \in Offsets(q), Stages(log[q][o], k), Pending(q, o)
        PROVE  Repaired(k)'
    <3>1. Pending(q, o)'
      BY <2>4, OthersPending
    <3>2. o \in Offsets(q)' /\ Stages(log[q][o], k)'
      BY <2>4, LogStays DEF Stages
    <3> QED BY <3>1, <3>2 DEF Repaired, Pending
  <2> QED BY <2>1, <2>2, <2>3, <2>4 DEF Repaired, Pending
<1> QED BY <1>1, <1>2, <1>3, <1>4 DEF FInv, AllRepaired

LEMMA EntryIsNotFingerprint == \A m : Entry(m) # "fingerprint"
  BY DEF Entry, RelationshipEntry

LEMMA LoopKeepsFInv ==
  ASSUME CInv, InHand, FInv, NEW p \in Partitions, ConsumerStep(p) \/ Flush(p), UNCHANGED ivy
  PROVE  FInv'
<1> USE DEF CInv, Shape
<1>1. UNCHANGED <<case, h, entities, failed>> /\ KeepsRows
  BY SameRows DEF ConsumerStep, Fetch, Parse, Commit, Flush, ivy, FInv
<1>2. /\ OthersStay(p) /\ DOMAIN h' = Partitions /\ "pc" \in DOMAIN h'[p]
      /\ h[p].pc # "idle" => step[p] = "handle"
  BY <1>1 DEF ConsumerStep, Fetch, Parse, Commit, Flush, Goes, OthersStay, FInv, HandlerShape
<1>3. Len(log[p]) \in Nat /\ position[p] \in Nat /\ log' = log
  BY <1>1, LengthIsNat DEF FInv, log
<1>4. CASE Fetch(p) \/ Parse(p) \/ Commit(p)
  <2>1. step[p] # "handle" /\ h[p].pc = "idle"
    BY <1>2, <1>4 DEF Fetch, Parse, Commit, Goes
  <2>2. Between(p)'
    BY <1>1, <2>1 DEF Between
  <2>3. step'[p] \in {"parse", "call", "handle"} => position'[p] \in Offsets(p)
    <3>1. CASE Fetch(p)
      BY <1>3, <3>1 DEF Fetch, Goes, Offsets
    <3>2. CASE Parse(p)
      BY <1>3, <3>2 DEF Parse, Goes, FInv, HandlerShape
    <3>3. CASE Commit(p)
      BY <1>3, <3>3 DEF Commit, Goes
    <3> QED BY <1>4, <3>1, <3>2, <3>3
  <2>4. ASSUME NEW o \in Offsets(p), NEW k, Stages(log[p][o], k), Pending(p, o)
        PROVE  Pending(p, o)'
    <3>1. CASE Fetch(p)
      <4>1. /\ step[p] = "fetch" /\ step'[p] = "parse" /\ position'[p] = position[p] + 1
        BY <3>1 DEF Fetch, Goes
      <4>2. o > position[p] => (o > position[p] + 1 \/ o = position[p] + 1)
        BY <1>3 DEF Offsets
      <4> QED BY <1>1, <2>4, <4>1, <4>2 DEF Pending, Unwritten
    <3>2. CASE Parse(p)
      <4>1. /\ step[p] = "parse" /\ position' = position
            /\ Parses(p, position[p]) => step'[p] = "call"
        BY <3>2 DEF Parse, Goes
      <4>2. o = position[p] => Parses(p, position[p])
        BY <2>4 DEF Stages, Parses
      <4> QED BY <1>1, <2>4, <4>1, <4>2 DEF Pending, Unwritten
    <3>3. CASE Commit(p)
      BY <1>1, <2>4, <3>3 DEF Pending, Unwritten, Commit, Goes
    <3> QED BY <1>4, <3>1, <3>2, <3>3
  <2> QED BY <1>1, <1>2, <2>1, <2>2, <2>3, <2>4, KeepsFInv
<1>5. CASE Flush(p)
  <2>1. UNCHANGED <<step, position>>
    BY <1>5 DEF Flush
  <2>2. Between(p)'
    BY <1>1, <2>1, BetweenStays DEF FInv
  <2>3. step'[p] \in {"parse", "call", "handle"} => position'[p] \in Offsets(p)
    BY <2>1 DEF FInv, HandlerShape
  <2>4. \A o \in Offsets(p) : \A k : Stages(log[p][o], k) /\ Pending(p, o) => Pending(p, o)'
    BY <1>1, <2>1 DEF Pending, Unwritten
  <2> QED BY <1>1, <1>2, <2>1, <2>2, <2>3, <2>4, KeepsFInv
<1> QED BY <1>4, <1>5 DEF ConsumerStep

LEMMA ReceiveKeepsFInv ==
  ASSUME CInv, InHand, FInv, NEW p \in Partitions, Receive(p)
  PROVE  FInv'
<1> USE DEF CInv, Shape
<1>1. /\ UNCHANGED <<case, entities, failed, position>> /\ step[p] = "call" /\ step'[p] = "handle"
      /\ \A q \in Partitions : q # p => step'[q] = step[q]
  BY DEF Receive, Call, Goes
<1>2. HandlerAt(p, Entry(Message(p)))
  <2> DEFINE r == [pc |-> Entry(Message(p)), rels |-> Message(p).rels]
  <2>1. GoesTo(p, r)
    BY DEF Receive
  <2>2. "pc" \in DOMAIN r /\ r.pc = Entry(Message(p))
    OBVIOUS
  <2> HIDE DEF r
  <2> QED BY <2>1, <2>2, HandlerGoes DEF FInv
<1>3. Message(p)' = Message(p)
  BY <1>1 DEF Message, log
<1>4. Entry(Message(p))' = Entry(Message(p))
  BY <1>3 DEF Entry
<1>5. Between(p)'
  BY <1>2, <1>3, <1>4, EntryIsNotFingerprint DEF Between, HandlerAt
<1>6. OthersStay(p) /\ KeepsRows /\ step'[p] = "handle" /\ position'[p] \in Offsets(p)
  BY <1>1, <1>2, SameRows DEF OthersStay, HandlerAt, FInv, HandlerShape
<1>7. ASSUME NEW o \in Offsets(p), NEW k, Stages(log[p][o], k), Pending(p, o)
      PROVE  Pending(p, o)'
  <2>1. o = position[p] => h'[p].pc = "upsert"
    BY <1>2, <1>7 DEF HandlerAt, Stages, Message
  <2> QED BY <1>1, <1>7, <2>1 DEF Pending, Unwritten
<1> QED BY <1>1, <1>2, <1>5, <1>6, <1>7, KeepsFInv DEF HandlerAt

\* A handler that returns with an error leaves its message among the failed.
LEMMA FaultKeepsFInv ==
  ASSUME CInv, FInv, NEW p \in Partitions, UNCHANGED entities,
         step[p] = "handle", Returns(p, FALSE)
  PROVE  FInv'
<1> USE DEF CInv, Shape
<1>1. HandlerAt(p, "idle") /\ Return(p, FALSE)
  BY HandlerReturns DEF FInv
<1>2. /\ UNCHANGED <<case, position>> /\ failed' = [failed EXCEPT ![p] = @ \union {position[p]}]
      /\ step'[p] \in {"commit", "fetch"} /\ \A q \in Partitions : q # p => step'[q] = step[q]
  BY <1>1 DEF Return, Goes
<1>3. Between(p)'
  BY <1>1 DEF Between, HandlerAt
<1>4. OthersStay(p) /\ KeepsRows
  BY <1>1, <1>2, SameRows DEF OthersStay, HandlerAt, FInv
<1>5. \A o \in Offsets(p) : Pending(p, o) => Pending(p, o)'
  BY <1>2 DEF Pending, Unwritten
<1> QED BY <1>1, <1>2, <1>3, <1>4, <1>5, KeepsFInv DEF HandlerAt

LEMMA ElsewhereKeepsFInv ==
  ASSUME CInv, InHand, FInv, NEW p \in Partitions, Elsewhere(p)
  PROVE  FInv'
<1> USE DEF CInv, Shape
<1>1. /\ UNCHANGED <<case, position>> /\ step[p] = "handle" /\ h[p].pc \notin {"upsert", "fingerprint"}
      /\ \A q \in Partitions : q # p => step'[q] = step[q] /\ failed'[q] = failed[q]
      /\ failed[p] \subseteq failed'[p] /\ KeepsRows
  BY DEF Elsewhere, consumer, Return, Goes
<1>2. /\ DOMAIN h' = Partitions /\ "pc" \in DOMAIN h'[p] /\ \A q \in Partitions : q # p => h'[q] = h[q]
      /\ h'[p].pc \notin {"upsert", "fingerprint"} /\ (h'[p].pc # "idle" => step'[p] = "handle")
  BY DEF Elsewhere, HandlerAt, consumer
<1>3. Between(p)'
  BY <1>2 DEF Between
<1>4. OthersStay(p) /\ position'[p] \in Offsets(p)
  BY <1>1, <1>2 DEF OthersStay, FInv, HandlerShape
<1>5. \A o \in Offsets(p) : Pending(p, o) => Pending(p, o)'
  BY <1>1 DEF Pending, Unwritten
<1> QED BY <1>1, <1>2, <1>3, <1>4, <1>5, KeepsFInv

\* What a restart takes back to the broker's offset is ahead of it.
LEMMA CrashKeepsFInv ==
  ASSUME CInv, InHand, FInv, NEW p \in Partitions, Crash(p)
  PROVE  FInv'
<1> USE DEF CInv, Shape
<1>1. /\ UNCHANGED <<case, entities, failed>> /\ KeepsRows
      /\ position'[p] = committed[p] /\ step'[p] = "fetch"
      /\ \A q \in Partitions : q # p => step'[q] = step[q] /\ position'[q] = position[q]
  BY SameRows, TheService DEF Crash, Restart, Resume, Starts, FInv
<1>2. HandlerAt(p, "idle")
  <2>1. "pc" \in DOMAIN Idle /\ Idle.pc = "idle" /\ GoesTo(p, Idle)
    BY DEF Idle, Crash
  <2> QED BY <2>1, HandlerGoes DEF FInv
<1>3. Between(p)'
  BY <1>2 DEF Between, HandlerAt
<1>4. OthersStay(p)
  BY <1>1, <1>2 DEF OthersStay, HandlerAt
<1>5. ASSUME NEW o \in Offsets(p), Pending(p, o) PROVE Pending(p, o)'
  <2>1. committed[p] <= marked[p] /\ marked[p] <= position[p] /\ o \in Nat
    BY DEF Behind, Offsets
  <2>2. Unwritten(p, o) => o > committed[p]
    <3>1. CASE o > position[p]
      BY <2>1, <3>1
    <3>2. CASE o = position[p] /\ step[p] \in {"parse", "call", "handle"}
      BY <2>1, <3>2 DEF InHand
    <3> QED BY <3>1, <3>2 DEF Unwritten
  <2> QED BY <1>1, <1>5, <2>2 DEF Pending, Unwritten
<1> QED BY <1>1, <1>2, <1>3, <1>4, <1>5, KeepsFInv DEF HandlerAt

\* A step of the handler of p between the statements of an upsert of the message in
\* hand, that changes no row but that of the entity it stages.
LEMMA UpsertingKeepsFInv ==
  ASSUME CInv, InHand, FInv, NEW p \in Partitions, NEW pc, NEW key,
         UNCHANGED consumer, step[p] = "handle", Entry(Message(p)) = "upsert", key = EntityKey(Message(p)),
         HandlerAt(p, pc), pc # "upsert", Between(p)', RowShape',
         DOMAIN entities' = DOMAIN entities \union {key},
         \A k \in DOMAIN entities : k # key => entities'[k] = entities[k],
         Repaired(key)'
  PROVE  FInv'
<1> USE DEF CInv, Shape
<1>1. UNCHANGED <<case, position, step, failed>> /\ OthersStay(p)
  BY DEF consumer, OthersStay, HandlerAt
<1>2. HandlerShape'
  BY <1>1, LogStays DEF FInv, HandlerShape, HandlerAt
<1>3. p \in Sources(key)
  BY InHandIsSource DEF FInv
<1>4. ASSUME NEW q \in Partitions, q # p PROVE Between(q)'
  <2>1. ASSUME h[q].pc = "fingerprint", Single(h[q].key)
        PROVE  h[q].key \in DOMAIN entities /\ h[q].key # key
    <3>1. /\ Entry(Message(q)) = "upsert" /\ h[q].key = EntityKey(Message(q)) /\ step[q] = "handle"
          /\ h[q].key \in DOMAIN entities
      BY <2>1 DEF FInv, BetweenStatements, Between, HandlerShape
    <3>2. q \in Sources(h[q].key)
      BY <3>1, InHandIsSource DEF FInv
    <3> QED BY <1>3, <1>4, <2>1, <3>1, <3>2 DEF Single
  <2> QED BY <1>1, <1>4, <2>1, BetweenStays DEF FInv, OthersStay
<1>5. ASSUME NEW k \in DOMAIN entities, k # key PROVE Repaired(k)'
  <2>1. Repaired(k) /\ entities'[k] = entities[k]
    BY <1>5 DEF FInv, AllRepaired
  <2>2. CASE entities[k].fp = Fingerprint(entities[k].data)
    BY <2>1, <2>2 DEF Repaired
  <2>3. CASE ~Single(k)
    BY <1>1, <2>3, LogStays DEF Repaired
  <2>4. ASSUME NEW q \in Partitions, NEW o \in Offsets(q), Stages(log[q][o], k), Pending(q, o)
        PROVE  Repaired(k)'
    <3>1. Pending(q, o)'
      <4>1. CASE q = p
        <5>1. o # position[p]
          BY <1>5, <2>4, <4>1 DEF Stages, Message
        <5> QED BY <1>1, <2>4, <4>1, <5>1 DEF Pending, Unwritten
      <4> QED BY <1>1, <2>4, <4>1, OthersPending
    <3>2. o \in Offsets(q)' /\ Stages(log[q][o], k)'
      BY <1>1, <2>4, LogStays DEF Stages
    <3> QED BY <3>1, <3>2 DEF Repaired, Pending
  <2> QED BY <2>1, <2>2, <2>3, <2>4 DEF Repaired, Pending
<1>6. BetweenStatements'
  BY <1>4 DEF BetweenStatements
<1>7. AllRepaired'
  BY <1>5 DEF AllRepaired
<1> QED BY <1>2, <1>6, <1>7 DEF FInv

LEMMA UpsertKeepsFInv ==
  ASSUME CInv, InHand, FInv, NEW p \in Partitions, Upsert(p)
  PROVE  FInv'
<1> USE DEF CInv, Shape
<1>0. PICK key, row, r : key = EntityKey(Message(p)) /\ row = Upserted(key, Message(p)) /\ r = AfterUpsert(p, key, row)
  OBVIOUS
<1>1. step[p] = "handle" /\ h[p].pc = "upsert" /\ Entry(Message(p)) = "upsert"
  BY DEF Upsert, Handling, FInv, BetweenStatements, Between
<1>2. CASE Returns(p, FALSE) /\ UNCHANGED entities
  BY <1>1, <1>2, FaultKeepsFInv
<1>3. CASE entities' = With(entities, key, row) /\ Continues(p, r)
  <2>1. DOMAIN row = Columns
    BY <1>0 DEF Upserted, Columns, FInv, RowShape
  <2>2. /\ "pc" \in DOMAIN r /\ r.key = key /\ r.fp = Fingerprint(row.data)
        /\ r.pc = IF row.fp = Fingerprint(row.data) THEN "embed" ELSE "fingerprint"
    BY <1>0 DEF AfterUpsert
  <2>3. /\ DOMAIN entities' = DOMAIN entities \union {key} /\ entities'[key] = row
        /\ \A k \in DOMAIN entities : k # key => entities'[k] = entities[k]
    BY <1>3 DEF With
  <2>4. Continues(p, r)
    BY <1>3
  <2>5. key = EntityKey(Message(p))
    BY <1>0
  <2>6. HandlerAt(p, r.pc) /\ h'[p] = r /\ UNCHANGED consumer
    BY <2>2, <2>4, HandlerGoes DEF Continues, FInv
  <2>7. UNCHANGED <<case, position, step, failed>> /\ Message(p)' = Message(p)
    BY <2>6 DEF consumer, Message, log
  <2>8. RowShape'
    BY <2>1, <2>3 DEF RowShape, FInv
  <2>9. Between(p)'
    BY <1>1, <2>2, <2>3, <2>5, <2>6, <2>7 DEF Between
  <2>10. Repaired(key)'
    <3>1. CASE row.fp = Fingerprint(row.data)
      BY <2>3, <3>1 DEF Repaired
    <3>2. CASE row.fp # Fingerprint(row.data)
      <4>1. position[p] \in Offsets(p) /\ Stages(log[p][position[p]], key)
        BY <1>1, <2>5, InHandIsSource DEF FInv
      <4>2. position[p] \in Offsets(p)' /\ Stages(log[p][position[p]], key)' /\ Unwritten(p, position[p])'
        BY <1>1, <2>2, <2>6, <2>7, <3>2, <4>1, LogStays DEF Unwritten, Stages
      <4>3. PICK o : o = position[p]
        OBVIOUS
      <4>4. o \in Offsets(p)' /\ Stages(log[p][o], key)' /\ Unwritten(p, o)'
        BY <2>7, <4>2, <4>3
      <4> QED BY <4>4 DEF Repaired
    <3> QED BY <3>1, <3>2
  <2> QED BY <1>1, <2>2, <2>3, <2>5, <2>6, <2>8, <2>9, <2>10, UpsertingKeepsFInv
<1> QED BY <1>0, <1>2, <1>3 DEF Upsert

LEMMA UpdateFingerprintKeepsFInv ==
  ASSUME CInv, InHand, FInv, NEW p \in Partitions, UpdateFingerprint(p)
  PROVE  FInv'
<1> USE DEF CInv, Shape
<1>0. PICK key, r : key = h[p].key /\ r = [h[p] EXCEPT !.pc = "embed"]
  OBVIOUS
<1>1. /\ step[p] = "handle" /\ h[p].pc = "fingerprint" /\ "pc" \in DOMAIN h[p]
      /\ Entry(Message(p)) = "upsert" /\ key = EntityKey(Message(p)) /\ key \in DOMAIN entities
      /\ Single(key) => h[p].fp = Fingerprint(entities[key].data)
  BY <1>0 DEF UpdateFingerprint, Handling, FInv, BetweenStatements, Between, HandlerShape
<1>2. CASE Returns(p, FALSE) /\ UNCHANGED entities
  BY <1>1, <1>2, FaultKeepsFInv
<1>3. CASE /\ entities' = [entities EXCEPT ![h[p].key].fp = h[p].fp, ![h[p].key].updated = now]
           /\ Continues(p, r)
  <2>1. "pc" \in DOMAIN r /\ r.pc = "embed" /\ Continues(p, r)
    BY <1>0, <1>1, <1>3
  <2>2. /\ DOMAIN entities' = DOMAIN entities \union {key}
        /\ \A k \in DOMAIN entities : k # key => entities'[k] = entities[k]
        /\ DOMAIN entities'[key] = Columns /\ entities'[key].fp = h[p].fp
        /\ entities'[key].data = entities[key].data
    BY <1>0, <1>1, <1>3 DEF FInv, RowShape, Columns
  <2>3. HandlerAt(p, "embed") /\ UNCHANGED consumer
    BY <2>1, HandlerGoes DEF Continues, FInv
  <2>4. RowShape'
    BY <2>2 DEF RowShape, FInv
  <2>5. Between(p)'
    BY <2>3 DEF Between, HandlerAt
  <2>6. Repaired(key)'
    <3>1. CASE Single(key)
      BY <1>1, <2>2, <3>1 DEF Repaired
    <3>2. CASE ~Single(key)
      <4>1. UNCHANGED case
        BY <2>3 DEF consumer
      <4> QED BY <3>2, <4>1, LogStays DEF Repaired
    <3> QED BY <3>1, <3>2
  <2> QED BY <1>1, <2>2, <2>3, <2>4, <2>5, <2>6, UpsertingKeepsFInv
<1> QED BY <1>0, <1>2, <1>3 DEF UpdateFingerprint

LEMMA InitFInv == Init => FInv
<1> SUFFICES ASSUME Init PROVE FInv
  OBVIOUS
<1>1. HandlerShape /\ \A p \in Partitions : h[p].pc = "idle"
  BY DEF Init, ConsumerInit, Everywhere, Idle, HandlerShape
<1>2. DOMAIN entities = {}
  BY DEF Init
<1> QED BY <1>1, <1>2 DEF FInv, RowShape, BetweenStatements, Between, AllRepaired

LEMMA FInvStep ==
  ASSUME CInv, InHand, FInv, [Next]_vars
  PROVE  FInv'
<1>1. ASSUME NEW p \in Partitions, ConsumerStep(p) \/ Flush(p), UNCHANGED ivy PROVE FInv'
  BY <1>1, LoopKeepsFInv
<1>2. ASSUME NEW p \in Partitions, Receive(p) PROVE FInv'
  BY <1>2, ReceiveKeepsFInv
<1>3. ASSUME NEW p \in Partitions, Handler(p) PROVE FInv'
  <2>1. CASE Upsert(p)
    BY <2>1, UpsertKeepsFInv
  <2>2. CASE UpdateFingerprint(p)
    BY <2>2, UpdateFingerprintKeepsFInv
  <2>3. CASE ~Upsert(p) /\ ~UpdateFingerprint(p)
    BY <1>3, <2>3, OtherStatements, ElsewhereKeepsFInv DEF FInv
  <2> QED BY <2>1, <2>2, <2>3
<1>4. ASSUME NEW p \in Partitions, Crash(p) PROVE FInv'
  BY <1>4, CrashKeepsFInv
<1>5. CASE Tick \/ UNCHANGED vars
  <2>1. UNCHANGED <<case, committed, marked, position, step, failed, h, entities>>
    BY <1>5 DEF Tick, vars, consumer, ivy
  <2>2. log' = log
    BY <2>1 DEF log
  <2>3. \A p \in Partitions : Between(p)'
    BY <2>1, BetweenStays DEF FInv
  <2>4. \A k \in DOMAIN entities : Repaired(k)'
    <3>1. \A p \in Partitions : \A o \in Offsets(p) : Unwritten(p, o) => Unwritten(p, o)'
      BY <2>1 DEF Unwritten
    <3>2. \A p \in Partitions : Offsets(p)' = Offsets(p)
      BY <2>2 DEF Offsets
    <3>3. \A k : Single(k)' <=> Single(k)
      BY <2>1, LogStays
    <3> QED BY <2>1, <2>2, <3>1, <3>2, <3>3 DEF FInv, AllRepaired, Repaired
  <2>5. HandlerShape' /\ RowShape'
    BY <2>1, <2>2 DEF FInv, HandlerShape, RowShape, Offsets
  <2> QED BY <2>1, <2>3, <2>4, <2>5 DEF FInv, BetweenStatements, AllRepaired
<1> QED BY <1>1, <1>2, <1>3, <1>4, <1>5 DEF Next, Loop

\* An entity that two partitions stage has more than one source.
LEMMA ManySources ==
  ASSUME NEW k, ~Single(k)
  PROVE  Cardinality(Sources(k)) > 1
<1>1. PICK p \in Sources(k), q \in Sources(k) : p # q
  BY DEF Single
<1>2. IsFiniteSet(Sources(k))
  BY KafkaConsumerAssumptions, FS_Subset DEF Sources
<1>3. IsFiniteSet({p}) /\ Cardinality({p}) = 1
  BY FS_Singleton
<1>4. Cardinality({p} \union {q}) = 2
  BY <1>1, <1>3, FS_AddElement
<1>5. {p} \union {q} \in SUBSET Sources(k)
  BY <1>1
<1>6. Cardinality({p} \union {q}) <= Cardinality(Sources(k))
  BY <1>2, <1>5, FS_Subset
<1>7. Cardinality(Sources(k)) \in Nat
  BY <1>2, FS_CardinalityType
<1> QED BY <1>4, <1>6, <1>7

\* At the end no message is left that would write a fingerprint.
LEMMA EndIsFresh ==
  ASSUME FInv
  PROVE  FingerprintFresh
<1> SUFFICES ASSUME Ended, NEW k \in DOMAIN entities
             PROVE  \/ entities[k].fp = Fingerprint(entities[k].data)
                    \/ \E p \in Partitions : \E o \in failed[p] : Stages(log[p][o], k)
                    \/ Cardinality(Sources(k)) > 1
  BY DEF FingerprintFresh
<1>1. Repaired(k)
  BY DEF FInv, AllRepaired
<1>2. ASSUME NEW p \in Partitions, NEW o \in Offsets(p), Unwritten(p, o) PROVE FALSE
  <2>1. Len(log[p]) \in Nat /\ position[p] = Len(log[p]) /\ step[p] = "fetch"
    BY LengthIsNat DEF FInv, Ended, AtEnd
  <2> QED BY <1>2, <2>1 DEF Unwritten, Offsets
<1>3. ~Single(k) => Cardinality(Sources(k)) > 1
  BY ManySources
<1> QED BY <1>1, <1>2, <1>3 DEF Repaired

\* A restart between the two statements of an upsert, and any interleaving of the
\* partitions: when everything is read, the stored fingerprint of every entity is that
\* of its data, unless the message failed or two partitions stage the entity.
THEOREM FingerprintsAreFresh == Spec => []FingerprintFresh
<1>1. ConsumerSpec => [](CInv /\ InHand)
  BY ConsumerInvariant
<1>2. Spec => [](CInv /\ InHand)
  BY <1>1, IvyImplementsConsumer, PTL
<1>3. Init => FInv
  BY InitFInv
<1>4. CInv /\ InHand /\ FInv /\ [Next]_vars => FInv'
  BY FInvStep
<1>5. FInv => FingerprintFresh
  BY EndIsFresh
<1> QED BY <1>2, <1>3, <1>4, <1>5, PTL DEF Spec

-----------------------------------------------------------------------------
(* Criteria and the entities that match them: the inductive invariants *)

\* The relationship of entity e and criterion c, and when there has to be one.
PairKey(c, e) == RelKey(c.type, c.fromType, c.from, c.fromInt, e[1], e[2], e[3], c.config)
Meets(c, e, data) == c.toType = e[1] /\ c.toInt = e[3] /\ MatchesCriteria(Map(data), c.cond)

\* The entity once matched the criterion.
Met(c, e) == \E v \in versions : v[1] = e /\ Meets(c, e, v[2])

RelColumns == {"integration", "key", "exec", "crit", "created", "updated", "deleted", "refs"}

TablesOK ==
    /\ faults \in Nat
    /\ IsFiniteSet(DOMAIN entities) /\ IsFiniteSet(DOMAIN criteria)
    /\ \A k \in DOMAIN entities : <<k, entities[k].data>> \in versions

\* What a handler with a criterion or an entity in hand knows of them.
Staging(p) ==
    /\ Entry(Message(p)) = "upsert"
    /\ h[p].key = EntityKey(Message(p)) /\ <<h[p].key, h[p].data>> \in versions
Evaluating(p) ==
    /\ Entry(Message(p)) = "criteria"
    /\ h[p].crit = CriteriaKey(Message(p))
Pairing(p) ==
    \E S : /\ h[p].todo \in Seq(S)
           /\ \A x \in S :
                /\ x = <<x[1], x[2], x[3]>> /\ Met(x[1], x[2])
                /\ \/ Entry(Message(p)) = "upsert" /\ x[2] = EntityKey(Message(p))
                   \/ Entry(Message(p)) = "criteria" /\ x[1] = CriteriaKey(Message(p))
HandlerKnows(p) ==
    /\ h[p].pc \in {"upsert", "criteria"} => Entry(Message(p)) = h[p].pc
    /\ h[p].pc \in {"fingerprint", "embed"} => Staging(p)
    /\ h[p].pc = "evaluate" => Evaluating(p)
    /\ h[p].pc \in {"pair", "match"} => Pairing(p)
    /\ h[p].pc = "match" => h[p].todo # <<>> /\ PairKey(Head(h[p].todo)[1], Head(h[p].todo)[2]) \in DOMAIN rels

\* A relationship is attributed to a criterion that the entity once matched, and a
\* recorded match has its relationship.
RelsMeant ==
    \A r \in DOMAIN rels :
        /\ DOMAIN rels[r] = RelColumns
        /\ \A c \in Range(rels[r].crit) : \E e : r = PairKey(c, e) /\ Met(c, e)
MatchesKept == \A x \in matches : PairKey(x[1], x[2]) \in DOMAIN rels

\* Message o of p is not handled yet, or its entity is not staged.
Unstaged(p, o) ==
    \/ o > position[p]
    \/ /\ o = position[p]
       /\ \/ step[p] \in {"parse", "call"}
          \/ step[p] = "handle" /\ h[p].pc = "upsert"

\* What p still does about the pair of criterion c and entity k.
OnItsWay(p, c, k) ==
    \/ h[p].pc \in {"pair", "match"} /\ \E i \in DOMAIN h[p].todo : h[p].todo[i][1] = c /\ h[p].todo[i][2] = k
    \/ h[p].pc = "evaluate" /\ h[p].crit = c
    \/ h[p].pc \in {"fingerprint", "embed"} /\ h[p].key = k /\ h[p].data = entities[k].data
    \/ \E o \in Offsets(p) : Stages(log[p][o], k) /\ Unstaged(p, o)
Covered(c, k) == PairKey(c, k) \in DOMAIN rels \/ \E p \in Partitions : OnItsWay(p, c, k)
AllCovered == faults = 0 => \A c \in DOMAIN criteria \ cutOff : \A k \in Targets(c) : Covered(c, k)

PairInv == TablesOK /\ (\A p \in Partitions : HandlerKnows(p)) /\ RelsMeant /\ MatchesKept /\ AllCovered

-----------------------------------------------------------------------------
(* What a statement does to the tables *)

LEMMA MatchRelIsPair ==
  \A c, e, row : MatchRel(c, e, row) = <<PairKey(c, e), RelRow(row.integration, row.key, row.exec, <<c>>)>>
  BY DEF MatchRel, PairKey

\* A staged relationship keeps its criterion or has that of the message.
LEMMA StagedCrit ==
  ASSUME RelsMeant, NEW k, NEW integration, NEW key, NEW exec, NEW crit,
         NEW r, r = RelRow(integration, key, exec, crit)
  PROVE  /\ DOMAIN Staged(k, r) = RelColumns
         /\ \/ k \in DOMAIN rels /\ Staged(k, r).crit = rels[k].crit
            \/ Staged(k, r).crit = crit
<1>1. r.crit = crit
  BY DEF RelRow
<1>2. CASE k \in DOMAIN rels
  BY <1>1, <1>2 DEF Staged, RelsMeant, RelColumns
<1>3. CASE k \notin DOMAIN rels
  BY <1>1, <1>3 DEF Staged, RelColumns
<1> QED BY <1>2, <1>3

LEMMA CreateMeant ==
  ASSUME RelsMeant, UNCHANGED versions, NEW k, NEW integration, NEW key, NEW exec, NEW crit, NEW ok \in BOOLEAN,
         Create(k, RelRow(integration, key, exec, crit), ok),
         crit = <<>> \/ \E c, e : crit = <<c>> /\ k = PairKey(c, e) /\ Met(c, e)
  PROVE  RelsMeant' /\ DOMAIN rels \subseteq DOMAIN rels' /\ (ok => k \in DOMAIN rels')
<1>1. PICK r, s : r = RelRow(integration, key, exec, crit) /\ s = Staged(k, r)
  OBVIOUS
<1>2. rels' = rels \/ rels' = With(rels, k, s)
  BY <1>1 DEF Create
<1>3. ok => rels' = With(rels, k, s)
  BY <1>1 DEF Create
<1>4. \A c, e : Met(c, e)' <=> Met(c, e)
  BY DEF Met, Meets
<1>5. CASE rels' = rels
  BY <1>3, <1>4, <1>5 DEF RelsMeant, With
<1>6. CASE rels' = With(rels, k, s)
  <2>1. DOMAIN s = RelColumns /\ ((k \in DOMAIN rels /\ s.crit = rels[k].crit) \/ s.crit = crit)
    BY <1>1, StagedCrit
  <2>2. /\ DOMAIN rels' = DOMAIN rels \union {k} /\ rels'[k] = s
        /\ \A j \in DOMAIN rels : j # k => rels'[j] = rels[j]
    BY <1>6 DEF With
  <2>3. \A c \in Range(s.crit) : \E e : k = PairKey(c, e) /\ Met(c, e)
    <3>1. CASE s.crit = <<>>
      BY <3>1 DEF Range
    <3>2. CASE k \in DOMAIN rels /\ s.crit = rels[k].crit
      BY <3>2 DEF RelsMeant
    <3>3. ASSUME NEW c, NEW e, s.crit = <<c>>, k = PairKey(c, e), Met(c, e)
          PROVE  \A d \in Range(s.crit) : \E f : k = PairKey(d, f) /\ Met(d, f)
      <4>1. Range(s.crit) = {c}
        BY <3>3 DEF Range
      <4> QED BY <3>3, <4>1
    <3> QED BY <2>1, <3>1, <3>2, <3>3
  <2> QED BY <1>4, <2>1, <2>2, <2>3 DEF RelsMeant
<1> QED BY <1>2, <1>3, <1>5, <1>6 DEF With

\* Only deletions are marked in the rows of the relationships.
LEMMA MarkedRels ==
  ASSUME RelsMeant, UNCHANGED versions, NEW S,
         rels' = [k \in DOMAIN rels |-> IF k \in S THEN [rels[k] EXCEPT !.deleted = TRUE] ELSE rels[k]]
  PROVE  RelsMeant' /\ DOMAIN rels \subseteq DOMAIN rels'
<1>1. \A c, e : Met(c, e)' <=> Met(c, e)
  BY DEF Met, Meets
<1>2. /\ DOMAIN rels' = DOMAIN rels
      /\ \A k \in DOMAIN rels : DOMAIN rels'[k] = RelColumns /\ rels'[k].crit = rels[k].crit
  BY DEF RelsMeant, RelColumns
<1> QED BY <1>1, <1>2 DEF RelsMeant

LEMMA SameRels ==
  ASSUME RelsMeant, UNCHANGED <<versions, rels>>
  PROVE  RelsMeant' /\ DOMAIN rels \subseteq DOMAIN rels'
<1>1. \A c, e : Met(c, e)' <=> Met(c, e)
  BY DEF Met, Meets
<1> QED BY <1>1 DEF RelsMeant

\* The rows of the entities keep their data, and none comes back from a deletion.
KeepsData ==
    /\ DOMAIN entities' = DOMAIN entities
    /\ \A k \in DOMAIN entities :
         /\ entities'[k].data = entities[k].data
         /\ entities'[k].deleted = entities[k].deleted \/ entities'[k].deleted = TRUE

LEMMA TargetsShrink ==
  ASSUME KeepsData, NEW c
  PROVE  Targets(c)' \subseteq Targets(c) /\ Targets(c) \subseteq DOMAIN entities
<1>1. ASSUME NEW k \in Targets(c)' PROVE k \in Targets(c)
  <2>1. /\ k \in DOMAIN entities /\ ~entities'[k].deleted /\ k[1] = c.toType /\ k[3] = c.toInt
        /\ MatchesCriteria(Map(entities[k].data), c.cond)'
    BY <1>1 DEF Targets, Live, KeepsData
  <2> QED BY <2>1 DEF Targets, Live, KeepsData
<1> QED BY <1>1 DEF Targets, Live

\* What is known of a handler that stays where it is.
LEMMA KnowsStays ==
  ASSUME NEW q \in Partitions, HandlerKnows(q), UNCHANGED case, h'[q] = h[q], position'[q] = position[q],
         versions \subseteq versions', DOMAIN rels \subseteq DOMAIN rels'
  PROVE  HandlerKnows(q)'
<1>1. Message(q)' = Message(q)
  BY DEF Message, log
<1>2. \A c, e : Met(c, e) => Met(c, e)'
  BY DEF Met, Meets
<1>3. Staging(q) => Staging(q)'
  BY <1>1 DEF Staging
<1>4. Evaluating(q) => Evaluating(q)'
  BY <1>1 DEF Evaluating
<1>5. Pairing(q) => Pairing(q)'
  BY <1>1, <1>2 DEF Pairing
<1> QED BY <1>1, <1>3, <1>4, <1>5 DEF HandlerKnows, PairKey

-----------------------------------------------------------------------------
(* What a step leaves to do about the pairs *)

\* What another partition still does about a pair, it does after a step of p.
LEMMA OthersOnTheWay ==
  ASSUME UNCHANGED case, NEW p \in Partitions, OthersStay(p), NEW q \in Partitions, q # p,
         NEW c, NEW k, OnItsWay(q, c, k), entities'[k].data = entities[k].data
  PROVE  OnItsWay(q, c, k)'
<1>1. h'[q] = h[q] /\ position'[q] = position[q] /\ step'[q] = step[q] /\ log' = log /\ Offsets(q)' = Offsets(q)
  BY LogStays DEF OthersStay
<1>2. \A o \in Offsets(q) : Unstaged(q, o) => Unstaged(q, o)'
  BY <1>1 DEF Unstaged
<1>3. \A o : Stages(log[q][o], k)' <=> Stages(log[q][o], k)
  BY <1>1 DEF Stages
<1> QED BY <1>1, <1>2, <1>3 DEF OnItsWay

LEMMA CoveredStays ==
  ASSUME UNCHANGED case, NEW p \in Partitions, OthersStay(p), DOMAIN rels \subseteq DOMAIN rels',
         NEW c, NEW k, entities'[k].data = entities[k].data, Covered(c, k),
         OnItsWay(p, c, k) => Covered(c, k)'
  PROVE  Covered(c, k)'
<1>1. CASE PairKey(c, k) \in DOMAIN rels
  BY <1>1 DEF Covered, PairKey
<1>2. CASE OnItsWay(p, c, k)
  BY <1>2
<1>3. ASSUME NEW q \in Partitions, q # p, OnItsWay(q, c, k) PROVE Covered(c, k)'
  BY <1>3, OthersOnTheWay DEF Covered
<1> QED BY <1>1, <1>2, <1>3 DEF Covered

\* A step of p that adds neither a criterion nor a version of an entity.
LEMMA KeepsPairInv ==
  ASSUME PairInv, UNCHANGED <<case, versions>>, DOMAIN criteria' = DOMAIN criteria, NEW p \in Partitions, OthersStay(p), KeepsData,
         cutOff \subseteq cutOff', faults' = faults \/ faults' = faults + 1,
         RelsMeant', DOMAIN rels \subseteq DOMAIN rels', MatchesKept', HandlerKnows(p)',
         faults' = 0 => \A c \in DOMAIN criteria \ cutOff' : \A k \in Targets(c) :
             OnItsWay(p, c, k) => Covered(c, k)'
  PROVE  PairInv'
<1>1. TablesOK'
  BY DEF PairInv, TablesOK, KeepsData
<1>2. \A q \in Partitions : HandlerKnows(q)'
  BY KnowsStays DEF PairInv, OthersStay
<1>3. AllCovered'
  <2> SUFFICES ASSUME faults' = 0, NEW c \in DOMAIN criteria \ cutOff', NEW k \in Targets(c)'
               PROVE  Covered(c, k)'
    BY DEF AllCovered
  <2>1. faults = 0
    BY DEF PairInv, TablesOK
  <2>2. k \in Targets(c) /\ k \in DOMAIN entities
    BY TargetsShrink
  <2>3. Covered(c, k)
    BY <2>1, <2>2 DEF PairInv, AllCovered
  <2>4. entities'[k].data = entities[k].data
    BY <2>2 DEF KeepsData
  <2> QED BY <2>2, <2>3, <2>4, CoveredStays
<1> QED BY <1>1, <1>2, <1>3 DEF PairInv

LEMMA SameData ==
  ASSUME UNCHANGED entities
  PROVE  KeepsData
  BY DEF KeepsData

LEMMA SameMatches ==
  ASSUME MatchesKept, UNCHANGED matches, DOMAIN rels \subseteq DOMAIN rels'
  PROVE  MatchesKept'
  BY DEF MatchesKept, PairKey

\* A message that is not read stays so, and stays on its way to be staged.
LEMMA UnreadStays ==
  ASSUME UNCHANGED case, NEW p \in Partitions, position'[p] = position[p], NEW c, NEW k,
         NEW o \in Offsets(p), Stages(log[p][o], k), o > position[p]
  PROVE  OnItsWay(p, c, k)'
<1>1. o \in Offsets(p)' /\ Stages(log[p][o], k)'
  BY LogStays DEF Stages
<1>2. Unstaged(p, o)'
  BY DEF Unstaged
<1> QED BY <1>1, <1>2 DEF OnItsWay

\* The handler of p returns, or goes where nothing is known of it, from where it owes no pair.
LEMMA LeavesKeepsPairInv ==
  ASSUME PairInv, UNCHANGED <<case, versions, cutOff>>, DOMAIN criteria' = DOMAIN criteria, NEW p \in Partitions, NEW pc,
         HandlerAt(p, pc), OthersStay(p), UNCHANGED position, step[p] = "handle",
         KeepsData, faults' = faults \/ faults' = faults + 1,
         RelsMeant', DOMAIN rels \subseteq DOMAIN rels', MatchesKept',
         pc \notin {"upsert", "criteria", "fingerprint", "embed", "evaluate", "pair", "match"},
         \/ h[p].pc \notin {"upsert", "fingerprint", "embed", "evaluate", "pair", "match"}
         \/ h[p].pc = "pair" /\ h[p].todo = <<>>
         \/ faults' = faults + 1
  PROVE  PairInv'
<1>1. HandlerKnows(p)'
  BY DEF HandlerKnows, HandlerAt
<1>2. ASSUME faults' = 0, NEW c, NEW k, OnItsWay(p, c, k) PROVE Covered(c, k)'
  <2>1. \E o \in Offsets(p) : Stages(log[p][o], k) /\ Unstaged(p, o)
    <3>1. faults' # faults + 1
      BY <1>2 DEF PairInv, TablesOK
    <3>2. CASE h[p].pc \notin {"upsert", "fingerprint", "embed", "evaluate", "pair", "match"}
      BY <1>2, <3>2 DEF OnItsWay
    <3>3. CASE h[p].pc = "pair" /\ h[p].todo = <<>>
      BY <1>2, <3>3 DEF OnItsWay
    <3> QED BY <3>1, <3>2, <3>3
  <2>2. PICK o \in Offsets(p) : Stages(log[p][o], k) /\ Unstaged(p, o)
    BY <2>1
  <2>3. h[p].pc # "upsert"
    BY <1>2 DEF PairInv, TablesOK
  <2>4. o > position[p]
    BY <2>2, <2>3 DEF Unstaged
  <2>5. OnItsWay(p, c, k)'
    BY <2>2, <2>4, UnreadStays
  <2> QED BY <2>5 DEF Covered
<1> QED BY <1>1, <1>2, KeepsPairInv

LEMMA ReturnsLeave ==
  ASSUME CInv, HandlerShape, NEW p \in Partitions, NEW ok \in BOOLEAN, Returns(p, ok)
  PROVE  HandlerAt(p, "idle") /\ OthersStay(p) /\ UNCHANGED <<case, position>>
<1>1. HandlerAt(p, "idle") /\ Return(p, ok)
  BY HandlerReturns
<1> QED BY <1>1 DEF Return, Goes, OthersStay, HandlerAt, CInv, Shape

LEMMA GoesOn ==
  ASSUME HandlerShape, NEW p \in Partitions, NEW r, "pc" \in DOMAIN r, Continues(p, r)
  PROVE  HandlerAt(p, r.pc) /\ h'[p] = r /\ OthersStay(p) /\ UNCHANGED <<case, position, step>>
<1>1. HandlerAt(p, r.pc) /\ h'[p] = r /\ UNCHANGED consumer
  BY HandlerGoes DEF Continues
<1> QED BY <1>1 DEF consumer, OthersStay, HandlerAt

\* The statements that neither stage nor pair anything.
Aside(p) == \/ Skip(p) \/ Paired(p) \/ Swept(p) \/ Direct(p) \/ FindCandidates(p) \/ DeleteEntity(p)
            \/ DeleteRelationships(p) \/ ListStrategies(p) \/ Sweep(p)


\* Where they leave the handler.
GoesAside(p) ==
    /\ OthersStay(p) /\ UNCHANGED <<case, position>>
    /\ \E pc \in {"idle", "delete", "unlink", "sweep"} : HandlerAt(p, pc)

LEMMA AsideGoes ==
  ASSUME CInv, HandlerShape, NEW p \in Partitions, Aside(p)
  PROVE  GoesAside(p)
<1>0. "pc" \in DOMAIN h[p]
  BY DEF HandlerShape
<1>1. ASSUME NEW ok \in BOOLEAN, Returns(p, ok) PROVE GoesAside(p)
  BY <1>1, ReturnsLeave DEF GoesAside
<1>2. ASSUME NEW r, "pc" \in DOMAIN r, r.pc \in {"delete", "unlink", "sweep"}, Continues(p, r)
      PROVE  GoesAside(p)
  BY <1>2, GoesOn DEF GoesAside
<1>3. CASE Skip(p) \/ Paired(p) \/ Swept(p) \/ Direct(p) \/ DeleteRelationships(p)
  BY <1>1, <1>3 DEF Skip, Paired, Swept, Direct, DeleteRelationships
<1>4. CASE FindCandidates(p)
  <2>1. Returns(p, TRUE) \/ \E k : Continues(p, [pc |-> "delete", key |-> k])
    BY <1>4 DEF FindCandidates
  <2>2. ASSUME NEW k, Continues(p, [pc |-> "delete", key |-> k]) PROVE GoesAside(p)
    BY <1>2, <2>2
  <2> QED BY <1>1, <2>1, <2>2
<1>5. CASE DeleteEntity(p)
  <2>1. PICK r : r = [h[p] EXCEPT !.pc = "unlink"]
    OBVIOUS
  <2>2. "pc" \in DOMAIN r /\ r.pc = "unlink"
    BY <1>0, <2>1
  <2>3. Returns(p, TRUE) \/ Continues(p, r)
    BY <1>5, <2>1 DEF DeleteEntity
  <2> QED BY <1>1, <1>2, <2>2, <2>3
<1>6. CASE ListStrategies(p)
  <2>1. Returns(p, TRUE) \/ \E todo : Continues(p, [pc |-> "sweep", todo |-> todo])
    BY <1>6 DEF ListStrategies
  <2>2. ASSUME NEW todo, Continues(p, [pc |-> "sweep", todo |-> todo]) PROVE GoesAside(p)
    BY <1>2, <2>2
  <2> QED BY <1>1, <2>1, <2>2
<1>7. CASE Sweep(p)
  <2>1. PICK rest : Continues(p, [h[p] EXCEPT !.todo = rest])
    BY <1>7 DEF Sweep
  <2>2. PICK r : r = [h[p] EXCEPT !.todo = rest]
    OBVIOUS
  <2>3. "pc" \in DOMAIN r /\ r.pc = "sweep" /\ Continues(p, r)
    BY <1>0, <1>7, <2>1, <2>2 DEF Sweep, Handling
  <2> QED BY <1>2, <2>3
<1> QED BY <1>3, <1>4, <1>5, <1>6, <1>7 DEF Aside

\* They mark deletions in the tables, or stage a relationship of no criterion.
LEMMA AsideMarks ==
  ASSUME RowShape, RelsMeant, NEW p \in Partitions, Aside(p)
  PROVE  KeepsData /\ RelsMeant' /\ DOMAIN rels \subseteq DOMAIN rels'
<1>0. UNCHANGED versions
  BY DEF Aside, Skip, Paired, Swept, Direct, FindCandidates, DeleteEntity, DeleteRelationships, ListStrategies, Sweep
<1>1. CASE Skip(p) \/ Paired(p) \/ Swept(p) \/ FindCandidates(p) \/ ListStrategies(p)
  BY <1>0, <1>1, SameData, SameRels DEF Skip, Paired, Swept, FindCandidates, ListStrategies
<1>2. CASE Direct(p)
  <2>1. PICK k, integration, key, exec : DirectRel(Message(p)) = <<k, RelRow(integration, key, exec, <<>>)>>
    BY DEF DirectRel
  <2>2. PICK ok \in BOOLEAN : Create(k, RelRow(integration, key, exec, <<>>), ok)
    BY <1>2, <2>1 DEF Direct
  <2>3. UNCHANGED entities
    BY <1>2 DEF Direct
  <2> QED BY <1>0, <2>2, <2>3, CreateMeant, SameData
<1>3. CASE DeleteEntity(p)
  <2>1. UNCHANGED entities \/ entities' = [entities EXCEPT ![h[p].key].deleted = TRUE]
    BY <1>3 DEF DeleteEntity
  <2>2. KeepsData
    BY <2>1 DEF KeepsData, RowShape, Columns
  <2>3. UNCHANGED rels
    BY <1>3 DEF DeleteEntity
  <2> QED BY <1>0, <2>2, <2>3, SameRels
<1>4. CASE DeleteRelationships(p)
  <2>1. PICK S : S = {k \in DOMAIN rels : h[p].key \in rels[k].refs /\ Message(p).key \in {"", rels[k].key}}
    OBVIOUS
  <2>2. UNCHANGED entities
    BY <1>4 DEF DeleteRelationships
  <2>3. \/ UNCHANGED rels
        \/ rels' = [k \in DOMAIN rels |-> IF k \in S THEN [rels[k] EXCEPT !.deleted = TRUE] ELSE rels[k]]
    BY <1>4, <2>1 DEF DeleteRelationships
  <2> QED BY <1>0, <2>2, <2>3, SameData, SameRels, MarkedRels
<1>5. CASE Sweep(p)
  <2>1. PICK s : s = Head(h[p].todo)
    OBVIOUS
  <2>2. PICK E, R : /\ E = {k \in DOMAIN entities : InScope(s, k[1], k[3]) /\ Doomed(s, Message(p), entities[k], k[4])}
                    /\ R = {k \in DOMAIN rels : InScope(s, k.type, rels[k].integration) /\ Doomed(s, Message(p), rels[k], rels[k].key)}
    OBVIOUS
  <2>3. /\ \/ UNCHANGED entities
           \/ entities' = [k \in DOMAIN entities |-> IF k \in E THEN [entities[k] EXCEPT !.deleted = TRUE] ELSE entities[k]]
        /\ \/ UNCHANGED rels
           \/ rels' = [k \in DOMAIN rels |-> IF k \in R THEN [rels[k] EXCEPT !.deleted = TRUE] ELSE rels[k]]
    BY <1>5, <2>1, <2>2 DEF Sweep
  <2>4. KeepsData
    BY <2>3 DEF KeepsData, RowShape, Columns
  <2> QED BY <1>0, <2>3, <2>4, SameRels, MarkedRels
<1> QED BY <1>1, <1>2, <1>3, <1>4, <1>5 DEF Aside

LEMMA AsideKeepsPairInv ==
  ASSUME CInv, FInv, PairInv, NEW p \in Partitions, Aside(p)
  PROVE  PairInv'
<1>1. /\ step[p] = "handle" /\ UNCHANGED <<criteria, matches, versions, cutOff>>
      /\ \/ h[p].pc \in {"skip", "sweep", "direct", "candidates", "delete", "unlink", "strategies"}
         \/ h[p].pc = "pair" /\ h[p].todo = <<>>
      /\ faults' = faults \/ faults' = faults + 1
  BY DEF Aside, Skip, Paired, Swept, Direct, FindCandidates, DeleteEntity, DeleteRelationships,
         ListStrategies, Sweep, Handling, Fault, Create
<1>2. KeepsData /\ RelsMeant' /\ DOMAIN rels \subseteq DOMAIN rels'
  BY AsideMarks DEF FInv, PairInv
<1>3. MatchesKept'
  BY <1>1, <1>2, SameMatches DEF PairInv
<1>4. PICK pc \in {"idle", "delete", "unlink", "sweep"} : HandlerAt(p, pc)
  BY AsideGoes DEF GoesAside, FInv
<1>5. OthersStay(p) /\ UNCHANGED <<case, position>>
  BY AsideGoes DEF GoesAside, FInv
<1> QED BY <1>1, <1>2, <1>3, <1>4, <1>5, LeavesKeepsPairInv

-----------------------------------------------------------------------------
(* The statements that stage or pair *)

\* A failed statement that returns.
LEMMA FaultKeepsPairInv ==
  ASSUME CInv, FInv, PairInv, NEW p \in Partitions, NEW ok \in BOOLEAN, step[p] = "handle",
         Returns(p, ok), UNCHANGED <<entities, rels, criteria, matches, versions, cutOff>>, faults' = faults + 1
  PROVE  PairInv'
<1>1. HandlerAt(p, "idle") /\ OthersStay(p) /\ UNCHANGED <<case, position>>
  BY ReturnsLeave DEF FInv
<1>2. KeepsData /\ RelsMeant' /\ DOMAIN rels \subseteq DOMAIN rels'
  BY SameData, SameRels DEF PairInv
<1>3. MatchesKept'
  BY <1>2, SameMatches DEF PairInv
<1> QED BY <1>1, <1>2, <1>3, LeavesKeepsPairInv

\* The handler of p goes on with a pair on its way, or one that is there.
LEMMA GoesOnKeepsPairInv ==
  ASSUME CInv, FInv, PairInv, NEW p \in Partitions, NEW r, "pc" \in DOMAIN r, Continues(p, r),
         step[p] = "handle", h[p].pc # "upsert",
         UNCHANGED <<criteria, versions, cutOff>>, KeepsData, faults' = faults \/ faults' = faults + 1,
         RelsMeant', DOMAIN rels \subseteq DOMAIN rels', MatchesKept', HandlerKnows(p)',
         faults' = 0 => \A c \in DOMAIN criteria : \A k \in Targets(c) :
             OnItsWay(p, c, k) => \/ PairKey(c, k) \in DOMAIN rels' \/ OnItsWay(p, c, k)'
                                  \/ \E o \in Offsets(p) : Stages(log[p][o], k) /\ Unstaged(p, o)
  PROVE  PairInv'
<1>1. OthersStay(p) /\ UNCHANGED <<case, position>>
  BY GoesOn DEF FInv
<1>2. ASSUME faults' = 0, NEW c \in DOMAIN criteria, NEW k \in Targets(c), OnItsWay(p, c, k) PROVE Covered(c, k)'
  <2>1. ASSUME NEW o \in Offsets(p), Stages(log[p][o], k), Unstaged(p, o) PROVE OnItsWay(p, c, k)'
    <3>1. o > position[p]
      BY <2>1 DEF Unstaged
    <3> QED BY <1>1, <2>1, <3>1, UnreadStays
  <2> QED BY <1>2, <2>1 DEF Covered, PairKey
<1> QED BY <1>1, <1>2, KeepsPairInv

LEMMA EmbedKeepsPairInv ==
  ASSUME CInv, FInv, PairInv, NEW p \in Partitions, Embed(p)
  PROVE  PairInv'
<1>1. PICK r : r = [h[p] EXCEPT !.rels = Tail(@)]
  OBVIOUS
<1>2. /\ Continues(p, r) /\ step[p] = "handle" /\ h[p].pc = "embed" /\ "pc" \in DOMAIN h[p]
      /\ UNCHANGED <<entities, criteria, matches, versions, cutOff>>
      /\ faults' = faults \/ faults' = faults + 1
  BY <1>1 DEF Embed, Handling, Create, Fault, FInv, HandlerShape
<1>3. "pc" \in DOMAIN r /\ r.pc = "embed" /\ r.key = h[p].key /\ r.data = h[p].data
  BY <1>1, <1>2
<1>4. h'[p] = r /\ UNCHANGED <<case, position>>
  BY <1>2, <1>3, GoesOn DEF FInv
<1>5. RelsMeant' /\ DOMAIN rels \subseteq DOMAIN rels'
  <2>1. PICK k, integration, key, exec : EmbeddedRel(Message(p), Head(h[p].rels)) = <<k, RelRow(integration, key, exec, <<>>)>>
    BY DEF EmbeddedRel
  <2>2. PICK ok \in BOOLEAN : Create(k, RelRow(integration, key, exec, <<>>), ok)
    BY <2>1 DEF Embed
  <2> QED BY <1>2, <2>2, CreateMeant DEF PairInv
<1>6. MatchesKept'
  BY <1>2, <1>5, SameMatches DEF PairInv
<1>7. Message(p)' = Message(p)
  BY <1>4 DEF Message, log
<1>8. HandlerKnows(p)'
  BY <1>2, <1>3, <1>4, <1>7 DEF HandlerKnows, Staging, PairInv
<1>9. ASSUME NEW c, NEW k, OnItsWay(p, c, k)
      PROVE  OnItsWay(p, c, k)' \/ \E o \in Offsets(p) : Stages(log[p][o], k) /\ Unstaged(p, o)
  BY <1>2, <1>3, <1>4, <1>9 DEF OnItsWay
<1> QED BY <1>2, <1>3, <1>5, <1>6, <1>8, <1>9, SameData, GoesOnKeepsPairInv

\* A sequence of a finite set has every element of it.
LEMMA SeqOfSet ==
  ASSUME NEW S, IsFiniteSet(S), NEW s \in SetToSeqs(S)
  PROVE  s \in Seq(S) /\ \A x \in S : \E i \in DOMAIN s : s[i] = x
<1>1. PICK n \in Nat : n = Cardinality(S)
  BY FS_CardinalityType
<1>2. s \in [1..n -> S] /\ \A i, j \in 1..n : i # j => s[i] # s[j]
  BY <1>1 DEF SetToSeqs
<1>3. s \in Injection(1..n, S)
  BY <1>2 DEF Injection, IsInjective
<1>4. IsFiniteSet(1..n) /\ Cardinality(1..n) = n
  BY FS_Interval
<1>5. s \in Surjection(1..n, S)
  BY <1>1, <1>3, <1>4, FS_Injection
<1>6. s \in Seq(S)
  BY <1>2
<1> QED BY <1>2, <1>5, <1>6 DEF Surjection

\* What the search for criteria finds for an entity, and that for entities for a criterion.
LEMMA CriteriaFinite ==
  ASSUME TablesOK, NEW e, NEW data, NEW S, S = {<<d, e, criteria[d]>> : d \in TargetedBy(e, data)}
  PROVE  IsFiniteSet(S)
<1>1. PICK D : D = TargetedBy(e, data)
  OBVIOUS
<1>2. IsFiniteSet(D)
  <2>1. D \in SUBSET DOMAIN criteria
    BY <1>1 DEF TargetedBy
  <2> QED BY <2>1, FS_Subset DEF TablesOK
<1>3. [d \in D |-> <<d, e, criteria[d]>>] \in Surjection(D, S)
  BY <1>1 DEF Surjection
<1> QED BY <1>2, <1>3, FS_Surjection

LEMMA TargetsFinite ==
  ASSUME TablesOK, NEW c, NEW row, NEW S, S = {<<c, k, row>> : k \in Targets(c)}
  PROVE  IsFiniteSet(S)
<1>1. PICK D : D = Targets(c)
  OBVIOUS
<1>2. IsFiniteSet(D)
  <2>1. D \in SUBSET DOMAIN entities
    BY <1>1 DEF Targets, Live
  <2> QED BY <2>1, FS_Subset DEF TablesOK
<1>3. [k \in D |-> <<c, k, row>>] \in Surjection(D, S)
  BY <1>1 DEF Surjection
<1> QED BY <1>2, <1>3, FS_Surjection

\* The handler of p goes on to the pairs of a set.
LEMMA PairsKeepPairInv ==
  ASSUME CInv, FInv, PairInv, NEW p \in Partitions, step[p] = "handle", h[p].pc \in {"embed", "evaluate"},
         UNCHANGED <<entities, rels, criteria, matches, versions, cutOff, faults>>,
         NEW S, IsFiniteSet(S), NEW todo \in SetToSeqs(S), Continues(p, [pc |-> "pair", todo |-> todo]),
         \A x \in S : /\ x = <<x[1], x[2], x[3]>> /\ Met(x[1], x[2])
                      /\ \/ Entry(Message(p)) = "upsert" /\ x[2] = EntityKey(Message(p))
                         \/ Entry(Message(p)) = "criteria" /\ x[1] = CriteriaKey(Message(p)),
         \A c \in DOMAIN criteria : \A k \in Targets(c) :
            \/ h[p].pc = "evaluate" /\ h[p].crit = c
            \/ h[p].pc = "embed" /\ h[p].key = k /\ h[p].data = entities[k].data
            => \E x \in S : x[1] = c /\ x[2] = k
  PROVE  PairInv'
<1>1. PICK r : r = [pc |-> "pair", todo |-> todo]
  OBVIOUS
<1>2. "pc" \in DOMAIN r /\ r.pc = "pair" /\ r.todo = todo /\ Continues(p, r)
  BY <1>1
<1>3. h'[p] = r /\ UNCHANGED <<case, position>>
  BY <1>2, GoesOn DEF FInv
<1>4. todo \in Seq(S) /\ \A x \in S : \E i \in DOMAIN todo : todo[i] = x
  BY SeqOfSet
<1>5. Message(p)' = Message(p)
  BY <1>3 DEF Message, log
<1>6. \A c, e : Met(c, e)' <=> Met(c, e)
  BY DEF Met, Meets
<1>7. Pairing(p)'
  BY <1>2, <1>3, <1>4, <1>5, <1>6 DEF Pairing
<1>8. HandlerKnows(p)'
  BY <1>2, <1>3, <1>7 DEF HandlerKnows
<1>9. ASSUME NEW c \in DOMAIN criteria, NEW k \in Targets(c), OnItsWay(p, c, k)
      PROVE  OnItsWay(p, c, k)' \/ \E o \in Offsets(p) : Stages(log[p][o], k) /\ Unstaged(p, o)
  <2>1. \/ h[p].pc = "evaluate" /\ h[p].crit = c
        \/ h[p].pc = "embed" /\ h[p].key = k /\ h[p].data = entities[k].data
        \/ \E o \in Offsets(p) : Stages(log[p][o], k) /\ Unstaged(p, o)
    BY <1>9 DEF OnItsWay
  <2>2. ASSUME NEW i \in DOMAIN todo, todo[i][1] = c, todo[i][2] = k PROVE OnItsWay(p, c, k)'
    BY <1>2, <1>3, <2>2 DEF OnItsWay
  <2>3. ASSUME \E x \in S : x[1] = c /\ x[2] = k PROVE OnItsWay(p, c, k)'
    BY <1>4, <2>2, <2>3
  <2> QED BY <2>1, <2>3
<1>10. KeepsData /\ RelsMeant' /\ DOMAIN rels \subseteq DOMAIN rels'
  BY SameData, SameRels DEF PairInv
<1>11. MatchesKept'
  BY <1>10, SameMatches DEF PairInv
<1> QED BY <1>2, <1>8, <1>9, <1>10, <1>11, GoesOnKeepsPairInv

LEMMA FindByTargetKeepsPairInv ==
  ASSUME CInv, FInv, PairInv, NEW p \in Partitions, FindByTarget(p)
  PROVE  PairInv'
<1>1. /\ step[p] = "handle" /\ h[p].pc = "embed"
      /\ UNCHANGED <<entities, rels, criteria, matches, versions, cutOff>>
  BY DEF FindByTarget, Handling
<1>2. CASE Fault /\ Returns(p, TRUE)
  BY <1>1, <1>2, FaultKeepsPairInv DEF Fault
<1>3. PICK key, data, S : /\ key = h[p].key /\ data = h[p].data
                          /\ S = {<<c, key, criteria[c]>> : c \in TargetedBy(key, data)}
  OBVIOUS
<1>4. CASE \E todo \in SetToSeqs(S) : Continues(p, [pc |-> "pair", todo |-> todo]) /\ UNCHANGED faults
  <2>1. IsFiniteSet(S)
    BY <1>3, CriteriaFinite DEF PairInv
  <2>2. Entry(Message(p)) = "upsert" /\ key = EntityKey(Message(p)) /\ <<key, data>> \in versions
    BY <1>1, <1>3 DEF PairInv, HandlerKnows, Staging
  <2>3. ASSUME NEW x \in S
        PROVE  x = <<x[1], x[2], x[3]>> /\ Met(x[1], x[2]) /\ x[2] = key
    <3>1. PICK c \in TargetedBy(key, data) : x = <<c, key, criteria[c]>>
      BY <1>3
    <3>2. Meets(c, key, data)
      BY <3>1 DEF TargetedBy, Meets
    <3>3. Met(c, key)
      BY <2>2, <3>2 DEF Met
    <3> QED BY <3>1, <3>3
  <2>4. ASSUME NEW c \in DOMAIN criteria, NEW k \in Targets(c), key = k, data = entities[k].data
        PROVE  \E x \in S : x[1] = c /\ x[2] = k
    <3>1. c \in TargetedBy(key, data)
      BY <2>4 DEF Targets, TargetedBy
    <3>2. <<c, key, criteria[c]>> \in S
      BY <1>3, <3>1
    <3> QED BY <2>4, <3>2
  <2>5. PICK todo \in SetToSeqs(S) : Continues(p, [pc |-> "pair", todo |-> todo]) /\ UNCHANGED faults
    BY <1>4
  <2>6. \A x \in S : /\ x = <<x[1], x[2], x[3]>> /\ Met(x[1], x[2])
                     /\ \/ Entry(Message(p)) = "upsert" /\ x[2] = EntityKey(Message(p))
                        \/ Entry(Message(p)) = "criteria" /\ x[1] = CriteriaKey(Message(p))
    BY <2>2, <2>3
  <2>7. \A c \in DOMAIN criteria : \A k \in Targets(c) :
            \/ h[p].pc = "evaluate" /\ h[p].crit = c
            \/ h[p].pc = "embed" /\ h[p].key = k /\ h[p].data = entities[k].data
            => \E x \in S : x[1] = c /\ x[2] = k
    BY <1>1, <1>3, <2>4
  <2> QED BY <1>1, <2>1, <2>5, <2>6, <2>7, PairsKeepPairInv
<1> QED BY <1>2, <1>3, <1>4 DEF FindByTarget

LEMMA FindTargetsKeepsPairInv ==
  ASSUME CInv, FInv, PairInv, NEW p \in Partitions, FindTargets(p)
  PROVE  PairInv'
<1>1. /\ step[p] = "handle" /\ h[p].pc = "evaluate"
      /\ UNCHANGED <<entities, rels, criteria, matches, versions, cutOff>>
  BY DEF FindTargets, Handling
<1>2. CASE Fault /\ Returns(p, TRUE)
  BY <1>1, <1>2, FaultKeepsPairInv DEF Fault
<1>3. PICK c, row, S : c = h[p].crit /\ row = h[p].row /\ S = {<<c, k, row>> : k \in Targets(c)}
  OBVIOUS
<1>4. CASE \E todo \in SetToSeqs(S) : Continues(p, [pc |-> "pair", todo |-> todo]) /\ UNCHANGED faults
  <2>1. IsFiniteSet(S)
    <3>1. TablesOK /\ S = {<<c, k, row>> : k \in Targets(c)}
      BY <1>3 DEF PairInv
    <3> QED BY <3>1, TargetsFinite, Zenon
  <2>2. Entry(Message(p)) = "criteria" /\ c = CriteriaKey(Message(p))
    BY <1>1, <1>3 DEF PairInv, HandlerKnows, Evaluating
  <2>3. ASSUME NEW x \in S
        PROVE  x = <<x[1], x[2], x[3]>> /\ Met(x[1], x[2]) /\ x[1] = c
    <3>1. PICK k \in Targets(c) : x = <<c, k, row>>
      BY <1>3
    <3>2. Meets(c, k, entities[k].data) /\ k \in DOMAIN entities
      BY <3>1 DEF Targets, Live, Meets
    <3>3. PICK v : v = <<k, entities[k].data>>
      OBVIOUS
    <3>4. v \in versions /\ v[1] = k /\ Meets(c, k, v[2])
      BY <3>2, <3>3 DEF PairInv, TablesOK
    <3>5. Met(c, k)
      BY <3>4 DEF Met
    <3> QED BY <3>1, <3>5
  <2>4. ASSUME NEW d \in DOMAIN criteria, NEW k \in Targets(d), c = d
        PROVE  \E x \in S : x[1] = d /\ x[2] = k
    <3>1. <<c, k, row>> \in S
      BY <1>3, <2>4
    <3> QED BY <2>4, <3>1
  <2>5. PICK todo \in SetToSeqs(S) : Continues(p, [pc |-> "pair", todo |-> todo]) /\ UNCHANGED faults
    BY <1>4
  <2>6. \A x \in S : /\ x = <<x[1], x[2], x[3]>> /\ Met(x[1], x[2])
                     /\ \/ Entry(Message(p)) = "upsert" /\ x[2] = EntityKey(Message(p))
                        \/ Entry(Message(p)) = "criteria" /\ x[1] = CriteriaKey(Message(p))
    BY <2>2, <2>3
  <2>7. \A d \in DOMAIN criteria : \A k \in Targets(d) :
            \/ h[p].pc = "evaluate" /\ h[p].crit = d
            \/ h[p].pc = "embed" /\ h[p].key = k /\ h[p].data = entities[k].data
            => \E x \in S : x[1] = d /\ x[2] = k
    BY <1>1, <1>3, <2>4
  <2> QED BY <1>1, <2>1, <2>5, <2>6, <2>7, PairsKeepPairInv
<1> QED BY <1>2, <1>3, <1>4 DEF FindTargets

LEMMA PairKeepsPairInv ==
  ASSUME CInv, FInv, PairInv, NEW p \in Partitions, Pair(p)
  PROVE  PairInv'
<1>1. /\ step[p] = "handle" /\ h[p].pc = "pair" /\ h[p].todo # <<>> /\ "pc" \in DOMAIN h[p]
      /\ UNCHANGED <<entities, criteria, matches, versions, cutOff>>
  BY DEF Pair, Handling, FInv, HandlerShape
<1>2. Pairing(p)
  BY <1>1 DEF PairInv, HandlerKnows
<1>3. PICK S : /\ h[p].todo \in Seq(S)
               /\ \A x \in S :
                    /\ x = <<x[1], x[2], x[3]>> /\ Met(x[1], x[2])
                    /\ \/ Entry(Message(p)) = "upsert" /\ x[2] = EntityKey(Message(p))
                       \/ Entry(Message(p)) = "criteria" /\ x[1] = CriteriaKey(Message(p))
  BY <1>2 DEF Pairing
<1>4. PICK x \in S : x = Head(h[p].todo)
  BY <1>1, <1>3
<1>5. PICK r, s : r = [h[p] EXCEPT !.pc = "match"] /\ s = [h[p] EXCEPT !.todo = Tail(@)]
  OBVIOUS
<1>6. PICK ok \in BOOLEAN :
        /\ Create(MatchRel(x[1], x[2], x[3])[1], MatchRel(x[1], x[2], x[3])[2], ok)
        /\ Continues(p, IF ok THEN r ELSE s)
  BY <1>4, <1>5 DEF Pair
<1>7. Create(PairKey(x[1], x[2]), RelRow(x[3].integration, x[3].key, x[3].exec, <<x[1]>>), ok)
  <2>1. MatchRel(x[1], x[2], x[3])[1] = PairKey(x[1], x[2])
    BY MatchRelIsPair
  <2>2. MatchRel(x[1], x[2], x[3])[2] = RelRow(x[3].integration, x[3].key, x[3].exec, <<x[1]>>)
    BY MatchRelIsPair
  <2> QED BY <1>6, <2>1, <2>2
<1>8. RelsMeant' /\ DOMAIN rels \subseteq DOMAIN rels' /\ (ok => PairKey(x[1], x[2]) \in DOMAIN rels')
  BY <1>1, <1>3, <1>4, <1>7, CreateMeant DEF PairInv
<1>9. MatchesKept' /\ KeepsData
  BY <1>1, <1>8, SameMatches, SameData DEF PairInv
<1>10. CASE ok
  <2>1. "pc" \in DOMAIN r /\ r.pc = "match" /\ r.todo = h[p].todo /\ Continues(p, r) /\ UNCHANGED faults
    BY <1>1, <1>5, <1>6, <1>10 DEF Create
  <2>2. h'[p] = r /\ UNCHANGED <<case, position>>
    BY <2>1, GoesOn DEF FInv
  <2>3. Message(p)' = Message(p)
    BY <2>2 DEF Message, log
  <2>4. \A c, e : Met(c, e)' <=> Met(c, e)
    BY <1>1 DEF Met, Meets
  <2>5. Pairing(p)'
    BY <1>3, <2>1, <2>2, <2>3, <2>4 DEF Pairing
  <2>6. HandlerKnows(p)'
    BY <1>1, <1>4, <1>8, <1>10, <2>1, <2>2, <2>5 DEF HandlerKnows, PairKey
  <2>7. ASSUME NEW c, NEW k, OnItsWay(p, c, k)
        PROVE  OnItsWay(p, c, k)' \/ \E o \in Offsets(p) : Stages(log[p][o], k) /\ Unstaged(p, o)
    BY <1>1, <2>1, <2>2, <2>7 DEF OnItsWay
  <2> QED BY <1>1, <1>8, <1>9, <2>1, <2>6, <2>7, GoesOnKeepsPairInv
<1>11. CASE ~ok
  <2>1. /\ "pc" \in DOMAIN s /\ s.pc = "pair" /\ Continues(p, s)
        /\ faults' = faults + 1
    BY <1>1, <1>5, <1>6, <1>11 DEF Create, Fault
  <2>2. s.todo \in Seq(S) \/ s.todo = h[p].todo
    BY <1>1, <1>3, <1>5
  <2>3. h'[p] = s /\ UNCHANGED <<case, position>>
    BY <2>1, GoesOn DEF FInv
  <2>4. Message(p)' = Message(p)
    BY <2>3 DEF Message, log
  <2>5. \A c, e : Met(c, e)' <=> Met(c, e)
    BY <1>1 DEF Met, Meets
  <2>6. Pairing(p)'
    BY <1>3, <2>2, <2>3, <2>4, <2>5 DEF Pairing
  <2>7. HandlerKnows(p)'
    BY <2>1, <2>3, <2>6 DEF HandlerKnows
  <2>8. faults' # 0
    BY <2>1 DEF PairInv, TablesOK
  <2> QED BY <1>1, <1>8, <1>9, <2>1, <2>7, <2>8, GoesOnKeepsPairInv
<1> QED BY <1>10, <1>11

LEMMA AddMatchKeepsPairInv ==
  ASSUME CInv, FInv, PairInv, NEW p \in Partitions, AddMatch(p)
  PROVE  PairInv'
<1>1. /\ step[p] = "handle" /\ h[p].pc = "match" /\ "pc" \in DOMAIN h[p]
      /\ UNCHANGED <<entities, rels, criteria, versions, cutOff>>
      /\ faults' = faults \/ faults' = faults + 1
  BY DEF AddMatch, Handling, Fault, FInv, HandlerShape
<1>2. Pairing(p) /\ h[p].todo # <<>> /\ PairKey(Head(h[p].todo)[1], Head(h[p].todo)[2]) \in DOMAIN rels
  BY <1>1 DEF PairInv, HandlerKnows
<1>3. PICK S : /\ h[p].todo \in Seq(S)
               /\ \A x \in S :
                    /\ x = <<x[1], x[2], x[3]>> /\ Met(x[1], x[2])
                    /\ \/ Entry(Message(p)) = "upsert" /\ x[2] = EntityKey(Message(p))
                       \/ Entry(Message(p)) = "criteria" /\ x[1] = CriteriaKey(Message(p))
  BY <1>2 DEF Pairing
<1>4. PICK x \in S : x = Head(h[p].todo)
  BY <1>2, <1>3
<1>5. PICK r : r = [h[p] EXCEPT !.pc = "pair", !.todo = Tail(@)]
  OBVIOUS
<1>6. "pc" \in DOMAIN r /\ r.pc = "pair" /\ Continues(p, r)
  BY <1>1, <1>5 DEF AddMatch
<1>7. r.todo = Tail(h[p].todo) \/ r.todo = h[p].todo
  BY <1>5
<1>8. h'[p] = r /\ UNCHANGED <<case, position>>
  BY <1>6, GoesOn DEF FInv
<1>9. RelsMeant' /\ DOMAIN rels \subseteq DOMAIN rels' /\ KeepsData
  BY <1>1, SameRels, SameData DEF PairInv
<1>10. MatchesKept'
  <2>1. PICK y : y = SubSeq(x, 1, 2)
    OBVIOUS
  <2>2. y[1] = x[1] /\ y[2] = x[2]
    BY <1>3, <2>1
  <2>3. matches' \subseteq matches \union {y}
    BY <1>4, <2>1 DEF AddMatch
  <2> QED BY <1>1, <1>2, <1>4, <2>2, <2>3 DEF MatchesKept, PairInv, PairKey
<1>11. HandlerKnows(p)'
  <2>1. Message(p)' = Message(p)
    BY <1>8 DEF Message, log
  <2>2. \A c, e : Met(c, e)' <=> Met(c, e)
    BY <1>1 DEF Met, Meets
  <2>3. r.todo \in Seq(S)
    <3>1. PICK t : t = h[p].todo
      OBVIOUS
    <3>2. t \in Seq(S) /\ t # <<>>
      BY <1>2, <1>3, <3>1
    <3>3. Tail(t) \in Seq(S)
      BY <3>2
    <3> QED BY <1>7, <3>1, <3>2, <3>3
  <2>4. Pairing(p)'
    BY <1>3, <1>8, <2>1, <2>2, <2>3 DEF Pairing
  <2> QED BY <1>6, <1>8, <2>4 DEF HandlerKnows
<1>12. ASSUME NEW c, NEW k, OnItsWay(p, c, k)
       PROVE  \/ PairKey(c, k) \in DOMAIN rels' \/ OnItsWay(p, c, k)'
              \/ \E o \in Offsets(p) : Stages(log[p][o], k) /\ Unstaged(p, o)
  <2>1. ASSUME NEW i \in DOMAIN h[p].todo, h[p].todo[i][1] = c, h[p].todo[i][2] = k
        PROVE  PairKey(c, k) \in DOMAIN rels' \/ OnItsWay(p, c, k)'
    <3>1. CASE i = 1
      <4>1. h[p].todo[1] = Head(h[p].todo)
        BY <1>2, <1>3
      <4> QED BY <1>1, <1>2, <2>1, <3>1, <4>1
    <3>2. CASE i # 1
      <4>1. PICK j : j \in DOMAIN r.todo /\ r.todo[j] = h[p].todo[i]
        <5>1. i - 1 \in DOMAIN Tail(h[p].todo) /\ Tail(h[p].todo)[i - 1] = h[p].todo[i]
          BY <1>2, <1>3, <3>2
        <5> QED BY <1>7, <5>1
      <4> QED BY <1>6, <1>8, <2>1, <4>1 DEF OnItsWay
    <3> QED BY <3>1, <3>2
  <2> QED BY <1>1, <1>12, <2>1 DEF OnItsWay
<1> QED BY <1>1, <1>6, <1>9, <1>10, <1>11, <1>12, GoesOnKeepsPairInv

LEMMA UpdateFingerprintKeepsPairInv ==
  ASSUME CInv, FInv, PairInv, NEW p \in Partitions, UpdateFingerprint(p)
  PROVE  PairInv'
<1>1. /\ step[p] = "handle" /\ h[p].pc = "fingerprint" /\ "pc" \in DOMAIN h[p] /\ h[p].key \in DOMAIN entities
      /\ UNCHANGED <<rels, criteria, matches, versions, cutOff>>
  BY DEF UpdateFingerprint, Handling, FInv, HandlerShape, BetweenStatements, Between
<1>2. CASE Fault /\ Returns(p, FALSE) /\ UNCHANGED entities
  BY <1>1, <1>2, FaultKeepsPairInv DEF Fault
<1>3. PICK r : r = [h[p] EXCEPT !.pc = "embed"]
  OBVIOUS
<1>4. CASE /\ entities' = [entities EXCEPT ![h[p].key].fp = h[p].fp, ![h[p].key].updated = now]
           /\ Continues(p, r) /\ UNCHANGED faults
  <2>1. "pc" \in DOMAIN r /\ r.pc = "embed" /\ r.key = h[p].key /\ r.data = h[p].data
    BY <1>1, <1>3
  <2>2. KeepsData
    BY <1>1, <1>4 DEF KeepsData, FInv, RowShape, Columns
  <2>3. h'[p] = r /\ UNCHANGED <<case, position>>
    BY <1>4, <2>1, GoesOn DEF FInv
  <2>4. RelsMeant' /\ DOMAIN rels \subseteq DOMAIN rels'
    BY <1>1, SameRels DEF PairInv
  <2>5. MatchesKept'
    BY <1>1, <2>4, SameMatches DEF PairInv
  <2>6. Message(p)' = Message(p)
    BY <2>3 DEF Message, log
  <2>7. HandlerKnows(p)'
    BY <1>1, <2>1, <2>3, <2>6 DEF HandlerKnows, Staging, PairInv
  <2>8. ASSUME NEW c, NEW k \in Targets(c), OnItsWay(p, c, k)
        PROVE  OnItsWay(p, c, k)' \/ \E o \in Offsets(p) : Stages(log[p][o], k) /\ Unstaged(p, o)
    <3>1. entities'[k].data = entities[k].data
      BY <2>2 DEF KeepsData, Targets, Live
    <3> QED BY <1>1, <2>1, <2>3, <2>8, <3>1 DEF OnItsWay
  <2> QED BY <1>1, <1>4, <2>1, <2>2, <2>4, <2>5, <2>7, <2>8, GoesOnKeepsPairInv
<1> QED BY <1>2, <1>3, <1>4 DEF UpdateFingerprint

\* New criteria are evaluated by their own handler.
LEMMA UpsertCriteriaKeepsPairInv ==
  ASSUME CInv, FInv, PairInv, NEW p \in Partitions, UpsertCriteria(p)
  PROVE  PairInv'
<1>1. /\ step[p] = "handle" /\ h[p].pc = "criteria"
      /\ UNCHANGED <<entities, rels, matches, versions, cutOff>>
  BY DEF UpsertCriteria, Handling
<1>2. CASE Fault /\ Returns(p, FALSE) /\ UNCHANGED criteria
  BY <1>1, <1>2, FaultKeepsPairInv DEF Fault
<1>3. PICK c, row : c = CriteriaKey(Message(p)) /\ row = CriteriaRow(c, Message(p))
  OBVIOUS
<1>4. KeepsData /\ RelsMeant' /\ DOMAIN rels \subseteq DOMAIN rels'
  BY <1>1, SameData, SameRels DEF PairInv
<1>5. MatchesKept'
  BY <1>1, <1>4, SameMatches DEF PairInv
<1>6. CASE criteria' = With(criteria, c, row) /\ c \in DOMAIN criteria /\ Returns(p, TRUE) /\ UNCHANGED faults
  <2>1. HandlerAt(p, "idle") /\ OthersStay(p) /\ UNCHANGED <<case, position>>
    BY <1>6, ReturnsLeave DEF FInv
  <2>2. DOMAIN criteria' = DOMAIN criteria
    BY <1>6 DEF With
  <2> QED BY <1>1, <1>4, <1>5, <1>6, <2>1, <2>2, LeavesKeepsPairInv
<1>7. CASE /\ criteria' = With(criteria, c, row) /\ UNCHANGED faults
           /\ Continues(p, [pc |-> "evaluate", crit |-> c, row |-> row])
  <2>1. PICK r : r = [pc |-> "evaluate", crit |-> c, row |-> row]
    OBVIOUS
  <2>2. "pc" \in DOMAIN r /\ r.pc = "evaluate" /\ r.crit = c /\ Continues(p, r)
    BY <1>7, <2>1
  <2>3. h'[p] = r /\ OthersStay(p) /\ UNCHANGED <<case, position>>
    BY <2>2, GoesOn DEF FInv
  <2>4. Message(p)' = Message(p)
    BY <2>3 DEF Message, log
  <2>5. Entry(Message(p)) = "criteria"
    BY <1>1 DEF PairInv, HandlerKnows
  <2>6. HandlerKnows(p)'
    <3>1. Evaluating(p)'
      BY <1>3, <2>2, <2>3, <2>4, <2>5 DEF Evaluating
    <3> QED BY <2>2, <2>3, <3>1 DEF HandlerKnows
  <2>7. \A q \in Partitions : HandlerKnows(q)'
    BY <1>1, <2>3, <2>6, KnowsStays DEF PairInv, OthersStay
  <2>8. DOMAIN criteria' = DOMAIN criteria \union {c}
    BY <1>7 DEF With
  <2>9. TablesOK'
    <3>1. IsFiniteSet(DOMAIN criteria')
      BY <2>8, FS_AddElement DEF PairInv, TablesOK
    <3> QED BY <1>1, <1>7, <3>1 DEF PairInv, TablesOK
  <2>10. AllCovered'
    <3> SUFFICES ASSUME faults' = 0, NEW d \in DOMAIN criteria' \ cutOff', NEW k \in Targets(d)'
                 PROVE  Covered(d, k)'
      BY DEF AllCovered
    <3>1. CASE d = c
      BY <2>2, <2>3, <3>1 DEF Covered, OnItsWay
    <3>2. CASE d # c
      <4>1. d \in DOMAIN criteria \ cutOff /\ k \in Targets(d) /\ entities'[k].data = entities[k].data
        BY <1>1, <1>4, <2>8, <3>2, TargetsShrink
      <4>2. Covered(d, k)
        BY <1>7, <4>1 DEF PairInv, AllCovered
      <4>3. ASSUME OnItsWay(p, d, k) PROVE Covered(d, k)'
        <5>1. PICK o \in Offsets(p) : Stages(log[p][o], k) /\ Unstaged(p, o)
          BY <1>1, <4>3 DEF OnItsWay
        <5>2. o > position[p]
          BY <1>1, <5>1 DEF Unstaged
        <5>3. OnItsWay(p, d, k)'
          BY <2>3, <5>1, <5>2, UnreadStays
        <5> QED BY <5>3 DEF Covered
      <4> QED BY <1>4, <2>3, <4>1, <4>2, <4>3, CoveredStays
    <3> QED BY <3>1, <3>2
  <2> QED BY <1>4, <1>5, <2>7, <2>9, <2>10 DEF PairInv
<1> QED BY <1>2, <1>3, <1>6, <1>7 DEF UpsertCriteria

\* A new version of an entity is in the hands of the handler that staged it.
LEMMA UpsertKeepsPairInv ==
  ASSUME CInv, FInv, PairInv, NEW p \in Partitions, Upsert(p)
  PROVE  PairInv'
<1>1. /\ step[p] = "handle" /\ h[p].pc = "upsert" /\ Entry(Message(p)) = "upsert"
      /\ UNCHANGED <<rels, criteria, matches, cutOff>>
  BY DEF Upsert, Handling, PairInv, HandlerKnows
<1>2. CASE Fault /\ Returns(p, FALSE) /\ UNCHANGED <<entities, versions>>
  BY <1>1, <1>2, FaultKeepsPairInv DEF Fault
<1>3. PICK key, row, r : key = EntityKey(Message(p)) /\ row = Upserted(key, Message(p)) /\ r = AfterUpsert(p, key, row)
  OBVIOUS
<1>4. CASE /\ entities' = With(entities, key, row) /\ versions' = versions \union {<<key, row.data>>}
           /\ Continues(p, r) /\ UNCHANGED faults
  <2>1. "pc" \in DOMAIN r /\ r.pc \in {"embed", "fingerprint"} /\ r.key = key /\ r.data = row.data
    BY <1>3 DEF AfterUpsert
  <2>2. h'[p] = r /\ OthersStay(p) /\ UNCHANGED <<case, position>>
    BY <1>4, <2>1, GoesOn DEF FInv
  <2>3. /\ DOMAIN entities' = DOMAIN entities \union {key} /\ entities'[key] = row
        /\ \A k \in DOMAIN entities : k # key => entities'[k] = entities[k]
    BY <1>4 DEF With
  <2>4. Message(p)' = Message(p)
    BY <2>2 DEF Message, log
  <2>5. TablesOK'
    <3>1. IsFiniteSet(DOMAIN entities')
      BY <2>3, FS_AddElement DEF PairInv, TablesOK
    <3>2. \A k \in DOMAIN entities' : <<k, entities'[k].data>> \in versions'
      BY <1>4, <2>3 DEF PairInv, TablesOK
    <3> QED BY <1>1, <1>4, <3>1, <3>2 DEF PairInv, TablesOK
  <2>6. HandlerKnows(p)'
    <3>1. Staging(p)'
      BY <1>1, <1>3, <1>4, <2>1, <2>2, <2>4 DEF Staging
    <3> QED BY <2>1, <2>2, <3>1 DEF HandlerKnows
  <2>7. \A q \in Partitions : HandlerKnows(q)'
    BY <1>1, <1>4, <2>2, <2>6, KnowsStays DEF PairInv, OthersStay
  <2>8. RelsMeant'
    <3>1. \A c, e : Met(c, e) => Met(c, e)'
      BY <1>4 DEF Met, Meets
    <3> QED BY <1>1, <3>1 DEF RelsMeant, PairInv, PairKey
  <2>9. MatchesKept'
    BY <1>1, SameMatches DEF PairInv
  <2>10. AllCovered'
    <3> SUFFICES ASSUME faults' = 0, NEW c \in DOMAIN criteria \ cutOff, NEW k \in Targets(c)'
                 PROVE  Covered(c, k)'
      BY <1>1 DEF AllCovered
    <3>1. CASE k = key
      BY <2>1, <2>2, <2>3, <3>1 DEF Covered, OnItsWay
    <3>2. CASE k # key
      <4>1. k \in DOMAIN entities /\ entities'[k] = entities[k]
        BY <2>3, <3>2 DEF Targets, Live
      <4>2. k \in Targets(c)
        BY <4>1 DEF Targets, Live
      <4>3. Covered(c, k)
        BY <1>4, <4>2 DEF PairInv, AllCovered
      <4>4. ASSUME OnItsWay(p, c, k) PROVE Covered(c, k)'
        <5>1. PICK o \in Offsets(p) : Stages(log[p][o], k) /\ Unstaged(p, o)
          BY <1>1, <4>4 DEF OnItsWay
        <5>2. o # position[p]
          BY <1>3, <3>2, <5>1 DEF Stages, Message
        <5>3. o > position[p]
          BY <5>1, <5>2 DEF Unstaged
        <5>4. OnItsWay(p, c, k)'
          BY <2>2, <5>1, <5>3, UnreadStays
        <5> QED BY <5>4 DEF Covered
      <4> QED BY <1>1, <2>2, <4>1, <4>3, <4>4, CoveredStays
    <3> QED BY <3>1, <3>2
  <2> QED BY <2>5, <2>7, <2>8, <2>9, <2>10 DEF PairInv
<1> QED BY <1>2, <1>3, <1>4 DEF Upsert

-----------------------------------------------------------------------------
(* The loop, restarts and the clock *)

\* A step that leaves the tables alone.
LEMMA TablesStay ==
  ASSUME PairInv, UNCHANGED <<entities, rels, criteria, matches, versions, faults>>
  PROVE  KeepsData /\ RelsMeant' /\ DOMAIN rels \subseteq DOMAIN rels' /\ MatchesKept'
<1>1. KeepsData /\ RelsMeant' /\ DOMAIN rels \subseteq DOMAIN rels'
  BY SameData, SameRels DEF PairInv
<1> QED BY <1>1, SameMatches DEF PairInv

\* What p owes stays owed if its handler stays, and what is not staged stays so.
LEMMA StillOwed ==
  ASSUME UNCHANGED <<case, entities>>, NEW p \in Partitions, h'[p] = h[p], NEW c, NEW k, OnItsWay(p, c, k),
         \A o \in Offsets(p) : Stages(log[p][o], k) /\ Unstaged(p, o) => Unstaged(p, o)'
  PROVE  Covered(c, k)'
<1>1. log' = log /\ Offsets(p)' = Offsets(p) /\ \A o : Stages(log[p][o], k)' <=> Stages(log[p][o], k)
  BY LogStays DEF Stages
<1>2. OnItsWay(p, c, k)'
  BY <1>1 DEF OnItsWay
<1> QED BY <1>2 DEF Covered

LEMMA LoopKeepsPairInv ==
  ASSUME CInv, FInv, PairInv, NEW p \in Partitions, ConsumerStep(p) \/ Flush(p), UNCHANGED ivy
  PROVE  PairInv'
<1> USE DEF CInv, Shape
<1>1. /\ UNCHANGED <<case, h, entities, rels, criteria, matches, versions, faults, cutOff>>
      /\ OthersStay(p)
  BY DEF ConsumerStep, Fetch, Parse, Commit, Flush, Goes, ivy, OthersStay
<1>2. Len(log[p]) \in Nat /\ position[p] \in Nat
  BY LengthIsNat DEF FInv
<1>3. ASSUME NEW k, NEW o \in Offsets(p), Stages(log[p][o], k), Unstaged(p, o)
      PROVE  Unstaged(p, o)'
  <2>1. CASE Fetch(p)
    <3>1. step[p] = "fetch" /\ step'[p] = "parse" /\ position'[p] = position[p] + 1
      BY <2>1 DEF Fetch, Goes
    <3>2. o > position[p] => (o > position[p] + 1 \/ o = position[p] + 1)
      BY <1>2 DEF Offsets
    <3> QED BY <1>3, <3>1, <3>2 DEF Unstaged
  <2>2. CASE Parse(p)
    <3>1. /\ step[p] = "parse" /\ position' = position
          /\ Parses(p, position[p]) => step'[p] = "call"
      BY <2>2 DEF Parse, Goes
    <3>2. o = position[p] => Parses(p, position[p])
      BY <1>3 DEF Stages, Parses
    <3> QED BY <1>3, <3>1, <3>2 DEF Unstaged
  <2>3. CASE Commit(p)
    BY <1>3, <2>3 DEF Unstaged, Commit, Goes
  <2>4. CASE Flush(p)
    BY <1>1, <1>3, <2>4 DEF Unstaged, Flush
  <2> QED BY <2>1, <2>2, <2>3, <2>4 DEF ConsumerStep
<1>4. HandlerKnows(p)'
  <2>1. CASE UNCHANGED position
    BY <1>1, <2>1, KnowsStays DEF PairInv
  <2>2. CASE step[p] = "fetch"
    BY <1>1, <2>2 DEF FInv, HandlerShape, HandlerKnows
  <2> QED BY <2>1, <2>2 DEF ConsumerStep, Fetch, Parse, Commit, Flush, Goes
<1>5. \A c, k : OnItsWay(p, c, k) => Covered(c, k)'
  BY <1>1, <1>3, StillOwed
<1> QED BY <1>1, <1>4, <1>5, TablesStay, KeepsPairInv

LEMMA EntryStarts == \A m : Entry(m) \notin {"fingerprint", "embed", "evaluate", "pair", "match"}
  BY DEF Entry, RelationshipEntry

LEMMA ReceiveKeepsPairInv ==
  ASSUME CInv, FInv, PairInv, NEW p \in Partitions, Receive(p)
  PROVE  PairInv'
<1> USE DEF CInv, Shape
<1>1. /\ UNCHANGED <<case, entities, rels, criteria, matches, versions, faults, cutOff, failed, position>>
      /\ step[p] = "call" /\ step'[p] = "handle"
      /\ \A q \in Partitions : q # p => step'[q] = step[q]
  BY DEF Receive, Call, Goes
<1>2. HandlerAt(p, Entry(Message(p)))
  <2> DEFINE r == [pc |-> Entry(Message(p)), rels |-> Message(p).rels]
  <2>1. GoesTo(p, r)
    BY DEF Receive
  <2>2. "pc" \in DOMAIN r /\ r.pc = Entry(Message(p))
    OBVIOUS
  <2> HIDE DEF r
  <2> QED BY <2>1, <2>2, HandlerGoes DEF FInv
<1>3. OthersStay(p)
  BY <1>1, <1>2 DEF OthersStay, HandlerAt
<1>4. Message(p)' = Message(p)
  BY <1>1 DEF Message, log
<1>5. HandlerKnows(p)'
  BY <1>2, <1>4, EntryStarts DEF HandlerKnows, HandlerAt
<1>6. ASSUME NEW c, NEW k, OnItsWay(p, c, k) PROVE Covered(c, k)'
  <2>1. h[p].pc = "idle"
    BY <1>1 DEF FInv, HandlerShape
  <2>2. PICK o \in Offsets(p) : Stages(log[p][o], k) /\ Unstaged(p, o)
    BY <1>6, <2>1 DEF OnItsWay
  <2>3. Unstaged(p, o)'
    BY <1>1, <1>2, <2>2 DEF Unstaged, HandlerAt, Stages, Message
  <2>4. o \in Offsets(p)' /\ Stages(log[p][o], k)'
    BY <1>1, <2>2, LogStays DEF Stages
  <2> QED BY <2>3, <2>4 DEF Covered, OnItsWay
<1> QED BY <1>1, <1>3, <1>5, <1>6, TablesStay, KeepsPairInv

\* A restart takes the message in hand back to where it is read again, and what its
\* handler had still to do is done then, except for criteria, which are cut off.
LEMMA CrashKeepsPairInv ==
  ASSUME CInv, InHand, FInv, PairInv, NEW p \in Partitions, Crash(p)
  PROVE  PairInv'
<1> USE DEF CInv, Shape
<1>1. /\ UNCHANGED <<case, entities, rels, criteria, matches, versions, faults, failed>>
      /\ position'[p] = committed[p] /\ cutOff \subseteq cutOff'
      /\ \A q \in Partitions : q # p => step'[q] = step[q] /\ position'[q] = position[q]
  BY TheService DEF Crash, Restart, Resume, Starts
<1>2. HandlerAt(p, "idle")
  <2>1. "pc" \in DOMAIN Idle /\ Idle.pc = "idle" /\ GoesTo(p, Idle)
    BY DEF Idle, Crash
  <2> QED BY <2>1, HandlerGoes DEF FInv
<1>3. OthersStay(p) /\ HandlerKnows(p)'
  BY <1>1, <1>2 DEF OthersStay, HandlerAt, HandlerKnows
<1>4. ASSUME NEW c \in DOMAIN criteria \ cutOff', NEW k, OnItsWay(p, c, k) PROVE Covered(c, k)'
  <2>1. ASSUME NEW o \in Offsets(p), Stages(log[p][o], k), o > committed[p] PROVE Covered(c, k)'
    <3>1. o \in Offsets(p)' /\ Stages(log[p][o], k)' /\ Unstaged(p, o)'
      BY <1>1, <2>1, LogStays DEF Stages, Unstaged
    <3> QED BY <3>1 DEF Covered, OnItsWay
  <2>2. committed[p] <= marked[p] /\ marked[p] <= position[p]
    BY DEF Behind
  <2>3. step[p] \in {"parse", "call", "handle"} => position[p] > committed[p]
    BY <2>2 DEF InHand
  <2>4. ASSUME h[p].pc # "idle", Entry(Message(p)) = "upsert", EntityKey(Message(p)) = k PROVE Covered(c, k)'
    <3>1. step[p] = "handle"
      BY <2>4 DEF FInv, HandlerShape
    <3>2. position[p] \in Offsets(p) /\ Stages(log[p][position[p]], k)
      BY <2>4, <3>1, InHandIsSource DEF FInv
    <3>3. PICK o : o = position[p]
      OBVIOUS
    <3> QED BY <2>1, <2>3, <3>1, <3>2, <3>3
  <2>5. ASSUME h[p].pc \in {"evaluate", "pair", "match"}, Entry(Message(p)) = "criteria"
        PROVE  CriteriaKey(Message(p)) # c
    BY <2>5 DEF Crash
  <2>6. CASE \E o \in Offsets(p) : Stages(log[p][o], k) /\ Unstaged(p, o)
    <3>1. PICK o \in Offsets(p) : Stages(log[p][o], k) /\ Unstaged(p, o)
      BY <2>6
    <3>2. o > committed[p]
      <4>1. CASE o > position[p]
        BY <2>2, <4>1 DEF Offsets
      <4>2. CASE o = position[p] /\ step[p] \in {"parse", "call", "handle"}
        BY <2>3, <4>2
      <4> QED BY <3>1, <4>1, <4>2 DEF Unstaged
    <3> QED BY <2>1, <3>1, <3>2
  <2>7. CASE h[p].pc \in {"fingerprint", "embed"} /\ h[p].key = k
    BY <2>4, <2>7 DEF PairInv, HandlerKnows, Staging
  <2>8. CASE h[p].pc = "evaluate" /\ h[p].crit = c
    BY <2>5, <2>8 DEF PairInv, HandlerKnows, Evaluating
  <2>9. CASE /\ h[p].pc \in {"pair", "match"}
             /\ \E i \in DOMAIN h[p].todo : h[p].todo[i][1] = c /\ h[p].todo[i][2] = k
    <3>1. Pairing(p)
      BY <2>9 DEF PairInv, HandlerKnows
    <3>2. PICK S : /\ h[p].todo \in Seq(S)
                   /\ \A x \in S : \/ Entry(Message(p)) = "upsert" /\ x[2] = EntityKey(Message(p))
                                   \/ Entry(Message(p)) = "criteria" /\ x[1] = CriteriaKey(Message(p))
      BY <3>1 DEF Pairing
    <3>3. PICK i \in DOMAIN h[p].todo : h[p].todo[i][1] = c /\ h[p].todo[i][2] = k
      BY <2>9
    <3>4. h[p].todo[i] \in S
      BY <3>2, <3>3
    <3> QED BY <2>4, <2>5, <2>9, <3>2, <3>3, <3>4
  <2> QED BY <1>4, <2>6, <2>7, <2>8, <2>9 DEF OnItsWay
<1> QED BY <1>1, <1>3, <1>4, TablesStay, KeepsPairInv

LEMMA InitPairInv == Init => PairInv
<1> SUFFICES ASSUME Init PROVE PairInv
  OBVIOUS
<1>1. \A p \in Partitions : h[p].pc = "idle"
  BY DEF Init, Everywhere, Idle
<1>2. DOMAIN entities = {} /\ DOMAIN criteria = {} /\ DOMAIN rels = {} /\ matches = {} /\ faults = 0
  BY DEF Init
<1>3. TablesOK
  BY <1>2, FS_EmptySet DEF TablesOK
<1> QED BY <1>1, <1>2, <1>3 DEF PairInv, HandlerKnows, RelsMeant, MatchesKept, AllCovered

LEMMA PairInvStep ==
  ASSUME CInv, InHand, FInv, PairInv, [Next]_vars
  PROVE  PairInv'
<1>1. ASSUME NEW p \in Partitions, ConsumerStep(p) \/ Flush(p), UNCHANGED ivy PROVE PairInv'
  BY <1>1, LoopKeepsPairInv
<1>2. ASSUME NEW p \in Partitions, Receive(p) \/ Crash(p) PROVE PairInv'
  BY <1>2, ReceiveKeepsPairInv, CrashKeepsPairInv
<1>3. ASSUME NEW p \in Partitions, Handler(p) PROVE PairInv'
  <2>1. CASE Upsert(p) \/ UpdateFingerprint(p) \/ Embed(p)
    BY <2>1, UpsertKeepsPairInv, UpdateFingerprintKeepsPairInv, EmbedKeepsPairInv
  <2>2. CASE FindByTarget(p) \/ FindTargets(p) \/ UpsertCriteria(p)
    BY <2>2, FindByTargetKeepsPairInv, FindTargetsKeepsPairInv, UpsertCriteriaKeepsPairInv
  <2>3. CASE Pair(p) \/ AddMatch(p)
    BY <2>3, PairKeepsPairInv, AddMatchKeepsPairInv
  <2>4. CASE Aside(p)
    BY <2>4, AsideKeepsPairInv
  <2> QED BY <1>3, <2>1, <2>2, <2>3, <2>4 DEF Handler, Aside
<1>4. CASE Tick \/ UNCHANGED vars
  <2>1. UNCHANGED <<case, position, step, h, entities, rels, criteria, matches, versions, faults, cutOff>>
    BY <1>4 DEF Tick, vars, consumer, ivy
  <2>2. \A p \in Partitions : HandlerKnows(p)'
    BY <2>1, KnowsStays DEF PairInv
  <2>3. RelsMeant' /\ MatchesKept' /\ KeepsData
    BY <2>1, TablesStay
  <2>4. TablesOK'
    BY <2>1 DEF TablesOK, PairInv
  <2>5. AllCovered'
    <3> SUFFICES ASSUME faults = 0, NEW c \in DOMAIN criteria \ cutOff, NEW k \in Targets(c)'
                 PROVE  Covered(c, k)'
      BY <2>1 DEF AllCovered
    <3>1. Covered(c, k)
      BY <2>3, TargetsShrink DEF PairInv, AllCovered
    <3>2. CASE PairKey(c, k) \in DOMAIN rels
      BY <2>1, <3>2 DEF Covered, PairKey
    <3>3. ASSUME NEW p \in Partitions, OnItsWay(p, c, k) PROVE Covered(c, k)'
      <4>1. \A o \in Offsets(p) : Unstaged(p, o) => Unstaged(p, o)'
        BY <2>1 DEF Unstaged
      <4> QED BY <2>1, <3>3, <4>1, StillOwed
    <3> QED BY <3>1, <3>2, <3>3 DEF Covered
  <2> QED BY <2>2, <2>3, <2>4, <2>5 DEF PairInv
<1> QED BY <1>1, <1>2, <1>3, <1>4 DEF Next, Loop

-----------------------------------------------------------------------------
(* The statements of the strategies *)

\* Every set of naturals has a least element: what stands for induction here.
LEMMA LeastNatural ==
  ASSUME NEW T \in SUBSET Nat, T # {}
  PROVE  \E n \in T : \A m \in T : n <= m
<1>1. PICK n \in T : \A m \in T : ~(<<m, n>> \in OpToRel(<, Nat))
  BY NatLessThanWellFounded, WFMin
<1>2. \A m \in T : ~(m < n)
  BY <1>1 DEF OpToRel
<1> QED BY <1>2

\* f is a partial flattening of ss, up to m.
Flat(f, ss, m) == DOMAIN f = 1..m /\ f = [i \in 1..m |-> IF i = 1 THEN ss[i] ELSE f[i - 1] \o ss[i]]

\* There is such a flattening: a least m without one would extend the one of m - 1.
LEMMA FlatExists ==
  ASSUME NEW n \in Nat, NEW ss, n > 0
  PROVE  \E f : Flat(f, ss, n)
<1> DEFINE Bad == {m \in 1..n : ~\E f : Flat(f, ss, m)}
<1>1. Bad \in SUBSET Nat
  OBVIOUS
<1>2. \A m \in 1..n : m \in Bad <=> ~\E f : Flat(f, ss, m)
  OBVIOUS
<1>3. \A m \in Bad : m \in 1..n
  OBVIOUS
<1> HIDE DEF Bad
<1>4. ASSUME Bad # {} PROVE FALSE
  <2>1. PICK m \in Bad : \A k \in Bad : m <= k
    BY <1>1, <1>4, LeastNatural
  <2>2. m \in 1..n
    BY <1>3
  <2>3. m # 1
    <3>1. PICK f : f = [i \in 1..1 |-> ss[1]]
      OBVIOUS
    <3>2. Flat(f, ss, 1)
      BY <3>1 DEF Flat
    <3> QED BY <1>2, <2>1, <2>2, <3>2
  <2>4. m - 1 \in 1..n /\ m - 1 \notin Bad
    BY <2>1, <2>2, <2>3
  <2>5. PICK g : Flat(g, ss, m - 1)
    BY <1>2, <2>4
  <2>6. PICK x, f : x = g[m - 1] \o ss[m] /\ f = [i \in 1..m |-> IF i = m THEN x ELSE g[i]]
    OBVIOUS
  <2>7. ASSUME NEW i \in 1..m PROVE f[i] = IF i = 1 THEN ss[i] ELSE f[i - 1] \o ss[i]
    <3>1. CASE i = m
      <4>1. f[m] = x
        <5>1. m \in 1..m
          BY <2>2
        <5>2. f = [j \in 1..m |-> IF j = m THEN x ELSE g[j]]
          BY <2>6
        <5> QED BY <5>1, <5>2
      <4>2. f[m - 1] = g[m - 1]
        BY <2>2, <2>3, <2>6
      <4> QED BY <2>3, <2>6, <3>1, <4>1, <4>2
    <3>2. CASE i # m
      <4>1. i \in 1..(m - 1) /\ f[i] = g[i]
        BY <2>2, <2>6, <3>2
      <4>2. g[i] = IF i = 1 THEN ss[i] ELSE g[i - 1] \o ss[i]
        BY <2>5, <4>1 DEF Flat
      <4>3. i # 1 => f[i - 1] = g[i - 1]
        BY <2>2, <2>6, <4>1
      <4> QED BY <4>1, <4>2, <4>3
    <3> QED BY <3>1, <3>2
  <2>8. Flat(f, ss, m)
    BY <2>6, <2>7 DEF Flat
  <2> QED BY <1>2, <2>1, <2>2, <2>8
<1> QED BY <1>2, <1>4

\* FlattenSeq makes a sequence over S of sequences over S.
LEMMA FlattenSeqType ==
  ASSUME NEW S, NEW n \in Nat, NEW ss \in [1..n -> Seq(S)]
  PROVE  FlattenSeq(ss) \in Seq(S)
<1>1. ss \in Seq(Seq(S)) /\ Len(ss) = n
  OBVIOUS
<1>2. CASE n = 0
  <2>1. FlattenSeq(ss) = ss
    BY <1>1, <1>2 DEF FlattenSeq
  <2>2. ss = <<>>
    BY <1>1, <1>2
  <2> QED BY <2>1, <2>2
<1>3. CASE n > 0
  <2> DEFINE F == CHOOSE flatten : flatten = [i \in 1..n |-> IF i = 1 THEN ss[i] ELSE flatten[i - 1] \o ss[i]]
  <2>0. \E f : f = [i \in 1..n |-> IF i = 1 THEN ss[i] ELSE f[i - 1] \o ss[i]]
    <3>1. PICK f : Flat(f, ss, n)
      BY <1>3, FlatExists
    <3>2. f = [i \in 1..n |-> IF i = 1 THEN ss[i] ELSE f[i - 1] \o ss[i]]
      BY <3>1 DEF Flat
    <3> QED BY <3>2
  <2>1. FlattenSeq(ss) = F[n]
    BY <1>1, <1>3 DEF FlattenSeq
  <2>2. F = [i \in 1..n |-> IF i = 1 THEN ss[i] ELSE F[i - 1] \o ss[i]]
    BY <2>0
  <2>3. PICK f : f = F
    OBVIOUS
  <2>4. \A i \in 1..n : f[i] = IF i = 1 THEN ss[i] ELSE f[i - 1] \o ss[i]
    BY <2>2, <2>3
  <2> HIDE DEF F
  <2> DEFINE Bad == {i \in 1..n : f[i] \notin Seq(S)}
  <2>5. ASSUME Bad # {} PROVE FALSE
    <3>0. Bad \in SUBSET Nat
      OBVIOUS
    <3>1. PICK i \in Bad : \A j \in Bad : i <= j
      BY <2>5, <3>0, LeastNatural
    <3>2. CASE i = 1
      BY <2>4, <3>1, <3>2
    <3>3. CASE i # 1
      <4>1. i - 1 \in 1..n /\ f[i - 1] \in Seq(S)
        BY <3>1, <3>3
      <4>2. f[i] = f[i - 1] \o ss[i]
        BY <2>4, <3>1, <3>3
      <4>3. ss[i] \in Seq(S)
        BY <3>1
      <4>4. f[i - 1] \o ss[i] \in Seq(S)
        BY <4>1, <4>3, ConcatProperties
      <4> QED BY <3>1, <4>2, <4>4
    <3> QED BY <3>2, <3>3
  <2> QED BY <1>3, <2>1, <2>3, <2>5
<1> QED BY <1>2, <1>3

\* The statements of the strategies are over what those of their parts are over.
LEMMA StatementsType ==
  ASSUME case \in DOMAIN Logs, NEW S,
         \A i \in DOMAIN strategies : \A j \in DOMAIN Parts(strategies[i]) :
             StatementsOf(Parts(strategies[i])[j]) \in Seq(S)
  PROVE  FlattenSeq([i \in DOMAIN strategies |-> Statements(strategies[i])]) \in Seq(S)
<1>1. PICK n \in Nat : DOMAIN strategies = 1..n
  <2>1. strategies \in Seq(Range(strategies))
    BY StrategiesAssumption DEF strategies
  <2> QED BY <2>1
<1>2. ASSUME NEW i \in DOMAIN strategies PROVE Statements(strategies[i]) \in Seq(S)
  <2>1. PICK s : s = strategies[i]
    OBVIOUS
  <2>2. s.parts \in Seq(Range(s.parts))
    <3>1. s \in Range(strategies)
      BY <2>1 DEF Range
    <3> QED BY <2>1, <3>1, StrategiesAssumption DEF strategies
  <2>3. PICK m \in Nat : DOMAIN Parts(s) = 1..m
    <3>1. CASE s.kind = "composite"
      <4>1. DOMAIN Parts(s) = DOMAIN s.parts
        BY <3>1 DEF Parts
      <4>2. PICK t, R : t = s.parts /\ t \in Seq(R)
        BY <2>2
      <4>3. Len(t) \in Nat /\ DOMAIN t = 1..Len(t)
        BY <4>2
      <4> QED BY <4>1, <4>2, <4>3
    <3>2. CASE s.kind # "composite"
      <4>1. Parts(s) = <<s>>
        BY <3>2 DEF Parts
      <4>2. DOMAIN <<s>> = 1..1
        OBVIOUS
      <4> QED BY <4>1, <4>2
    <3> QED BY <3>1, <3>2
  <2>4. PICK ss : ss = [j \in DOMAIN Parts(s) |-> StatementsOf(Parts(s)[j])]
    OBVIOUS
  <2>5. ss \in [1..m -> Seq(S)]
    BY <2>1, <2>3, <2>4
  <2>6. FlattenSeq(ss) \in Seq(S)
    BY <2>5, FlattenSeqType
  <2> QED BY <2>1, <2>4, <2>6 DEF Statements
<1>3. PICK ss : ss = [i \in DOMAIN strategies |-> Statements(strategies[i])]
  OBVIOUS
<1>4. ss \in [1..n -> Seq(S)]
  BY <1>1, <1>2, <1>3
<1>5. FlattenSeq(ss) \in Seq(S)
  BY <1>4, FlattenSeqType
<1> QED BY <1>3, <1>5

\* No strategy is about relationships.
NoRelStrategy == \A i \in DOMAIN strategies : strategies[i].relationship = ""

\* Then no statement is, either.
LEMMA StatementsOnEntities ==
  ASSUME NoRelStrategy, case \in DOMAIN Logs
  PROVE  \E S : /\ FlattenSeq([i \in DOMAIN strategies |-> Statements(strategies[i])]) \in Seq(S)
                /\ \A x \in S : x.table = "entities"
<1>1. PICK Q : Q = UNION {Range(Parts(strategies[i])) : i \in DOMAIN strategies}
  OBVIOUS
<1>2. PICK S : S = {OnTable(q, "entities") : q \in Q}
  OBVIOUS
<1>3. ASSUME NEW i \in DOMAIN strategies, NEW j \in DOMAIN Parts(strategies[i])
      PROVE  StatementsOf(Parts(strategies[i])[j]) \in Seq(S)
  <2>1. PICK s, q : s = strategies[i] /\ q = Parts(s)[j]
    OBVIOUS
  <2>2. s.relationship = ""
    BY <2>1 DEF NoRelStrategy
  <2>3. q.relationship = ""
    <3>1. CASE s.kind = "composite"
      BY <1>3, <2>1, <2>2, <3>1 DEF Parts, PartOf
    <3>2. CASE s.kind # "composite"
      <4>1. Parts(s) = <<s>>
        BY <3>2 DEF Parts
      <4>2. \A a \in DOMAIN <<s>> : <<s>>[a] = s
        OBVIOUS
      <4> QED BY <1>3, <2>1, <2>2, <4>1, <4>2
    <3> QED BY <3>1, <3>2
  <2>4. q \in Q
    BY <1>1, <1>3, <2>1 DEF Range
  <2>5. OnTable(q, "entities") \in S
    BY <1>2, <2>4
  <2>6. PICK y : y = OnTable(q, "entities")
    OBVIOUS
  <2>7. StatementsOf(q) \in {<<>>, <<y>> \o <<>>, <<>> \o <<>>}
    BY <2>3, <2>6 DEF StatementsOf
  <2>8. <<>> \in Seq(S) /\ <<y>> \in Seq(S)
    BY <2>5, <2>6
  <2>9. <<y>> \o <<>> \in Seq(S) /\ <<>> \o <<>> \in Seq(S)
    BY <2>8, ConcatProperties
  <2> QED BY <2>1, <2>7, <2>8, <2>9
<1>4. \A x \in S : x.table = "entities"
  BY <1>2 DEF OnTable
<1> QED BY <1>3, <1>4, StatementsType

-----------------------------------------------------------------------------
(* Relationships stay unless a strategy removes them *)

AllLive == \A r \in DOMAIN rels : rels[r].deleted = FALSE
\* The statements that are left to the sweep are about entities.
SweepsEntities(p) ==
    h[p].pc = "sweep" =>
        /\ "todo" \in DOMAIN h[p]
        /\ \E S : h[p].todo \in Seq(S) /\ \A x \in S : x.table = "entities"
\* No relationship has its references set.
Unreferenced == \A r \in DOMAIN rels : rels[r].refs = {}

Spared ==
    /\ Unreferenced
    /\ faults = 0 /\ NoRelStrategy => AllLive /\ \A p \in Partitions : SweepsEntities(p)

LEMMA CreateSpares ==
  ASSUME RelsMeant, NEW k, NEW integration, NEW key, NEW exec, NEW crit, NEW ok \in BOOLEAN,
         Create(k, RelRow(integration, key, exec, crit), ok), Unreferenced
  PROVE  Unreferenced' /\ (AllLive => AllLive')
<1>1. PICK r, s : r = RelRow(integration, key, exec, crit) /\ s = Staged(k, r)
  OBVIOUS
<1>2. rels' = rels \/ rels' = With(rels, k, s)
  BY <1>1 DEF Create
<1>3. CASE rels' = rels
  BY <1>3 DEF Unreferenced, AllLive
<1>4. CASE rels' = With(rels, k, s)
  <2>1. s.refs = {} /\ s.deleted = FALSE
    <3>1. CASE k \in DOMAIN rels
      BY <1>1, <3>1 DEF Staged, RelsMeant, RelColumns, Unreferenced
    <3>2. CASE k \notin DOMAIN rels
      BY <1>1, <3>2 DEF Staged
    <3> QED BY <3>1, <3>2
  <2>2. /\ DOMAIN rels' = DOMAIN rels \union {k} /\ rels'[k] = s
        /\ \A j \in DOMAIN rels : j # k => rels'[j] = rels[j]
    BY <1>4 DEF With
  <2> QED BY <2>1, <2>2 DEF Unreferenced, AllLive
<1> QED BY <1>2, <1>3, <1>4

\* A step of p that leaves the live relationships live, and entities to the sweep.
LEMMA KeepsSpared ==
  ASSUME TablesOK, Spared, UNCHANGED case, NEW p \in Partitions, \A q \in Partitions : q # p => h'[q] = h[q],
         faults' = faults \/ faults' = faults + 1, Unreferenced',
         faults' = 0 /\ NoRelStrategy => (AllLive => AllLive') /\ SweepsEntities(p)'
  PROVE  Spared'
<1>1. strategies' = strategies
  BY DEF strategies
<1>2. NoRelStrategy' <=> NoRelStrategy
  BY <1>1 DEF NoRelStrategy
<1>3. faults' = 0 => faults = 0
  BY DEF TablesOK
<1>4. \A q \in Partitions : q # p => (SweepsEntities(q) => SweepsEntities(q)')
  BY DEF SweepsEntities
<1> QED BY <1>2, <1>3, <1>4 DEF Spared

\* A step of p that stages relationships or none, and does not lead to the sweep.
LEMMA LeavesSpared ==
  ASSUME TablesOK, Spared, UNCHANGED case, NEW p \in Partitions, NEW pc, HandlerAt(p, pc), pc # "sweep",
         faults' = faults \/ faults' = faults + 1, Unreferenced', AllLive => AllLive'
  PROVE  Spared'
<1>1. SweepsEntities(p)'
  BY DEF SweepsEntities, HandlerAt
<1> QED BY <1>1, KeepsSpared DEF HandlerAt

LEMMA SameSpared ==
  ASSUME Spared, UNCHANGED rels
  PROVE  Unreferenced' /\ (AllLive => AllLive')
  BY DEF Spared, Unreferenced, AllLive

\* A statement is followed by another or by the return: only the list of the
\* strategies leads to the sweep, only the candidates to a deletion, and only the
\* listing of criteria, or a new one, to pairs.
Follows(p, pc) ==
    /\ pc \in {"fingerprint", "embed", "pair", "match", "evaluate", "unlink", "delete", "sweep"}
    /\ pc = "sweep" => ListStrategies(p) \/ Sweep(p)
    /\ pc = "delete" => FindCandidates(p)
    /\ pc \in {"evaluate", "pair", "match"} =>
         h[p].pc \in {"evaluate", "pair", "match"} \/ FindByTarget(p) \/ UpsertCriteria(p)
GoesOut(p, pc) == HandlerAt(p, pc) /\ OthersStay(p) /\ UNCHANGED <<case, position>>
Out(p) ==
    \/ GoesOut(p, "idle") /\ GoesTo(p, Idle) /\ \E ok \in BOOLEAN : Return(p, ok)
    \/ UNCHANGED consumer /\ \E pc : Follows(p, pc) /\ GoesOut(p, pc)

LEMMA HandlerLeaves ==
  ASSUME CInv, HandlerShape, NEW p \in Partitions, Handler(p)
  PROVE  Out(p)
<1>0. "pc" \in DOMAIN h[p]
  BY DEF HandlerShape
<1>1. ASSUME NEW ok \in BOOLEAN, Returns(p, ok) PROVE Out(p)
  <2>1. HandlerAt(p, "idle") /\ OthersStay(p) /\ UNCHANGED <<case, position>>
    BY <1>1, ReturnsLeave
  <2> QED BY <1>1, <2>1 DEF Out, GoesOut, Returns
<1>2. ASSUME NEW r, "pc" \in DOMAIN r, Follows(p, r.pc), Continues(p, r) PROVE Out(p)
  <2>1. HandlerAt(p, r.pc) /\ OthersStay(p) /\ UNCHANGED <<case, position>>
    BY <1>2, GoesOn
  <2> QED BY <1>2, <2>1 DEF Out, GoesOut, Continues
<1>3. CASE Skip(p) \/ Paired(p) \/ Swept(p) \/ Direct(p) \/ DeleteRelationships(p)
  BY <1>1, <1>3 DEF Skip, Paired, Swept, Direct, DeleteRelationships
<1>4. CASE Upsert(p)
  <2>1. Returns(p, FALSE) \/ \E key, row : Continues(p, AfterUpsert(p, key, row))
    BY <1>4 DEF Upsert
  <2>2. ASSUME NEW key, NEW row, Continues(p, AfterUpsert(p, key, row)) PROVE Out(p)
    <3>1. PICK r : r = AfterUpsert(p, key, row)
      OBVIOUS
    <3>2. "pc" \in DOMAIN r /\ r.pc \in {"embed", "fingerprint"}
      BY <3>1 DEF AfterUpsert
    <3> QED BY <1>2, <2>2, <3>1, <3>2 DEF Follows
  <2> QED BY <1>1, <2>1, <2>2
<1>5. CASE UpdateFingerprint(p)
  <2>1. PICK r : r = [h[p] EXCEPT !.pc = "embed"]
    OBVIOUS
  <2>2. (Returns(p, FALSE) \/ Continues(p, r)) /\ "pc" \in DOMAIN r /\ r.pc = "embed"
    BY <1>0, <1>5, <2>1 DEF UpdateFingerprint
  <2> QED BY <1>1, <1>2, <2>2 DEF Follows
<1>6. CASE Embed(p)
  <2>1. PICK r : r = [h[p] EXCEPT !.rels = Tail(@)]
    OBVIOUS
  <2>2. Continues(p, r) /\ "pc" \in DOMAIN r /\ r.pc = "embed"
    BY <1>0, <1>6, <2>1 DEF Embed, Handling
  <2> QED BY <1>2, <2>2 DEF Follows
<1>7. CASE FindByTarget(p) \/ FindTargets(p)
  <2>1. Returns(p, TRUE) \/ \E todo : Continues(p, [pc |-> "pair", todo |-> todo])
    BY <1>7 DEF FindByTarget, FindTargets
  <2>2. ASSUME NEW todo, Continues(p, [pc |-> "pair", todo |-> todo]) PROVE Out(p)
    <3>1. h[p].pc = "evaluate" \/ FindByTarget(p)
      BY <1>7 DEF FindTargets, Handling
    <3> QED BY <1>2, <2>2, <3>1 DEF Follows
  <2> QED BY <1>1, <2>1, <2>2
<1>8. CASE Pair(p)
  <2>1. PICK r, s : r = [h[p] EXCEPT !.pc = "match"] /\ s = [h[p] EXCEPT !.todo = Tail(@)]
    OBVIOUS
  <2>2. (Continues(p, r) \/ Continues(p, s)) /\ h[p].pc = "pair"
    BY <1>8, <2>1 DEF Pair, Handling
  <2>3. "pc" \in DOMAIN r /\ r.pc = "match" /\ "pc" \in DOMAIN s /\ s.pc = "pair"
    BY <1>0, <1>8, <2>1 DEF Pair, Handling
  <2> QED BY <1>2, <2>2, <2>3 DEF Follows
<1>9. CASE AddMatch(p)
  <2>1. PICK r : r = [h[p] EXCEPT !.pc = "pair", !.todo = Tail(@)]
    OBVIOUS
  <2>2. Continues(p, r) /\ "pc" \in DOMAIN r /\ r.pc = "pair" /\ h[p].pc = "match"
    BY <1>0, <1>9, <2>1 DEF AddMatch, Handling
  <2> QED BY <1>2, <2>2 DEF Follows
<1>10. CASE UpsertCriteria(p)
  <2>1. \/ \E ok \in BOOLEAN : Returns(p, ok)
        \/ \E c, row : Continues(p, [pc |-> "evaluate", crit |-> c, row |-> row])
    BY <1>10 DEF UpsertCriteria
  <2>2. ASSUME NEW c, NEW row, Continues(p, [pc |-> "evaluate", crit |-> c, row |-> row]) PROVE Out(p)
    BY <1>2, <1>10, <2>2 DEF Follows
  <2> QED BY <1>1, <2>1, <2>2
<1>11. CASE FindCandidates(p)
  <2>1. Returns(p, TRUE) \/ \E k : Continues(p, [pc |-> "delete", key |-> k])
    BY <1>11 DEF FindCandidates
  <2>2. ASSUME NEW k, Continues(p, [pc |-> "delete", key |-> k]) PROVE Out(p)
    BY <1>2, <1>11, <2>2 DEF Follows
  <2> QED BY <1>1, <2>1, <2>2
<1>12. CASE DeleteEntity(p)
  <2>1. PICK r : r = [h[p] EXCEPT !.pc = "unlink"]
    OBVIOUS
  <2>2. (Returns(p, TRUE) \/ Continues(p, r)) /\ "pc" \in DOMAIN r /\ r.pc = "unlink"
    BY <1>0, <1>12, <2>1 DEF DeleteEntity
  <2> QED BY <1>1, <1>2, <2>2 DEF Follows
<1>13. CASE ListStrategies(p)
  <2>1. Returns(p, TRUE) \/ \E todo : Continues(p, [pc |-> "sweep", todo |-> todo])
    BY <1>13 DEF ListStrategies
  <2>2. ASSUME NEW todo, Continues(p, [pc |-> "sweep", todo |-> todo]) PROVE Out(p)
    BY <1>2, <1>13, <2>2 DEF Follows
  <2> QED BY <1>1, <2>1, <2>2
<1>14. CASE Sweep(p)
  <2>1. PICK rest : Continues(p, [h[p] EXCEPT !.todo = rest])
    BY <1>14 DEF Sweep
  <2>2. PICK r : r = [h[p] EXCEPT !.todo = rest]
    OBVIOUS
  <2>3. "pc" \in DOMAIN r /\ r.pc = "sweep" /\ Continues(p, r)
    BY <1>0, <1>14, <2>1, <2>2 DEF Sweep, Handling
  <2> QED BY <1>2, <1>14, <2>3 DEF Follows
<1> QED BY <1>3, <1>4, <1>5, <1>6, <1>7, <1>8, <1>9, <1>10, <1>11, <1>12, <1>13, <1>14 DEF Handler

\* They leave the live relationships live: no relationship refers to a deleted entity.
LEMMA HandlerSpares ==
  ASSUME RelsMeant, Spared, NEW p \in Partitions, Handler(p), ~ListStrategies(p), ~Sweep(p)
  PROVE  Unreferenced' /\ (AllLive => AllLive') /\ (faults' = faults \/ faults' = faults + 1)
<1>0. Unreferenced
  BY DEF Spared
<1>1. CASE Skip(p) \/ Paired(p) \/ Swept(p)
  BY <1>1, SameSpared DEF Skip, Paired, Swept
<1>2. CASE Upsert(p) \/ UpdateFingerprint(p) \/ UpsertCriteria(p) \/ AddMatch(p)
  <2>1. UNCHANGED rels /\ (faults' = faults \/ faults' = faults + 1)
    BY <1>2 DEF Upsert, UpdateFingerprint, UpsertCriteria, AddMatch, Fault
  <2> QED BY <2>1, SameSpared
<1>3. CASE FindByTarget(p) \/ FindTargets(p) \/ FindCandidates(p) \/ DeleteEntity(p)
  <2>1. UNCHANGED rels /\ (faults' = faults \/ faults' = faults + 1)
    BY <1>3 DEF FindByTarget, FindTargets, FindCandidates, DeleteEntity, Fault
  <2> QED BY <2>1, SameSpared
<1>4. CASE Direct(p) \/ Embed(p) \/ Pair(p)
  <2>1. PICK k, integration, key, exec, crit, ok : ok \in BOOLEAN /\ Create(k, RelRow(integration, key, exec, crit), ok)
    <3>1. CASE Direct(p)
      <4>1. PICK k, integration, key, exec : DirectRel(Message(p)) = <<k, RelRow(integration, key, exec, <<>>)>>
        BY DEF DirectRel
      <4>2. DirectRel(Message(p))[1] = k /\ DirectRel(Message(p))[2] = RelRow(integration, key, exec, <<>>)
        BY <4>1
      <4>3. \E ok \in BOOLEAN : Create(DirectRel(Message(p))[1], DirectRel(Message(p))[2], ok)
        BY <3>1 DEF Direct
      <4>4. PICK ok \in BOOLEAN : Create(k, RelRow(integration, key, exec, <<>>), ok)
        BY <4>2, <4>3
      <4> QED BY <4>4
    <3>2. CASE Embed(p)
      <4>1. PICK k, integration, key, exec : EmbeddedRel(Message(p), Head(h[p].rels)) = <<k, RelRow(integration, key, exec, <<>>)>>
        BY DEF EmbeddedRel
      <4>2. PICK new : new = EmbeddedRel(Message(p), Head(h[p].rels))
        OBVIOUS
      <4>3. new[1] = k /\ new[2] = RelRow(integration, key, exec, <<>>)
        BY <4>1, <4>2
      <4>4. \E ok \in BOOLEAN : Create(new[1], new[2], ok)
        BY <3>2, <4>2 DEF Embed
      <4>5. PICK ok \in BOOLEAN : Create(k, RelRow(integration, key, exec, <<>>), ok)
        BY <4>3, <4>4
      <4> QED BY <4>5
    <3>3. CASE Pair(p)
      <4>1. PICK x : x = Head(h[p].todo)
        OBVIOUS
      <4>2. PICK k, integration, key, exec, crit : MatchRel(x[1], x[2], x[3]) = <<k, RelRow(integration, key, exec, crit)>>
        BY DEF MatchRel
      <4>3. PICK new : new = MatchRel(x[1], x[2], x[3])
        OBVIOUS
      <4>4. new[1] = k /\ new[2] = RelRow(integration, key, exec, crit)
        BY <4>2, <4>3
      <4>5. \E ok \in BOOLEAN : Create(new[1], new[2], ok)
        BY <3>3, <4>1, <4>3 DEF Pair
      <4>6. PICK ok \in BOOLEAN : Create(k, RelRow(integration, key, exec, crit), ok)
        BY <4>4, <4>5
      <4> QED BY <4>6
    <3> QED BY <1>4, <3>1, <3>2, <3>3
  <2> QED BY <1>0, <2>1, CreateSpares DEF Create, Fault
<1>5. CASE DeleteRelationships(p)
  <2>1. CASE UNCHANGED rels
    BY <1>5, <2>1, SameSpared DEF DeleteRelationships, Fault
  <2>2. CASE rels' = [k \in DOMAIN rels |->
                IF h[p].key \in rels[k].refs /\ Message(p).key \in {"", rels[k].key}
                THEN [rels[k] EXCEPT !.deleted = TRUE] ELSE rels[k]]
    <3>1. DOMAIN rels' = DOMAIN rels /\ \A k \in DOMAIN rels : rels'[k] = rels[k]
      BY <1>0, <2>2 DEF Unreferenced
    <3>2. faults' = faults \/ faults' = faults + 1
      BY <1>5 DEF DeleteRelationships, Fault
    <3> QED BY <1>0, <3>1, <3>2 DEF Unreferenced, AllLive
  <2> QED BY <1>5, <2>1, <2>2 DEF DeleteRelationships
<1> QED BY <1>1, <1>2, <1>3, <1>4, <1>5 DEF Handler

LEMMA ListStrategiesSpares ==
  ASSUME CInv, HandlerShape, TablesOK, Spared, NEW p \in Partitions, ListStrategies(p)
  PROVE  Spared'
<1>1. UNCHANGED rels /\ (faults' = faults \/ faults' = faults + 1)
  BY DEF ListStrategies, Fault
<1>2. Unreferenced' /\ (AllLive => AllLive')
  BY <1>1, SameSpared
<1>3. CASE Returns(p, TRUE)
  <2>1. HandlerAt(p, "idle") /\ UNCHANGED case
    BY <1>3, ReturnsLeave
  <2> QED BY <1>1, <1>2, <2>1, LeavesSpared
<1>4. PICK todo : todo = FlattenSeq([i \in DOMAIN strategies |-> Statements(strategies[i])])
  OBVIOUS
<1>5. CASE Continues(p, [pc |-> "sweep", todo |-> todo])
  <2>1. PICK r : r = [pc |-> "sweep", todo |-> todo]
    OBVIOUS
  <2>2. "pc" \in DOMAIN r /\ "todo" \in DOMAIN r /\ r.todo = todo /\ Continues(p, r)
    BY <1>5, <2>1
  <2>3. h'[p] = r /\ OthersStay(p) /\ UNCHANGED case
    BY <2>2, GoesOn
  <2>4. NoRelStrategy => SweepsEntities(p)'
    <3>1. ASSUME NoRelStrategy PROVE \E S : todo \in Seq(S) /\ \A x \in S : x.table = "entities"
      BY <1>4, <3>1, StatementsOnEntities DEF HandlerShape
    <3> QED BY <2>2, <2>3, <3>1 DEF SweepsEntities
  <2> QED BY <1>1, <1>2, <2>3, <2>4, KeepsSpared DEF OthersStay
<1> QED BY <1>3, <1>4, <1>5 DEF ListStrategies

LEMMA SweepSpares ==
  ASSUME HandlerShape, RelsMeant, TablesOK, Spared, NEW p \in Partitions, Sweep(p)
  PROVE  Spared'
<1>1. /\ faults' = faults \/ faults' = faults + 1
      /\ h[p].pc = "sweep" /\ h[p].todo # <<>> /\ "pc" \in DOMAIN h[p]
  BY DEF Sweep, Fault, Handling, HandlerShape
<1>2. PICK s : s = Head(h[p].todo)
  OBVIOUS
<1>3. PICK R : R = {k \in DOMAIN rels : InScope(s, k.type, rels[k].integration) /\ Doomed(s, Message(p), rels[k], rels[k].key)}
  OBVIOUS
<1>4. \/ UNCHANGED rels
      \/ /\ s.table # "entities"
         /\ rels' = [k \in DOMAIN rels |-> IF k \in R THEN [rels[k] EXCEPT !.deleted = TRUE] ELSE rels[k]]
  BY <1>2, <1>3 DEF Sweep
<1>5. Unreferenced'
  BY <1>4 DEF Spared, Unreferenced, RelsMeant, RelColumns
<1>6. PICK rest : Continues(p, [h[p] EXCEPT !.todo = rest]) /\ (faults' = faults => rest = Tail(h[p].todo))
  <2>1. CASE faults' = faults + 1
    <3>1. PICK rest : Continues(p, [h[p] EXCEPT !.todo = rest])
      BY DEF Sweep
    <3>2. faults' # faults
      BY <2>1 DEF TablesOK
    <3> QED BY <3>1, <3>2
  <2>2. CASE ~Fault
    BY <2>2 DEF Sweep
  <2> QED BY <2>1, <2>2 DEF Fault
<1>7. PICK r : r = [h[p] EXCEPT !.todo = rest]
  OBVIOUS
<1>8. "pc" \in DOMAIN r /\ r.pc = "sweep" /\ Continues(p, r)
  BY <1>1, <1>6, <1>7
<1>9. h'[p] = r /\ OthersStay(p) /\ UNCHANGED case
  BY <1>8, GoesOn
<1>10. ASSUME faults' = 0, NoRelStrategy PROVE (AllLive => AllLive') /\ SweepsEntities(p)'
  <2>1. faults = 0 /\ faults' = faults
    BY <1>1, <1>10 DEF TablesOK
  <2>2. SweepsEntities(p)
    BY <1>10, <2>1 DEF Spared
  <2>3. PICK S : h[p].todo \in Seq(S) /\ \A x \in S : x.table = "entities"
    BY <1>1, <2>2 DEF SweepsEntities
  <2>4. s.table = "entities"
    BY <1>1, <1>2, <2>3
  <2>5. UNCHANGED rels
    BY <1>4, <2>4
  <2>6. rest \in Seq(S)
    BY <1>1, <1>6, <2>1, <2>3
  <2>7. r.todo \in Seq(S) /\ "todo" \in DOMAIN r
    <3>1. "todo" \in DOMAIN h[p]
      BY <1>1, <2>2 DEF SweepsEntities
    <3> QED BY <1>7, <2>6, <3>1
  <2> QED BY <1>9, <2>3, <2>5, <2>7 DEF AllLive, SweepsEntities
<1> QED BY <1>1, <1>5, <1>9, <1>10, KeepsSpared DEF OthersStay

LEMMA InitSpared == Init => Spared
<1> SUFFICES ASSUME Init PROVE Spared
  OBVIOUS
<1>1. \A p \in Partitions : h[p].pc = "idle"
  BY DEF Init, Everywhere, Idle
<1>2. DOMAIN rels = {}
  BY DEF Init
<1> QED BY <1>1, <1>2 DEF Spared, Unreferenced, AllLive, SweepsEntities

LEMMA SparedStep ==
  ASSUME CInv, FInv, PairInv, Spared, [Next]_vars
  PROVE  Spared'
<1>0. HandlerShape /\ RelsMeant /\ TablesOK
  BY DEF FInv, PairInv
<1>1. UNCHANGED case
  BY IvyStepOnLoop, CaseStays
<1>2. ASSUME UNCHANGED <<rels, h, faults>> PROVE Spared'
  <2>1. strategies' = strategies
    BY <1>1 DEF strategies
  <2> QED BY <1>2, <2>1, SameSpared DEF Spared, NoRelStrategy, SweepsEntities
<1>3. ASSUME NEW p \in Partitions, Receive(p) PROVE Spared'
  <2>1. PICK r : r = [pc |-> Entry(Message(p)), rels |-> Message(p).rels]
    OBVIOUS
  <2>2. "pc" \in DOMAIN r /\ r.pc = Entry(Message(p)) /\ GoesTo(p, r) /\ UNCHANGED <<rels, faults>>
    BY <1>3, <2>1 DEF Receive
  <2>3. HandlerAt(p, r.pc)
    BY <1>0, <2>2, HandlerGoes
  <2>4. Entry(Message(p)) # "sweep"
    BY DEF Entry, RelationshipEntry
  <2> QED BY <1>0, <1>1, <2>2, <2>3, <2>4, SameSpared, LeavesSpared
<1>4. ASSUME NEW p \in Partitions, Crash(p) PROVE Spared'
  <2>1. HandlerAt(p, "idle") /\ UNCHANGED <<rels, faults>>
    <3>1. "pc" \in DOMAIN Idle /\ Idle.pc = "idle" /\ GoesTo(p, Idle)
      BY <1>4 DEF Crash, Idle
    <3> QED BY <1>0, <1>4, <3>1, HandlerGoes DEF Crash
  <2> QED BY <1>0, <1>1, <2>1, SameSpared, LeavesSpared
<1>5. ASSUME NEW p \in Partitions, Handler(p) PROVE Spared'
  <2>1. CASE ListStrategies(p) \/ Sweep(p)
    BY <1>0, <2>1, ListStrategiesSpares, SweepSpares
  <2>2. CASE ~ListStrategies(p) /\ ~Sweep(p)
    <3>1. PICK pc : pc # "sweep" /\ HandlerAt(p, pc)
      BY <1>0, <1>5, <2>2, HandlerLeaves DEF Out, GoesOut, Follows
    <3>2. Unreferenced' /\ (AllLive => AllLive') /\ (faults' = faults \/ faults' = faults + 1)
      BY <1>0, <1>5, <2>2, HandlerSpares
    <3> QED BY <1>0, <1>1, <3>1, <3>2, LeavesSpared
  <2> QED BY <2>1, <2>2
<1>6. CASE Tick \/ UNCHANGED vars
  BY <1>2, <1>6 DEF Tick, vars, ivy
<1> QED BY <1>2, <1>3, <1>4, <1>5, <1>6 DEF Next, Loop, ivy

-----------------------------------------------------------------------------
(* Pairs *)

LEMMA PairsHold ==
  ASSUME FInv, PairInv, Spared
  PROVE  PairsExact
<1>1. ASSUME Ended, faults = 0, NEW c \in DOMAIN criteria \ cutOff, NEW k \in Targets(c)
      PROVE  /\ PairKey(c, k) \in DOMAIN rels
             /\ NoRelStrategy => PairKey(c, k) \in Live(rels)
  <2>1. Covered(c, k)
    BY <1>1 DEF PairInv, AllCovered
  <2>2. ASSUME NEW p \in Partitions, OnItsWay(p, c, k) PROVE FALSE
    <3>1. Len(log[p]) \in Nat /\ position[p] = Len(log[p]) /\ step[p] = "fetch"
      BY <1>1, LengthIsNat DEF FInv, Ended, AtEnd
    <3>2. h[p].pc = "idle"
      BY <3>1 DEF FInv, HandlerShape
    <3> QED BY <2>2, <3>1, <3>2 DEF OnItsWay, Unstaged, Offsets
  <2>3. PairKey(c, k) \in DOMAIN rels
    BY <2>1, <2>2 DEF Covered
  <2>4. NoRelStrategy => AllLive
    BY <1>1 DEF Spared
  <2> QED BY <2>3, <2>4 DEF AllLive, Live
<1>2. \A c, e, row : MatchRel(c, e, row)[1] = PairKey(c, e)
  BY MatchRelIsPair
<1>3. Ended /\ faults = 0 => NoPairMissed
  BY <1>1, <1>2 DEF NoPairMissed, NoRelStrategy
<1>4. ASSUME NEW r \in DOMAIN rels, NEW c \in Range(rels[r].crit)
      PROVE  \E v \in versions : /\ MatchRel(c, v[1], criteria[c])[1] = r
                                 /\ c.toType = r.toType /\ c.toInt = r.toInt
                                 /\ MatchesCriteria(Map(v[2]), c.cond)
  <2>1. PICK e : r = PairKey(c, e) /\ Met(c, e)
    BY <1>4 DEF PairInv, RelsMeant
  <2>2. PICK v \in versions : v[1] = e /\ Meets(c, e, v[2])
    BY <2>1 DEF Met
  <2>3. r.toType = e[1] /\ r.toInt = e[3]
    BY <2>1 DEF PairKey, RelKey
  <2> QED BY <1>2, <2>1, <2>2, <2>3 DEF Meets
<1>5. \A x \in matches : MatchRel(x[1], x[2], criteria[x[1]])[1] \in DOMAIN rels
  BY <1>2 DEF PairInv, MatchesKept
<1> QED BY <1>3, <1>4, <1>5 DEF PairsExact

\* Criteria and entities meet in whatever order and on whatever partitions they arrive:
\* when everything is read without a failed statement, every live entity that matches a
\* criterion has its relationship, and a live one unless a strategy removes
\* relationships, but for the criteria whose first evaluation a restart cut off; at all
\* times a relationship is attributed only to a criterion that its entity once matched,
\* and a recorded match has its relationship.
THEOREM PairsAreExact == Spec => []PairsExact
<1>1. ConsumerSpec => [](CInv /\ InHand)
  BY ConsumerInvariant
<1>2. Spec => [](CInv /\ InHand)
  BY <1>1, IvyImplementsConsumer, PTL
<1>3. Init => FInv /\ PairInv /\ Spared
  BY InitFInv, InitPairInv, InitSpared
<1>4. CInv /\ InHand /\ FInv /\ PairInv /\ Spared /\ [Next]_vars => FInv' /\ PairInv' /\ Spared'
  BY FInvStep, PairInvStep, SparedStep
<1>5. FInv /\ PairInv /\ Spared => PairsExact
  BY PairsHold
<1> QED BY <1>2, <1>3, <1>4, <1>5, PTL DEF Spec

-----------------------------------------------------------------------------
(* Types *)

\* No row is created after today, or updated before it was created.
Dated(rows) == \A k \in DOMAIN rows : rows[k].created \in 0..now /\ rows[k].updated \in rows[k].created..now

\* A row is dated once, and updated today or not at all.
Aged(old, new) ==
    \A k \in DOMAIN new :
        \/ k \in DOMAIN old /\ new[k].created = old[k].created /\ new[k].updated \in {old[k].updated, now}
        \/ new[k].created = now /\ new[k].updated = now

LEMMA AgedIsDated ==
  ASSUME now \in Nat, now' \in {now, now + 1}
  PROVE  /\ Dated(entities) /\ Aged(entities, entities') => Dated(entities)'
         /\ Dated(rels) /\ Aged(rels, rels') => Dated(rels)'
<1>1. ASSUME Dated(entities), Aged(entities, entities'), NEW k \in DOMAIN entities'
      PROVE  entities'[k].created \in 0..now' /\ entities'[k].updated \in entities'[k].created..now'
  <2>1. PICK c, u : c = entities'[k].created /\ u = entities'[k].updated
    OBVIOUS
  <2>2. c \in 0..now /\ u \in c..now
    BY <1>1, <2>1 DEF Dated, Aged
  <2> QED BY <2>1, <2>2
<1>2. ASSUME Dated(rels), Aged(rels, rels'), NEW k \in DOMAIN rels'
      PROVE  rels'[k].created \in 0..now' /\ rels'[k].updated \in rels'[k].created..now'
  <2>1. PICK c, u : c = rels'[k].created /\ u = rels'[k].updated
    OBVIOUS
  <2>2. c \in 0..now /\ u \in c..now
    BY <1>2, <2>1 DEF Dated, Aged
  <2> QED BY <2>1, <2>2
<1> QED BY <1>1, <1>2 DEF Dated

LEMMA SameIsAged == \A rows : Aged(rows, rows)
  BY DEF Aged

LEMMA CreateAges ==
  ASSUME RelsMeant, NEW k, NEW r, NEW ok \in BOOLEAN, Create(k, r, ok)
  PROVE  Aged(rels, rels')
<1>1. PICK s : s = Staged(k, r)
  OBVIOUS
<1>2. rels' = rels \/ rels' = With(rels, k, s)
  BY <1>1 DEF Create
<1>3. CASE rels' = With(rels, k, s)
  <2>1. DOMAIN rels' = DOMAIN rels \union {k} /\ rels'[k] = s /\ \A j \in DOMAIN rels : j # k => rels'[j] = rels[j]
    BY <1>3 DEF With
  <2>2. CASE k \in DOMAIN rels
    <3>1. s.created = rels[k].created /\ s.updated = now
      BY <1>1, <2>2 DEF Staged, RelsMeant, RelColumns
    <3> QED BY <2>1, <2>2, <3>1 DEF Aged
  <2>3. CASE k \notin DOMAIN rels
    <3>1. s.created = now /\ s.updated = now
      BY <1>1, <2>3 DEF Staged
    <3> QED BY <2>1, <2>3, <3>1 DEF Aged
  <2> QED BY <2>2, <2>3
<1> QED BY <1>2, <1>3, SameIsAged

\* Marking deletions changes no date.
LEMMA MarkingAges ==
  ASSUME RowShape, RelsMeant, NEW S
  PROVE  /\ Aged(entities, [k \in DOMAIN entities |-> IF k \in S THEN [entities[k] EXCEPT !.deleted = TRUE] ELSE entities[k]])
         /\ Aged(rels, [k \in DOMAIN rels |-> IF k \in S THEN [rels[k] EXCEPT !.deleted = TRUE] ELSE rels[k]])
  BY DEF Aged, RowShape, Columns, RelsMeant, RelColumns

LEMMA UpsertAges ==
  ASSUME RowShape, NEW p \in Partitions, Upsert(p)
  PROVE  Aged(entities, entities')
<1>1. PICK key, row : key = EntityKey(Message(p)) /\ row = Upserted(key, Message(p))
  OBVIOUS
<1>2. CASE entities' = With(entities, key, row)
  <2>1. /\ DOMAIN entities' = DOMAIN entities \union {key} /\ entities'[key] = row
        /\ \A k \in DOMAIN entities : k # key => entities'[k] = entities[k]
    BY <1>2 DEF With
  <2>2. CASE key \in DOMAIN entities
    <3>1. row.created = entities[key].created /\ row.updated = entities[key].updated
      BY <1>1, <2>2 DEF Upserted, RowShape, Columns
    <3> QED BY <2>1, <2>2, <3>1 DEF Aged
  <2>3. CASE key \notin DOMAIN entities
    <3>1. row.created = now /\ row.updated = now
      BY <1>1, <2>3 DEF Upserted
    <3> QED BY <2>1, <2>3, <3>1 DEF Aged
  <2> QED BY <2>2, <2>3
<1>3. CASE UNCHANGED entities
  BY <1>3, SameIsAged
<1> QED BY <1>1, <1>2, <1>3 DEF Upsert

LEMMA HandlerAges ==
  ASSUME HandlerShape, RowShape, RelsMeant, NEW p \in Partitions, Handler(p)
  PROVE  Aged(entities, entities') /\ Aged(rels, rels') /\ UNCHANGED now /\ (Fault \/ UNCHANGED faults)
<1>0. Aged(entities, entities) /\ Aged(rels, rels)
  BY SameIsAged
<1>1. UNCHANGED now /\ (Fault \/ UNCHANGED faults)
  <2>1. CASE Skip(p) \/ Paired(p) \/ Swept(p) \/ Upsert(p) \/ UpdateFingerprint(p) \/ FindByTarget(p)
    BY <2>1 DEF Skip, Paired, Swept, Upsert, UpdateFingerprint, FindByTarget
  <2>2. CASE Embed(p) \/ Pair(p) \/ AddMatch(p) \/ Direct(p)
    BY <2>2 DEF Embed, Pair, AddMatch, Direct, Create
  <2>3. CASE UpsertCriteria(p) \/ FindTargets(p) \/ FindCandidates(p)
    BY <2>3 DEF UpsertCriteria, FindTargets, FindCandidates
  <2>4. CASE DeleteEntity(p) \/ DeleteRelationships(p)
    BY <2>4 DEF DeleteEntity, DeleteRelationships
  <2>5. CASE ListStrategies(p) \/ Sweep(p)
    BY <2>5 DEF ListStrategies, Sweep
  <2> QED BY <2>1, <2>2, <2>3, <2>4, <2>5 DEF Handler
<1>2. CASE Skip(p) \/ Paired(p) \/ Swept(p)
  BY <1>0, <1>1, <1>2 DEF Skip, Paired, Swept
<1>3. CASE FindByTarget(p) \/ FindTargets(p) \/ FindCandidates(p) \/ ListStrategies(p)
  <2>1. UNCHANGED <<entities, rels>>
    BY <1>3 DEF FindByTarget, FindTargets, FindCandidates, ListStrategies
  <2> QED BY <1>0, <1>1, <2>1
<1>4. CASE AddMatch(p) \/ UpsertCriteria(p)
  BY <1>0, <1>1, <1>4 DEF AddMatch, UpsertCriteria
<1>5. CASE Embed(p) \/ Pair(p) \/ Direct(p)
  <2>1. UNCHANGED entities /\ \E k, r : \E ok \in BOOLEAN : Create(k, r, ok)
    BY <1>5 DEF Embed, Pair, Direct
  <2> QED BY <1>0, <1>1, <2>1, CreateAges
<1>6. CASE Upsert(p)
  BY <1>0, <1>1, <1>6, UpsertAges DEF Upsert
<1>7. CASE UpdateFingerprint(p)
  <2>1. UNCHANGED rels /\ (UNCHANGED entities \/ entities' = [entities EXCEPT ![h[p].key].fp = h[p].fp, ![h[p].key].updated = now])
    BY <1>7 DEF UpdateFingerprint
  <2>2. Aged(entities, [entities EXCEPT ![h[p].key].fp = h[p].fp, ![h[p].key].updated = now])
    BY DEF Aged, RowShape, Columns
  <2> QED BY <1>0, <1>1, <2>1, <2>2
<1>8. CASE DeleteEntity(p)
  <2>1. UNCHANGED rels /\ (UNCHANGED entities \/ entities' = [entities EXCEPT ![h[p].key].deleted = TRUE])
    BY <1>8 DEF DeleteEntity
  <2>2. Aged(entities, [entities EXCEPT ![h[p].key].deleted = TRUE])
    BY DEF Aged, RowShape, Columns
  <2> QED BY <1>0, <1>1, <2>1, <2>2
<1>9. CASE DeleteRelationships(p)
  <2>1. PICK S : S = {k \in DOMAIN rels : h[p].key \in rels[k].refs /\ Message(p).key \in {"", rels[k].key}}
    OBVIOUS
  <2>2. \/ UNCHANGED rels
        \/ rels' = [k \in DOMAIN rels |-> IF k \in S THEN [rels[k] EXCEPT !.deleted = TRUE] ELSE rels[k]]
    BY <1>9, <2>1 DEF DeleteRelationships
  <2>3. UNCHANGED entities
    BY <1>9 DEF DeleteRelationships
  <2> QED BY <1>0, <1>1, <2>2, <2>3, MarkingAges
<1>10. CASE Sweep(p)
  <2>1. PICK s : s = Head(h[p].todo)
    OBVIOUS
  <2>2. PICK E, R : /\ E = {k \in DOMAIN entities : InScope(s, k[1], k[3]) /\ Doomed(s, Message(p), entities[k], k[4])}
                    /\ R = {k \in DOMAIN rels : InScope(s, k.type, rels[k].integration) /\ Doomed(s, Message(p), rels[k], rels[k].key)}
    OBVIOUS
  <2>3. /\ \/ UNCHANGED entities
           \/ entities' = [k \in DOMAIN entities |-> IF k \in E THEN [entities[k] EXCEPT !.deleted = TRUE] ELSE entities[k]]
        /\ \/ UNCHANGED rels
           \/ rels' = [k \in DOMAIN rels |-> IF k \in R THEN [rels[k] EXCEPT !.deleted = TRUE] ELSE rels[k]]
    BY <1>10, <2>1, <2>2 DEF Sweep
  <2> QED BY <1>0, <1>1, <2>3, MarkingAges
<1> QED BY <1>2, <1>3, <1>4, <1>5, <1>6, <1>7, <1>8, <1>9, <1>10 DEF Handler

\* A criterion whose pairs are looked for is a row.
CriteriaInHand(p) ==
    h[p].pc \in {"evaluate", "pair", "match"} /\ Entry(Message(p)) = "criteria"
        => CriteriaKey(Message(p)) \in DOMAIN criteria
InHandler(p) == (h[p] # Idle) = (step[p] = "handle")

IvyTyped ==
    /\ now \in 0..MaxTime /\ faults \in 0..MaxFaults
    /\ Dated(entities) /\ Dated(rels)
    /\ \A p \in Partitions : InHandler(p) /\ CriteriaInHand(p)
    /\ cutOff \subseteq DOMAIN criteria

LEMMA NotIdle == \A r : "pc" \in DOMAIN r /\ r.pc # "idle" => r # Idle
  BY DEF Idle

\* A step of p that takes no criterion away.
LEMMA KeepsIvyTyped ==
  ASSUME CInv, IvyTyped, UNCHANGED case, NEW p \in Partitions, OthersStay(p), InHandler(p)', CriteriaInHand(p)',
         now' \in 0..MaxTime, faults' \in 0..MaxFaults, Dated(entities)', Dated(rels)',
         DOMAIN criteria \subseteq DOMAIN criteria', cutOff' \subseteq DOMAIN criteria'
  PROVE  IvyTyped'
<1>1. ASSUME NEW q \in Partitions, q # p PROVE InHandler(q)' /\ CriteriaInHand(q)'
  <2>1. InHandler(q) /\ CriteriaInHand(q)
    BY DEF IvyTyped
  <2>2. Message(q)' = Message(q) /\ h'[q] = h[q] /\ step'[q] = step[q]
    BY <1>1 DEF OthersStay, Message, log
  <2> QED BY <2>1, <2>2 DEF InHandler, CriteriaInHand
<1> QED BY <1>1 DEF IvyTyped

LEMMA FaultInBounds ==
  ASSUME faults \in 0..MaxFaults, restarts \in Nat, Fault \/ UNCHANGED faults
  PROVE  faults' \in 0..MaxFaults
  BY BoundsAssumption DEF Fault

\* No statement takes a criterion away, and only a restart cuts one off.
LEMMA CriteriaStay ==
  ASSUME NEW p \in Partitions, Handler(p)
  PROVE  DOMAIN criteria \subseteq DOMAIN criteria' /\ UNCHANGED cutOff
<1>1. CASE UpsertCriteria(p)
  BY <1>1 DEF UpsertCriteria, With
<1>2. CASE Skip(p) \/ Paired(p) \/ Swept(p) \/ Upsert(p) \/ UpdateFingerprint(p) \/ FindByTarget(p)
  BY <1>2 DEF Skip, Paired, Swept, Upsert, UpdateFingerprint, FindByTarget
<1>3. CASE Embed(p) \/ Pair(p) \/ AddMatch(p) \/ Direct(p)
  BY <1>3 DEF Embed, Pair, AddMatch, Direct
<1>4. CASE FindTargets(p) \/ FindCandidates(p) \/ DeleteEntity(p) \/ DeleteRelationships(p)
  BY <1>4 DEF FindTargets, FindCandidates, DeleteEntity, DeleteRelationships
<1>5. CASE ListStrategies(p) \/ Sweep(p)
  BY <1>5 DEF ListStrategies, Sweep
<1> QED BY <1>1, <1>2, <1>3, <1>4, <1>5 DEF Handler

LEMMA HandlerKeepsTypes ==
  ASSUME CInv, FInv, PairInv, IvyTyped, restarts \in Nat, NEW p \in Partitions, Handler(p)
  PROVE  IvyTyped'
<1> USE DEF CInv, Shape
<1>0. HandlerShape /\ RowShape /\ RelsMeant
  BY DEF FInv, PairInv
<1>1. Aged(entities, entities') /\ Aged(rels, rels') /\ UNCHANGED now /\ (Fault \/ UNCHANGED faults)
  BY <1>0, HandlerAges
<1>2. /\ now' \in 0..MaxTime /\ faults' \in 0..MaxFaults /\ Dated(entities)' /\ Dated(rels)'
      /\ DOMAIN criteria \subseteq DOMAIN criteria' /\ cutOff' \subseteq DOMAIN criteria'
  <2>1. now \in Nat /\ now' \in {now, now + 1}
    BY <1>1, BoundsAssumption DEF IvyTyped
  <2> QED BY <1>1, <2>1, AgedIsDated, FaultInBounds, CriteriaStay DEF IvyTyped
<1>3. Handling(p, h[p].pc)
  BY DEF Handler, Skip, Upsert, UpdateFingerprint, Embed, FindByTarget, Pair, AddMatch, Paired, Direct, UpsertCriteria,
         FindTargets, FindCandidates, DeleteEntity, DeleteRelationships, ListStrategies, Sweep, Swept, Handling
<1>4. CASE GoesOut(p, "idle") /\ GoesTo(p, Idle) /\ \E ok \in BOOLEAN : Return(p, ok)
  <2>1. h'[p] = Idle /\ step'[p] # "handle" /\ h'[p].pc = "idle"
    BY <1>0, <1>4 DEF GoesTo, Return, Goes, HandlerShape, GoesOut, HandlerAt
  <2>2. InHandler(p)' /\ CriteriaInHand(p)'
    BY <2>1 DEF InHandler, CriteriaInHand
  <2> QED BY <1>2, <1>4, <2>2, KeepsIvyTyped DEF GoesOut
<1>5. ASSUME NEW pc, UNCHANGED consumer, Follows(p, pc), GoesOut(p, pc) PROVE IvyTyped'
  <2>1. h'[p] # Idle /\ step'[p] = "handle" /\ h'[p].pc = pc /\ Message(p)' = Message(p)
    <3>1. "pc" \in DOMAIN h'[p] /\ h'[p].pc = pc /\ pc # "idle"
      BY <1>5 DEF GoesOut, HandlerAt, Follows
    <3> QED BY <1>3, <1>5, <3>1, NotIdle DEF consumer, Handling, Message, log
  <2>2. CriteriaInHand(p)'
    <3> SUFFICES ASSUME pc \in {"evaluate", "pair", "match"}, Entry(Message(p)) = "criteria"
                 PROVE  CriteriaKey(Message(p)) \in DOMAIN criteria'
      BY <2>1 DEF CriteriaInHand
    <3>1. CASE h[p].pc \in {"evaluate", "pair", "match"}
      BY <1>2, <3>1 DEF IvyTyped, CriteriaInHand
    <3>2. CASE FindByTarget(p)
      <4>1. Entry(Message(p)) = "upsert"
        BY <3>2 DEF FindByTarget, Handling, PairInv, HandlerKnows, Staging
      <4> QED BY <4>1
    <3>3. CASE UpsertCriteria(p)
      <4>1. CASE \E row : criteria' = With(criteria, CriteriaKey(Message(p)), row)
        BY <4>1 DEF With
      <4>2. CASE Returns(p, FALSE)
        <5>1. h'[p].pc = "idle"
          BY <1>0, <4>2, HandlerReturns DEF HandlerAt
        <5> QED BY <2>1, <5>1
      <4> QED BY <3>3, <4>1, <4>2 DEF UpsertCriteria
    <3> QED BY <1>5, <3>1, <3>2, <3>3 DEF Follows
  <2>3. InHandler(p)'
    BY <2>1 DEF InHandler
  <2> QED BY <1>2, <1>5, <2>2, <2>3, KeepsIvyTyped DEF GoesOut
<1>6. Out(p)
  BY <1>0, HandlerLeaves
<1> QED BY <1>4, <1>5, <1>6 DEF Out

LEMMA InitIvyTyped == Init => IvyTyped
<1> SUFFICES ASSUME Init PROVE IvyTyped
  OBVIOUS
<1>1. \A p \in Partitions : h[p] = Idle /\ h[p].pc = "idle" /\ step[p] = "fetch"
  BY DEF Init, ConsumerInit, Everywhere, Idle
<1>2. DOMAIN entities = {} /\ DOMAIN rels = {} /\ cutOff = {} /\ now = 0 /\ faults = 0
  BY DEF Init
<1> QED BY <1>1, <1>2, BoundsAssumption DEF IvyTyped, InHandler, CriteriaInHand, Dated

LEMMA IvyTypedStep ==
  ASSUME CInv, InHand, FInv, PairInv, IvyTyped, restarts \in Nat, [Next]_vars
  PROVE  IvyTyped'
<1> USE DEF CInv, Shape
<1>0. HandlerShape /\ UNCHANGED case
  BY IvyStepOnLoop, CaseStays DEF FInv
<1>1. ASSUME UNCHANGED <<entities, rels, criteria>>, now' \in {now, now + 1}, now' \in 0..MaxTime
      PROVE  /\ Dated(entities)' /\ Dated(rels)' /\ DOMAIN criteria \subseteq DOMAIN criteria'
             /\ UNCHANGED faults => faults' \in 0..MaxFaults
             /\ UNCHANGED cutOff => cutOff' \subseteq DOMAIN criteria'
  <2>1. now \in Nat
    BY DEF IvyTyped
  <2>2. Aged(entities, entities') /\ Aged(rels, rels')
    BY <1>1, SameIsAged
  <2> QED BY <1>1, <2>1, <2>2, AgedIsDated DEF IvyTyped
<1>2. UNCHANGED now => now' \in {now, now + 1} /\ now' \in 0..MaxTime
  BY DEF IvyTyped
<1>3. ASSUME NEW p \in Partitions, ConsumerStep(p) \/ Flush(p), UNCHANGED ivy PROVE IvyTyped'
  <2>1. /\ UNCHANGED <<h, now, entities, rels, criteria, faults, cutOff>> /\ OthersStay(p)
        /\ (step'[p] = "handle") = (step[p] = "handle")
        /\ step[p] = "handle" => position'[p] = position[p]
    BY <1>3 DEF ConsumerStep, Fetch, Parse, Commit, Flush, Goes, ivy, OthersStay
  <2>2. InHandler(p)'
    BY <2>1 DEF IvyTyped, InHandler
  <2>3. CriteriaInHand(p)'
    <3>1. h[p].pc # "idle" => Message(p)' = Message(p)
      BY <1>0, <2>1 DEF HandlerShape, Message, log
    <3>2. CriteriaInHand(p)
      BY DEF IvyTyped
    <3> QED BY <2>1, <3>1, <3>2 DEF CriteriaInHand
  <2> QED BY <1>0, <1>1, <1>2, <2>1, <2>2, <2>3, KeepsIvyTyped
<1>4. ASSUME NEW p \in Partitions, Receive(p) PROVE IvyTyped'
  <2>1. PICK r : r = [pc |-> Entry(Message(p)), rels |-> Message(p).rels]
    OBVIOUS
  <2>2. /\ "pc" \in DOMAIN r /\ r.pc = Entry(Message(p)) /\ GoesTo(p, r)
        /\ UNCHANGED <<now, entities, rels, criteria, faults, cutOff>>
    BY <1>4, <2>1 DEF Receive
  <2>3. HandlerAt(p, r.pc) /\ h'[p] = r
    BY <1>0, <2>2, HandlerGoes
  <2>4. r.pc \notin {"idle", "evaluate", "pair", "match"}
    BY <2>2 DEF Entry, RelationshipEntry
  <2>5. InHandler(p)' /\ CriteriaInHand(p)' /\ OthersStay(p)
    <3>1. step'[p] = "handle" /\ UNCHANGED <<position, failed>> /\ \A q \in Partitions : q # p => step'[q] = step[q]
      BY <1>4 DEF Receive, Call, Goes
    <3> QED BY <2>2, <2>3, <2>4, <3>1, NotIdle DEF InHandler, CriteriaInHand, OthersStay, HandlerAt
  <2> QED BY <1>0, <1>1, <1>2, <2>2, <2>5, KeepsIvyTyped
<1>5. ASSUME NEW p \in Partitions, Crash(p) PROVE IvyTyped'
  <2>1. /\ UNCHANGED <<now, entities, rels, criteria, faults, failed>> /\ GoesTo(p, Idle)
        /\ step'[p] = "fetch" /\ \A q \in Partitions : q # p => step'[q] = step[q] /\ position'[q] = position[q]
    BY <1>5, TheService DEF Crash, Restart, Resume, Starts
  <2>2. h'[p] = Idle /\ h'[p].pc = "idle" /\ \A q \in Partitions : q # p => h'[q] = h[q]
    BY <1>0, <2>1 DEF GoesTo, HandlerShape, Idle
  <2>3. InHandler(p)' /\ CriteriaInHand(p)' /\ OthersStay(p)
    BY <2>1, <2>2 DEF InHandler, CriteriaInHand, OthersStay
  <2>4. cutOff' \subseteq DOMAIN criteria'
    BY <1>5, <2>1 DEF Crash, IvyTyped, CriteriaInHand
  <2> QED BY <1>0, <1>1, <1>2, <2>1, <2>3, <2>4, KeepsIvyTyped
<1>6. ASSUME NEW p \in Partitions, Handler(p) PROVE IvyTyped'
  BY <1>6, HandlerKeepsTypes
<1>7. CASE Tick \/ UNCHANGED vars
  <2>1. /\ UNCHANGED <<case, step, position, h, entities, rels, criteria, faults, cutOff>>
        /\ now' \in {now, now + 1} /\ now' \in 0..MaxTime
    BY <1>7, BoundsAssumption DEF Tick, vars, consumer, ivy, IvyTyped
  <2>2. \A p \in Partitions : InHandler(p)' /\ CriteriaInHand(p)'
    <3>1. ASSUME NEW p \in Partitions PROVE InHandler(p)' /\ CriteriaInHand(p)'
      <4>1. InHandler(p) /\ CriteriaInHand(p)
        BY DEF IvyTyped
      <4>2. Message(p)' = Message(p)
        BY <2>1 DEF Message, log
      <4> QED BY <2>1, <4>1, <4>2 DEF InHandler, CriteriaInHand
    <3> QED BY <3>1
  <2> QED BY <1>1, <2>1, <2>2 DEF IvyTyped
<1> QED BY <1>3, <1>4, <1>5, <1>6, <1>7 DEF Next, Loop

\* For any logs and any interleaving: no row is created after today or updated before
\* its creation, a handler runs exactly while the loop of its partition is in it, and
\* only criteria that are staged are cut off.
THEOREM IvyTypes == Spec => []TypeOK
<1>1. Spec => [](CInv /\ InHand /\ WithinLog /\ ConsumerTypeOK)
  BY IvyImplementsConsumer, ConsumerInvariant, WithinLogInvariant, ConsumerTypes, PTL
<1>2. WithinLog => restarts \in Nat
  BY DEF WithinLog
<1>3. Init => FInv /\ PairInv /\ IvyTyped
  BY InitFInv, InitPairInv, InitIvyTyped
<1>4. CInv /\ InHand /\ WithinLog /\ FInv /\ PairInv /\ IvyTyped /\ [Next]_vars => FInv' /\ PairInv' /\ IvyTyped'
  BY <1>2, FInvStep, PairInvStep, IvyTypedStep
<1>5. ConsumerTypeOK /\ IvyTyped => TypeOK
  BY DEF IvyTyped, TypeOK, Dated, InHandler
<1> QED BY <1>1, <1>3, <1>4, <1>5, PTL DEF Spec

-----------------------------------------------------------------------------
(* The last word: the inductive invariant *)

\* Message o of p has not reached its handler.
Unread(p, o) == o > position[p] \/ (o = position[p] /\ step[p] \in {"parse", "call"})

\* Its handler has not deleted entity k yet.
Due(p, o, k) ==
    \/ Unread(p, o)
    \/ /\ o = position[p] /\ step[p] = "handle"
       /\ h[p].pc = "candidates" \/ (h[p].pc = "delete" /\ h[p].key = k)

\* A statement on entities stems from a strategy that counts days, or from one by
\* execution on the same type.
CountsDays == {"staleness", "retention", "composite"}
Stems(x) == \E i \in DOMAIN strategies :
    strategies[i].kind \in CountsDays \/ (x.kind = "execution" /\ x.entity = strategies[i].entity)

\* Why an entity that execution exec staged may be gone: for message m.
Reason(m, k, exec) ==
    \/ Deletes(m, k)
    \/ /\ Entry(m) = "strategies"
       /\ \E i \in DOMAIN strategies :
            \/ strategies[i].kind \in CountsDays
            \/ strategies[i].entity = k[1] /\ m.key = k[4] /\ m.exec # exec
Reasoned(k, exec) == \E q \in Partitions : \E o \in Offsets(q) : Parses(q, o) /\ Reason(log[q][o], k, exec)

\* What a handler that deletes or sweeps knows.
Deleting(p) ==
    /\ h[p].pc \in {"candidates", "strategies"} => Entry(Message(p)) = h[p].pc
    /\ h[p].pc = "delete" => Deletes(Message(p), h[p].key)
    /\ h[p].pc = "sweep" =>
         /\ Entry(Message(p)) = "strategies" /\ "todo" \in DOMAIN h[p]
         /\ \E S : h[p].todo \in Seq(S) /\ \A x \in S : x.table = "entities" => Stems(x)

\* An entity is gone for a reason.
Gone == \A k \in DOMAIN entities :
    entities[k].deleted => \E exec : exec = entities[k].exec /\ Reasoned(k, exec)

\* No other partition than p stages k, and message o of p is the last of them.
Only(p, k) == \A q \in Partitions : q # p => q \notin Sources(k)
NoneStagesAfter(p, k, o) == \A x \in Offsets(p) : Stages(log[p][x], k) => x <= o

\* The row has the execution of the last message that stages it, once that is staged.
LastExec(p, k, o) ==
    Only(p, k) /\ Stages(log[p][o], k) /\ NoneStagesAfter(p, k, o)
        => Unstaged(p, o) \/ entities[k].exec = log[p][o].exec

\* An entity that its own plan deletes after it was staged for the last time is gone,
\* once that is done.
OwnDeleted(p, k, o) ==
    Only(p, k) /\ Alone(k) /\ DeletesOwn(log[p][o], k) /\ NoneStagesAfter(p, k, o)
        => entities[k].deleted \/ Due(p, o, k)

Words ==
    /\ \A p \in Partitions : Deleting(p)
    /\ Gone
    /\ \A p \in Partitions : \A k \in DOMAIN entities : \A o \in Offsets(p) : LastExec(p, k, o) /\ OwnDeleted(p, k, o)

\* As long as no statement has failed.
WordInv == faults = 0 => Words

-----------------------------------------------------------------------------
\* The messages stay what they are.
LEMMA WordsStay ==
  ASSUME UNCHANGED case
  PROVE  /\ strategies' = strategies /\ \A x : Stems(x)' <=> Stems(x)
         /\ \A k, exec : Reasoned(k, exec)' <=> Reasoned(k, exec)
         /\ \A p, k : Only(p, k)' <=> Only(p, k)
         /\ \A p, k, o : NoneStagesAfter(p, k, o)' <=> NoneStagesAfter(p, k, o)
<1>1. strategies' = strategies /\ log' = log
  BY DEF strategies, log
<1>2. \A x : Stems(x)' <=> Stems(x)
  BY <1>1 DEF Stems
<1>3. \A p : Offsets(p)' = Offsets(p) /\ \A o : Parses(p, o)' <=> Parses(p, o)
  BY <1>1 DEF Offsets, Parses
<1>4. \A m, k, exec : Reason(m, k, exec)' <=> Reason(m, k, exec)
  BY <1>1 DEF Reason
<1>5. \A k, exec : Reasoned(k, exec)' <=> Reasoned(k, exec)
  BY <1>1, <1>3, <1>4 DEF Reasoned
<1>6. \A p, k : Only(p, k)' <=> Only(p, k)
  BY LogStays DEF Only
<1>7. \A p, k, o : NoneStagesAfter(p, k, o)' <=> NoneStagesAfter(p, k, o)
  BY <1>1, <1>3 DEF NoneStagesAfter
<1> QED BY <1>1, <1>2, <1>5, <1>6, <1>7

\* What an entity is gone for stays.
Marks ==
    /\ DOMAIN entities' = DOMAIN entities
    /\ \A k \in DOMAIN entities :
         /\ entities'[k].exec = entities[k].exec
         /\ \/ entities'[k].deleted = entities[k].deleted
            \/ entities'[k].deleted = TRUE /\ \E exec : exec = entities[k].exec /\ Reasoned(k, exec)

LEMMA SameMarks == UNCHANGED entities => Marks
  BY DEF Marks

\* A step of p that stages no entity.
LEMMA KeepsWords ==
  ASSUME Words, UNCHANGED case, NEW p \in Partitions, OthersStay(p), Marks, Deleting(p)',
         \A o \in Offsets(p) : \A k : Stages(log[p][o], k) /\ Unstaged(p, o) => Unstaged(p, o)',
         \A o \in Offsets(p) : \A k \in DOMAIN entities :
             DeletesOwn(log[p][o], k) /\ Alone(k) /\ Due(p, o, k) => entities'[k].deleted \/ Due(p, o, k)'
  PROVE  Words'
<1>0. /\ log' = log /\ (\A q : Offsets(q)' = Offsets(q)) /\ DOMAIN entities' = DOMAIN entities
      /\ \A k : Alone(k)' <=> Alone(k)
  BY LogStays DEF Marks, Alone
<1>1. ASSUME NEW q \in Partitions, q # p PROVE Deleting(q)'
  <2>1. Deleting(q)
    BY DEF Words
  <2>2. Message(q)' = Message(q) /\ h'[q] = h[q]
    BY <1>0, <1>1 DEF OthersStay, Message
  <2> QED BY <2>1, <2>2, WordsStay DEF Deleting
<1>2. Gone'
  <2>1. ASSUME NEW k \in DOMAIN entities, entities'[k].deleted
        PROVE  \E exec : exec = entities'[k].exec /\ Reasoned(k, exec)'
    <3>1. PICK exec : exec = entities[k].exec /\ Reasoned(k, exec)
      BY <2>1 DEF Marks, Words, Gone
    <3>2. entities'[k].exec = exec
      BY <3>1 DEF Marks
    <3> QED BY <3>1, <3>2, WordsStay
  <2> QED BY <1>0, <2>1 DEF Gone
<1>3. ASSUME NEW q \in Partitions, NEW o \in Offsets(q), NEW k
      PROVE  /\ Stages(log[q][o], k) /\ Unstaged(q, o) => Unstaged(q, o)'
             /\ k \in DOMAIN entities /\ DeletesOwn(log[q][o], k) /\ Alone(k) /\ Due(q, o, k)
                  => entities'[k].deleted \/ Due(q, o, k)'
  <2>1. CASE q = p
    BY <2>1
  <2>2. CASE q # p
    BY <2>2 DEF OthersStay, Unstaged, Due, Unread
  <2> QED BY <2>1, <2>2
<1>4. ASSUME NEW q \in Partitions, NEW k \in DOMAIN entities, NEW o \in Offsets(q)
      PROVE  LastExec(q, k, o)' /\ OwnDeleted(q, k, o)'
  <2>1. LastExec(q, k, o) /\ OwnDeleted(q, k, o)
    BY DEF Words
  <2>2. /\ Stages(log[q][o], k)' <=> Stages(log[q][o], k)
        /\ DeletesOwn(log[q][o], k)' <=> DeletesOwn(log[q][o], k)
        /\ Only(q, k)' <=> Only(q, k)
        /\ NoneStagesAfter(q, k, o)' <=> NoneStagesAfter(q, k, o)
    BY <1>0, WordsStay DEF Stages, DeletesOwn, Deletes
  <2>3. LastExec(q, k, o)'
    <3>1. entities'[k].exec = entities[k].exec
      BY DEF Marks
    <3> QED BY <1>0, <1>3, <2>1, <2>2, <3>1 DEF LastExec
  <2>4. OwnDeleted(q, k, o)'
    <3>1. entities[k].deleted => entities'[k].deleted
      BY DEF Marks
    <3> QED BY <1>0, <1>3, <2>1, <2>2, <3>1 DEF OwnDeleted
  <2> QED BY <2>3, <2>4
<1>5. Deleting(p)'
  OBVIOUS
<1> QED BY <1>0, <1>1, <1>2, <1>4, <1>5 DEF Words

\* What is ahead of the message in hand stays so.
LEMMA AheadStays ==
  ASSUME NEW p \in Partitions, position'[p] = position[p], NEW o, o > position[p]
  PROVE  Unread(p, o)' /\ Unstaged(p, o)' /\ \A k : Due(p, o, k)'
  BY DEF Unread, Unstaged, Due

-----------------------------------------------------------------------------
(* The loop and restarts *)

LEMMA LoopKeepsWords ==
  ASSUME CInv, FInv, Words, NEW p \in Partitions, ConsumerStep(p) \/ Flush(p), UNCHANGED ivy
  PROVE  Words'
<1> USE DEF CInv, Shape
<1>1. UNCHANGED <<case, h, entities>> /\ OthersStay(p) /\ Marks
  BY SameMarks DEF ConsumerStep, Fetch, Parse, Commit, Flush, Goes, ivy, OthersStay
<1>2. Len(log[p]) \in Nat /\ position[p] \in Nat
  BY LengthIsNat DEF FInv
<1>3. ASSUME NEW o \in Offsets(p), Parses(p, o), Unread(p, o)
      PROVE  Unread(p, o)'
  <2>1. CASE Fetch(p)
    <3>1. step[p] = "fetch" /\ step'[p] = "parse" /\ position'[p] = position[p] + 1
      BY <2>1 DEF Fetch, Goes
    <3>2. o > position[p] => (o > position[p] + 1 \/ o = position[p] + 1)
      BY <1>2 DEF Offsets
    <3> QED BY <1>3, <3>1, <3>2 DEF Unread
  <2>2. CASE Parse(p)
    <3>1. /\ step[p] = "parse" /\ position' = position
          /\ Parses(p, position[p]) => step'[p] = "call"
      BY <2>2 DEF Parse, Goes
    <3> QED BY <1>3, <3>1 DEF Unread
  <2>3. CASE Commit(p)
    BY <1>3, <2>3 DEF Unread, Commit, Goes
  <2>4. CASE Flush(p)
    BY <1>1, <1>3, <2>4 DEF Unread, Flush
  <2> QED BY <2>1, <2>2, <2>3, <2>4 DEF ConsumerStep
<1>4. /\ step[p] = "handle" => UNCHANGED <<position, step>>
      /\ step[p] # "handle" => h[p].pc = "idle"
  BY DEF ConsumerStep, Fetch, Parse, Commit, Flush, Goes, FInv, HandlerShape
<1>5. Deleting(p)'
  <2>1. h[p].pc # "idle" => Message(p)' = Message(p)
    BY <1>1, <1>4 DEF Message, log
  <2>2. Deleting(p)
    BY DEF Words
  <2> QED BY <1>1, <2>1, <2>2, WordsStay DEF Deleting
<1>6. ASSUME NEW o \in Offsets(p), NEW k, Stages(log[p][o], k), Unstaged(p, o) PROVE Unstaged(p, o)'
  <2>1. Parses(p, o) /\ (Unread(p, o) \/ step[p] = "handle")
    BY <1>6 DEF Stages, Parses, Unstaged, Unread
  <2>2. Unread(p, o)' => Unstaged(p, o)'
    BY DEF Unread, Unstaged
  <2>3. CASE step[p] = "handle"
    BY <1>1, <1>4, <1>6, <2>3 DEF Unstaged
  <2> QED BY <1>3, <2>1, <2>2, <2>3
<1>7. ASSUME NEW o \in Offsets(p), NEW k, DeletesOwn(log[p][o], k), Due(p, o, k) PROVE Due(p, o, k)'
  <2>1. Parses(p, o) /\ (Unread(p, o) \/ step[p] = "handle")
    BY <1>7 DEF DeletesOwn, Deletes, Parses, Due
  <2>2. CASE step[p] = "handle"
    BY <1>1, <1>4, <1>7, <2>2 DEF Due, Unread
  <2> QED BY <1>3, <2>1, <2>2 DEF Due
<1> QED BY <1>1, <1>5, <1>6, <1>7, KeepsWords

LEMMA ReceiveKeepsWords ==
  ASSUME CInv, FInv, Words, NEW p \in Partitions, Receive(p)
  PROVE  Words'
<1> USE DEF CInv, Shape
<1>1. /\ UNCHANGED <<case, entities, position, failed>> /\ step'[p] = "handle"
      /\ \A q \in Partitions : q # p => step'[q] = step[q]
  BY DEF Receive, Call, Goes
<1>2. PICK r : r = [pc |-> Entry(Message(p)), rels |-> Message(p).rels]
  OBVIOUS
<1>3. HandlerAt(p, Entry(Message(p)))
  <2>1. "pc" \in DOMAIN r /\ r.pc = Entry(Message(p)) /\ GoesTo(p, r)
    BY <1>2 DEF Receive
  <2> QED BY <2>1, HandlerGoes DEF FInv
<1>4. Message(p)' = Message(p) /\ OthersStay(p) /\ Marks
  BY <1>1, <1>3, SameMarks DEF Message, log, OthersStay, HandlerAt
<1>5. Entry(Message(p)) \notin {"delete", "sweep"}
  BY DEF Entry, RelationshipEntry
<1>6. Deleting(p)'
  BY <1>3, <1>4, <1>5 DEF Deleting, HandlerAt
<1>7. ASSUME NEW o \in Offsets(p), NEW k, Stages(log[p][o], k), Unstaged(p, o) PROVE Unstaged(p, o)'
  BY <1>1, <1>3, <1>7 DEF Unstaged, HandlerAt, Stages, Message
<1>8. ASSUME NEW o \in Offsets(p), NEW k, DeletesOwn(log[p][o], k), Due(p, o, k) PROVE Due(p, o, k)'
  <2>1. o = position[p] => h'[p].pc = "candidates"
    BY <1>3, <1>8 DEF HandlerAt, DeletesOwn, Deletes, Message
  <2>2. o > position[p] \/ o = position[p]
    BY <1>8 DEF Due, Unread
  <2> QED BY <1>1, <2>1, <2>2 DEF Due, Unread
<1> QED BY <1>1, <1>4, <1>6, <1>7, <1>8, KeepsWords

LEMMA CrashKeepsWords ==
  ASSUME CInv, InHand, FInv, Words, NEW p \in Partitions, Crash(p)
  PROVE  Words'
<1> USE DEF CInv, Shape
<1>1. /\ UNCHANGED <<case, entities, failed>> /\ Marks
      /\ position'[p] = committed[p]
      /\ \A q \in Partitions : q # p => step'[q] = step[q] /\ position'[q] = position[q]
  BY SameMarks, TheService DEF Crash, Restart, Resume, Starts
<1>2. HandlerAt(p, "idle")
  <2>1. "pc" \in DOMAIN Idle /\ Idle.pc = "idle" /\ GoesTo(p, Idle)
    BY DEF Idle, Crash
  <2> QED BY <2>1, HandlerGoes DEF FInv
<1>3. OthersStay(p) /\ Deleting(p)'
  BY <1>1, <1>2 DEF OthersStay, HandlerAt, Deleting
<1>4. ASSUME NEW o \in Offsets(p), o > position[p] \/ (o = position[p] /\ step[p] \in {"parse", "call", "handle"})
      PROVE  o > position'[p]
  <2>1. committed[p] <= marked[p] /\ marked[p] <= position[p] /\ o \in Nat
    BY DEF Behind, Offsets
  <2>2. CASE o > position[p]
    BY <1>1, <2>1, <2>2
  <2>3. CASE o = position[p] /\ step[p] \in {"parse", "call", "handle"}
    BY <1>1, <2>1, <2>3 DEF InHand
  <2> QED BY <1>4, <2>2, <2>3
<1>5. ASSUME NEW o \in Offsets(p), Unstaged(p, o) PROVE Unstaged(p, o)'
  BY <1>4, <1>5 DEF Unstaged
<1>6. ASSUME NEW o \in Offsets(p), NEW k, Due(p, o, k) PROVE Due(p, o, k)'
  BY <1>4, <1>6 DEF Due, Unread
<1> QED BY <1>1, <1>3, <1>5, <1>6, KeepsWords

-----------------------------------------------------------------------------
(* The statements of the handlers *)

\* A statement on entities counts days, is part of a composite strategy, or is that of
\* a strategy by execution on its type.
LEMMA StatementsStem ==
  ASSUME case \in DOMAIN Logs
  PROVE  \E S : /\ FlattenSeq([i \in DOMAIN strategies |-> Statements(strategies[i])]) \in Seq(S)
                /\ \A x \in S : x.table = "entities" => Stems(x)
<1>1. PICK Q : Q = UNION {Range(Parts(strategies[i])) : i \in DOMAIN strategies}
  OBVIOUS
<1>2. PICK S : S = {x \in {OnTable(q, "entities") : q \in Q} \union {OnTable(q, "rels") : q \in Q} :
                      x.table = "entities" => Stems(x)}
  OBVIOUS
<1>3. ASSUME NEW i \in DOMAIN strategies, NEW j \in DOMAIN Parts(strategies[i])
      PROVE  StatementsOf(Parts(strategies[i])[j]) \in Seq(S)
  <2>1. PICK s, q, y, z : /\ s = strategies[i] /\ q = Parts(s)[j]
                          /\ y = OnTable(q, "entities") /\ z = OnTable(q, "rels")
    OBVIOUS
  <2>2. q \in Q
    BY <1>1, <2>1 DEF Range
  <2>3. CASE q.kind \notin {"execution", "staleness", "retention"}
    BY <2>1, <2>3 DEF StatementsOf
  <2>4. CASE q.kind \in {"execution", "staleness", "retention"}
    <3>1. Stems(y)
      <4>1. CASE s.kind = "composite"
        BY <2>1, <4>1 DEF Stems, CountsDays
      <4>2. CASE s.kind # "composite"
        <5>1. Parts(s) = <<s>>
          BY <4>2 DEF Parts
        <5>2. \A a \in DOMAIN <<s>> : <<s>>[a] = s
          OBVIOUS
        <5>3. q = s
          BY <2>1, <5>1, <5>2
        <5> QED BY <2>1, <2>4, <5>3 DEF Stems, CountsDays, OnTable
      <4> QED BY <4>1, <4>2
    <3>2. z.table = "rels"
      BY <2>1 DEF OnTable
    <3>3. y \in S /\ z \in S
      BY <1>2, <2>1, <2>2, <3>1, <3>2
    <3>4. StatementsOf(q) \in {<<>> \o <<>>, <<y>> \o <<>>, <<>> \o <<z>>, <<y>> \o <<z>>}
      BY <2>1, <2>4 DEF StatementsOf
    <3>5. <<>> \in Seq(S) /\ <<y>> \in Seq(S) /\ <<z>> \in Seq(S)
      BY <3>3
    <3>6. {<<>> \o <<>>, <<y>> \o <<>>, <<>> \o <<z>>, <<y>> \o <<z>>} \subseteq Seq(S)
      BY <3>5, ConcatProperties
    <3> QED BY <2>1, <3>4, <3>6
  <2> QED BY <2>3, <2>4
<1>4. FlattenSeq([i \in DOMAIN strategies |-> Statements(strategies[i])]) \in Seq(S)
  BY <1>3, StatementsType
<1> QED BY <1>2, <1>4

\* A statement that neither stages an entity nor marks it.
LEMMA ElseKeepsWords ==
  ASSUME CInv, FInv, Words, NEW p \in Partitions, Handler(p), ~Upsert(p),
         ~FindCandidates(p), ~DeleteEntity(p), ~ListStrategies(p), ~Sweep(p)
  PROVE  Words'
<1> USE DEF CInv, Shape
<1>1. HandlerShape /\ RowShape
  BY DEF FInv
<1>2. PICK pc : GoesOut(p, pc) /\ pc \notin {"candidates", "strategies", "delete", "sweep"}
  BY <1>1, HandlerLeaves DEF Out, Follows
<1>3. OthersStay(p) /\ UNCHANGED <<case, position>> /\ h'[p].pc = pc
  BY <1>2 DEF GoesOut, HandlerAt
<1>4. step[p] = "handle" /\ h[p].pc \notin {"upsert", "candidates", "delete"}
  BY DEF Handler, Skip, UpdateFingerprint, Embed, FindByTarget, Pair, AddMatch, Paired, Direct, UpsertCriteria,
         FindTargets, DeleteRelationships, Swept, Handling
<1>5. Marks
  <2>1. CASE UNCHANGED entities
    BY <2>1, SameMarks
  <2>2. CASE entities' = [entities EXCEPT ![h[p].key].fp = h[p].fp, ![h[p].key].updated = now]
    BY <1>1, <2>2 DEF Marks, RowShape, Columns
  <2>3. UNCHANGED entities \/ entities' = [entities EXCEPT ![h[p].key].fp = h[p].fp, ![h[p].key].updated = now]
    <3>1. CASE UpdateFingerprint(p)
      BY <3>1 DEF UpdateFingerprint
    <3>2. CASE Skip(p) \/ Paired(p) \/ Swept(p) \/ Embed(p) \/ FindByTarget(p)
      BY <3>2 DEF Skip, Paired, Swept, Embed, FindByTarget
    <3>3. CASE Pair(p) \/ AddMatch(p) \/ Direct(p) \/ UpsertCriteria(p)
      BY <3>3 DEF Pair, AddMatch, Direct, UpsertCriteria
    <3>4. CASE FindTargets(p) \/ DeleteRelationships(p)
      BY <3>4 DEF FindTargets, DeleteRelationships
    <3> QED BY <3>1, <3>2, <3>3, <3>4 DEF Handler
  <2> QED BY <2>1, <2>2, <2>3
<1>6. Deleting(p)'
  BY <1>2, <1>3 DEF Deleting
<1>7. ASSUME NEW o \in Offsets(p), Unstaged(p, o) PROVE Unstaged(p, o)'
  BY <1>3, <1>4, <1>7 DEF Unstaged
<1>8. ASSUME NEW o \in Offsets(p), NEW k, Due(p, o, k) PROVE Due(p, o, k)'
  BY <1>3, <1>4, <1>8 DEF Due, Unread
<1> QED BY <1>3, <1>5, <1>6, <1>7, <1>8, KeepsWords

\* Of the entities with the id, the message's own is preferred.
LEMMA OwnPreferred ==
  ASSUME Dated(entities), now \in Nat, NEW m, NEW k \in DOMAIN entities, DeletesOwn(m, k), Alone(k), ~entities[k].deleted
  PROVE  Preferred(m) = {k}
<1>1. k \in Candidates(m)
  BY DEF Candidates, Live, DeletesOwn, Deletes
<1>2. PICK own : own = {x \in Candidates(m) : m.key # "" /\ x[4] = m.key}
  OBVIOUS
<1>3. own = {k}
  BY <1>1, <1>2 DEF Candidates, Live, DeletesOwn, Deletes, Alone
<1>4. entities[k].updated \in Int
  BY DEF Dated
<1>5. Preferred(m) = {x \in own : \A y \in own : entities[x].updated >= entities[y].updated}
  BY <1>2, <1>3 DEF Preferred
<1> QED BY <1>3, <1>4, <1>5

LEMMA FindCandidatesKeepsWords ==
  ASSUME CInv, InHand, FInv, IvyTyped, Words, NEW p \in Partitions, FindCandidates(p), UNCHANGED faults
  PROVE  Words'
<1> USE DEF CInv, Shape
<1>1. /\ step[p] = "handle" /\ h[p].pc = "candidates" /\ UNCHANGED entities
      /\ faults \in Nat /\ Marks /\ HandlerShape
  BY SameMarks, BoundsAssumption DEF FindCandidates, Handling, IvyTyped, FInv
<1>2. Entry(Message(p)) = "candidates"
  BY <1>1 DEF Words, Deleting
<1>3. ASSUME NEW o \in Offsets(p), NEW k, Unstaged(p, o) PROVE o > position[p]
  BY <1>1, <1>3 DEF Unstaged
<1>4. CASE Returns(p, TRUE) /\ Preferred(Message(p)) = {}
  <2>1. HandlerAt(p, "idle") /\ OthersStay(p) /\ UNCHANGED <<case, position>>
    BY <1>1, <1>4, ReturnsLeave
  <2>2. Deleting(p)'
    BY <2>1 DEF HandlerAt, Deleting
  <2>3. ASSUME NEW o \in Offsets(p), NEW k \in DOMAIN entities, DeletesOwn(log[p][o], k), Alone(k), Due(p, o, k)
        PROVE  entities'[k].deleted \/ Due(p, o, k)'
    <3>1. CASE o > position[p]
      BY <2>1, <3>1, AheadStays
    <3>2. CASE o = position[p]
      <4>1. ~entities[k].deleted => Preferred(Message(p)) = {k}
        BY <2>3, <3>2, OwnPreferred DEF Message, IvyTyped
      <4>2. entities[k].deleted
        BY <1>4, <4>1
      <4> QED BY <1>1, <4>2
    <3> QED BY <2>3, <3>1, <3>2 DEF Due, Unread
  <2>4. ASSUME NEW o \in Offsets(p), NEW k, Unstaged(p, o) PROVE Unstaged(p, o)'
    BY <1>3, <2>1, <2>4, AheadStays
  <2> QED BY <1>1, <2>1, <2>2, <2>3, <2>4, KeepsWords
<1>5. ASSUME NEW x \in Preferred(Message(p)), Continues(p, [pc |-> "delete", key |-> x]) PROVE Words'
  <2>1. PICK r : r = [pc |-> "delete", key |-> x]
    OBVIOUS
  <2>2. "pc" \in DOMAIN r /\ r.pc = "delete" /\ r.key = x /\ Continues(p, r)
    BY <1>5, <2>1
  <2>3. HandlerAt(p, "delete") /\ h'[p] = r /\ OthersStay(p) /\ UNCHANGED <<case, position, step>>
    BY <1>1, <2>2, GoesOn
  <2>4. Message(p)' = Message(p)
    BY <2>3 DEF Message, log
  <2>5. Message(p) # Junk => Deletes(Message(p), x)
    BY <1>2, <1>5 DEF Preferred, Candidates, Deletes
  <2>6. Message(p) # Junk
    BY <1>1 DEF InHand, Parses, Message
  <2>7. Deleting(p)'
    BY <2>2, <2>3, <2>4, <2>5, <2>6 DEF Deleting, Deletes
  <2>8. ASSUME NEW o \in Offsets(p), NEW k \in DOMAIN entities, DeletesOwn(log[p][o], k), Alone(k), Due(p, o, k)
        PROVE  entities'[k].deleted \/ Due(p, o, k)'
    <3>1. CASE o > position[p]
      BY <2>3, <3>1, AheadStays
    <3>2. CASE o = position[p] /\ ~entities[k].deleted
      <4>1. x = k
        BY <1>5, <2>8, <3>2, OwnPreferred DEF Message, IvyTyped
      <4> QED BY <1>1, <2>2, <2>3, <3>2, <4>1 DEF Due
    <3> QED BY <1>1, <2>8, <3>1, <3>2 DEF Due, Unread
  <2>9. ASSUME NEW o \in Offsets(p), NEW k, Unstaged(p, o) PROVE Unstaged(p, o)'
    BY <1>3, <2>3, <2>9, AheadStays
  <2> QED BY <1>1, <2>3, <2>7, <2>8, <2>9, KeepsWords
<1>6. ~Fault
  BY <1>1 DEF Fault
<1> QED BY <1>4, <1>5, <1>6 DEF FindCandidates

\* A deletion without a fault marks the entity for the message in hand.
LEMMA DeleteEntityKeepsWords ==
  ASSUME CInv, InHand, FInv, IvyTyped, Words, NEW p \in Partitions, DeleteEntity(p), UNCHANGED faults
  PROVE  Words'
<1> USE DEF CInv, Shape
<1>1. /\ step[p] = "handle" /\ h[p].pc = "delete" /\ faults \in Nat /\ HandlerShape /\ RowShape
  BY BoundsAssumption DEF DeleteEntity, Handling, IvyTyped, FInv
<1>2. PICK key, r : key = h[p].key /\ r = [h[p] EXCEPT !.pc = "unlink"]
  OBVIOUS
<1>3. entities' = [entities EXCEPT ![key].deleted = TRUE] /\ (Returns(p, TRUE) \/ Continues(p, r))
  <2>1. ~Fault
    BY <1>1 DEF Fault
  <2> QED BY <1>2, <2>1 DEF DeleteEntity
<1>4. "pc" \in DOMAIN r /\ r.pc = "unlink"
  BY <1>1, <1>2 DEF HandlerShape
<1>5. /\ OthersStay(p) /\ UNCHANGED <<case, position>>
      /\ HandlerAt(p, "idle") \/ HandlerAt(p, "unlink")
  <2>1. CASE Returns(p, TRUE)
    BY <1>1, <2>1, ReturnsLeave
  <2>2. CASE Continues(p, r)
    BY <1>1, <1>4, <2>2, GoesOn
  <2> QED BY <1>3, <2>1, <2>2
<1>6. Deleting(p)'
  BY <1>5 DEF HandlerAt, Deleting
<1>7. position[p] \in Offsets(p) /\ Parses(p, position[p]) /\ Deletes(log[p][position[p]], key)
  BY <1>1, <1>2 DEF HandlerShape, InHand, Words, Deleting, Message
<1>8. \A exec : Reasoned(key, exec)
  BY <1>7 DEF Reasoned, Reason
<1>9. Marks
  <2>1. /\ DOMAIN entities' = DOMAIN entities
        /\ \A k \in DOMAIN entities : entities'[k].exec = entities[k].exec
        /\ \A k \in DOMAIN entities : entities'[k].deleted = IF k = key THEN TRUE ELSE entities[k].deleted
    BY <1>1, <1>3 DEF RowShape, Columns
  <2>2. \A k \in DOMAIN entities : k = key => \E exec : exec = entities[k].exec /\ Reasoned(k, exec)
    BY <1>8
  <2> QED BY <2>1, <2>2 DEF Marks
<1>10. ASSUME NEW o \in Offsets(p), NEW k \in DOMAIN entities, DeletesOwn(log[p][o], k), Alone(k), Due(p, o, k)
       PROVE  entities'[k].deleted \/ Due(p, o, k)'
  <2>1. CASE o > position[p]
    BY <1>5, <2>1, AheadStays
  <2>2. CASE key = k
    <3>1. entities'[k].deleted = TRUE
      BY <1>1, <1>3, <2>2 DEF RowShape, Columns
    <3> QED BY <3>1
  <2> QED BY <1>1, <1>2, <1>10, <2>1, <2>2 DEF Due, Unread
<1>11. ASSUME NEW o \in Offsets(p), NEW k, Unstaged(p, o) PROVE Unstaged(p, o)'
  <2>1. o > position[p]
    BY <1>1, <1>11 DEF Unstaged
  <2> QED BY <1>5, <2>1, AheadStays
<1> QED BY <1>5, <1>6, <1>9, <1>10, <1>11, KeepsWords

LEMMA ListStrategiesKeepsWords ==
  ASSUME CInv, FInv, Words, NEW p \in Partitions, ListStrategies(p)
  PROVE  Words'
<1> USE DEF CInv, Shape
<1>0. UNCHANGED entities
  BY DEF ListStrategies
<1>1. step[p] = "handle" /\ h[p].pc = "strategies" /\ Marks /\ HandlerShape
  BY <1>0, SameMarks DEF ListStrategies, Handling, FInv
<1>2. PICK todo, r : /\ todo = FlattenSeq([i \in DOMAIN strategies |-> Statements(strategies[i])])
                     /\ r = [pc |-> "sweep", todo |-> todo]
  OBVIOUS
<1>3. Returns(p, TRUE) \/ Continues(p, r)
  BY <1>2 DEF ListStrategies
<1>4. OthersStay(p) /\ UNCHANGED <<case, position>> /\ Deleting(p)'
  <2>1. CASE Returns(p, TRUE)
    <3>1. HandlerAt(p, "idle") /\ OthersStay(p) /\ UNCHANGED <<case, position>>
      BY <1>1, <2>1, ReturnsLeave
    <3> QED BY <3>1 DEF HandlerAt, Deleting
  <2>2. CASE Continues(p, r)
    <3>1. "pc" \in DOMAIN r /\ r.pc = "sweep" /\ "todo" \in DOMAIN r /\ r.todo = todo
      BY <1>2
    <3>2. h'[p] = r /\ OthersStay(p) /\ UNCHANGED <<case, position>>
      BY <1>1, <2>2, <3>1, GoesOn
    <3>3. Message(p)' = Message(p) /\ Entry(Message(p)) = "strategies"
      BY <1>1, <3>2 DEF Message, log, Words, Deleting
    <3>4. PICK S : todo \in Seq(S) /\ \A x \in S : x.table = "entities" => Stems(x)
      BY <1>1, <1>2, StatementsStem DEF HandlerShape
    <3>5. \A x \in S : x.table = "entities" => Stems(x)'
      BY <3>2, <3>4, WordsStay
    <3> QED BY <3>1, <3>2, <3>3, <3>4, <3>5 DEF Deleting
  <2> QED BY <1>3, <2>1, <2>2
<1>5. ASSUME NEW o \in Offsets(p), NEW k, Unstaged(p, o) PROVE Unstaged(p, o)'
  <2>1. o > position[p]
    BY <1>1, <1>5 DEF Unstaged
  <2> QED BY <1>4, <2>1, AheadStays
<1>6. ASSUME NEW o \in Offsets(p), NEW k, Due(p, o, k) PROVE Due(p, o, k)'
  <2>1. o > position[p]
    BY <1>1, <1>6 DEF Due, Unread
  <2> QED BY <1>4, <2>1, AheadStays
<1> QED BY <1>1, <1>4, <1>5, <1>6, KeepsWords

\* What a statement of a sweep dooms is gone for a reason.
LEMMA DoomedIsReasoned ==
  ASSUME HandlerShape, InHand, NEW p \in Partitions, step[p] = "handle", Entry(Message(p)) = "strategies",
         NEW s, s.table = "entities", Stems(s), NEW k \in DOMAIN entities,
         InScope(s, k[1], k[3]), Doomed(s, Message(p), entities[k], k[4])
  PROVE  \E exec : exec = entities[k].exec /\ Reasoned(k, exec)
<1>1. position[p] \in Offsets(p) /\ Parses(p, position[p])
  BY DEF HandlerShape, InHand
<1>2. PICK i \in DOMAIN strategies :
        strategies[i].kind \in CountsDays \/ (s.kind = "execution" /\ s.entity = strategies[i].entity)
  BY DEF Stems
<1>3. PICK m, exec : m = Message(p) /\ exec = entities[k].exec
  OBVIOUS
<1>4. s.kind = "execution" => m.key = k[4] /\ m.exec # exec
  BY <1>3 DEF Doomed, Unseen
<1>5. s.entity = k[1]
  BY DEF InScope
<1>6. Reason(m, k, exec)
  BY <1>2, <1>3, <1>4, <1>5 DEF Reason
<1>7. Reasoned(k, exec)
  BY <1>1, <1>3, <1>6 DEF Reasoned, Message
<1> QED BY <1>3, <1>7

LEMMA SweepKeepsWords ==
  ASSUME CInv, InHand, FInv, IvyTyped, Words, NEW p \in Partitions, Sweep(p), UNCHANGED faults
  PROVE  Words'
<1> USE DEF CInv, Shape
<1>0. step[p] = "handle" /\ h[p].pc = "sweep" /\ h[p].todo # <<>>
  BY DEF Sweep, Handling
<1>1. /\ step[p] = "handle" /\ h[p].pc = "sweep" /\ h[p].todo # <<>> /\ faults \in Nat /\ HandlerShape /\ RowShape
      /\ "pc" \in DOMAIN h[p]
  BY <1>0, BoundsAssumption DEF IvyTyped, FInv, HandlerShape
<1>2. PICK s, r, X : /\ s = Head(h[p].todo) /\ r = [h[p] EXCEPT !.todo = Tail(h[p].todo)]
                     /\ X = {k \in DOMAIN entities : InScope(s, k[1], k[3]) /\ Doomed(s, Message(p), entities[k], k[4])}
  OBVIOUS
<1>3. ~Fault
  BY <1>1 DEF Fault
<1>4. /\ Continues(p, r)
      /\ \/ UNCHANGED entities
         \/ /\ s.table = "entities"
            /\ entities' = [k \in DOMAIN entities |-> IF k \in X THEN [entities[k] EXCEPT !.deleted = TRUE] ELSE entities[k]]
  BY <1>2, <1>3 DEF Sweep
<1>5. /\ Entry(Message(p)) = "strategies" /\ "todo" \in DOMAIN h[p]
  BY <1>1 DEF Words, Deleting
<1>6. PICK S : h[p].todo \in Seq(S) /\ \A x \in S : x.table = "entities" => Stems(x)
  BY <1>1 DEF Words, Deleting
<1>7. "pc" \in DOMAIN r /\ r.pc = "sweep" /\ "todo" \in DOMAIN r /\ r.todo = Tail(h[p].todo)
  BY <1>1, <1>2, <1>5
<1>8. h'[p] = r /\ OthersStay(p) /\ UNCHANGED <<case, position, step>>
  BY <1>1, <1>4, <1>7, GoesOn
<1>9. Deleting(p)'
  <2>1. Message(p)' = Message(p)
    BY <1>8 DEF Message, log
  <2>2. r.todo \in Seq(S) /\ \A x \in S : x.table = "entities" => Stems(x)'
    BY <1>1, <1>6, <1>7, <1>8, WordsStay
  <2> QED BY <1>5, <1>7, <1>8, <2>1, <2>2 DEF Deleting
<1>10. Marks
  <2>1. CASE UNCHANGED entities
    BY <2>1, SameMarks
  <2>2. CASE /\ s.table = "entities"
             /\ entities' = [k \in DOMAIN entities |-> IF k \in X THEN [entities[k] EXCEPT !.deleted = TRUE] ELSE entities[k]]
    <3>1. Stems(s)
      BY <1>1, <1>2, <1>6, <2>2
    <3>2. \A k \in X : \E exec : exec = entities[k].exec /\ Reasoned(k, exec)
      BY <1>1, <1>2, <1>5, <2>2, <3>1, DoomedIsReasoned
    <3>3. /\ DOMAIN entities' = DOMAIN entities
          /\ \A k \in DOMAIN entities : entities'[k].exec = entities[k].exec
          /\ \A k \in DOMAIN entities : IF k \in X THEN entities'[k].deleted = TRUE ELSE entities'[k].deleted = entities[k].deleted
      BY <1>1, <2>2 DEF RowShape, Columns
    <3> QED BY <3>2, <3>3 DEF Marks
  <2> QED BY <1>4, <2>1, <2>2
<1>11. ASSUME NEW o \in Offsets(p), NEW k, Unstaged(p, o) PROVE Unstaged(p, o)'
  <2>1. o > position[p]
    BY <1>1, <1>11 DEF Unstaged
  <2> QED BY <1>8, <2>1, AheadStays
<1>12. ASSUME NEW o \in Offsets(p), NEW k, Due(p, o, k) PROVE Due(p, o, k)'
  <2>1. o > position[p]
    BY <1>1, <1>12 DEF Due, Unread
  <2> QED BY <1>8, <2>1, AheadStays
<1> QED BY <1>8, <1>9, <1>10, <1>11, <1>12, KeepsWords

\* An upsert stages the entity of the message in hand, and brings it back.
LEMMA UpsertKeepsWords ==
  ASSUME CInv, InHand, FInv, PairInv, IvyTyped, Words, NEW p \in Partitions, Upsert(p), UNCHANGED faults
  PROVE  Words'
<1> USE DEF CInv, Shape
<1>0. step[p] = "handle" /\ h[p].pc = "upsert" /\ HandlerShape
  BY DEF Upsert, Handling, FInv
<1>1. Entry(Message(p)) = "upsert" /\ faults \in Nat
  BY <1>0, BoundsAssumption DEF PairInv, HandlerKnows, IvyTyped
<1>2. PICK key, row, r : key = EntityKey(Message(p)) /\ row = Upserted(key, Message(p)) /\ r = AfterUpsert(p, key, row)
  OBVIOUS
<1>3. entities' = With(entities, key, row) /\ Continues(p, r)
  <2>1. ~Fault
    BY <1>1 DEF Fault
  <2> QED BY <1>2, <2>1 DEF Upsert
<1>4. "pc" \in DOMAIN r /\ r.pc \in {"embed", "fingerprint"}
  BY <1>2 DEF AfterUpsert
<1>5. HandlerAt(p, r.pc) /\ OthersStay(p) /\ UNCHANGED <<case, position, step>>
  BY <1>0, <1>3, <1>4, GoesOn
<1>6. /\ DOMAIN entities' = DOMAIN entities \union {key} /\ entities'[key] = row
      /\ \A k \in DOMAIN entities : k # key => entities'[k] = entities[k]
  BY <1>3 DEF With
<1>7. row.exec = Message(p).exec /\ row.deleted = FALSE
  BY <1>2 DEF Upserted, FInv, RowShape, Columns
<1>8. position[p] \in Offsets(p) /\ Stages(log[p][position[p]], key) /\ p \in Sources(key)
  BY <1>0, <1>1, <1>2, InHandIsSource
<1>9. /\ log' = log /\ \A q : Offsets(q)' = Offsets(q)
  BY <1>5, LogStays
<1>10. ASSUME NEW q \in Partitions PROVE Deleting(q)'
  <2>1. CASE q = p
    BY <1>4, <1>5, <2>1 DEF Deleting, HandlerAt
  <2>2. CASE q # p
    <3>1. Message(q)' = Message(q) /\ h'[q] = h[q]
      BY <1>9, <1>5, <2>2 DEF OthersStay, Message
    <3>2. Deleting(q)
      BY DEF Words
    <3> QED BY <1>5, <3>1, <3>2, WordsStay DEF Deleting
  <2> QED BY <2>1, <2>2
<1>11. Gone'
  <2>1. ASSUME NEW k \in DOMAIN entities', entities'[k].deleted
        PROVE  \E exec : exec = entities'[k].exec /\ Reasoned(k, exec)'
    <3>1. k # key /\ k \in DOMAIN entities /\ entities'[k] = entities[k]
      BY <1>6, <1>7, <2>1
    <3>2. PICK exec : exec = entities[k].exec /\ Reasoned(k, exec)
      BY <2>1, <3>1 DEF Words, Gone
    <3> QED BY <1>5, <3>1, <3>2, WordsStay
  <2> QED BY <2>1 DEF Gone
<1>12. ASSUME NEW q \in Partitions, NEW k \in DOMAIN entities', NEW o \in Offsets(q)
       PROVE  LastExec(q, k, o)' /\ OwnDeleted(q, k, o)'
  <2>1. /\ Stages(log[q][o], k)' <=> Stages(log[q][o], k)
        /\ DeletesOwn(log[q][o], k)' <=> DeletesOwn(log[q][o], k)
        /\ Only(q, k)' <=> Only(q, k)
        /\ NoneStagesAfter(q, k, o)' <=> NoneStagesAfter(q, k, o)
    BY <1>5, <1>9, WordsStay DEF Stages, DeletesOwn, Deletes
  <2>2. CASE k = key
    <3>1. Only(q, k) => q = p
      BY <1>8, <2>2 DEF Only
    <3>2. ASSUME q = p, NoneStagesAfter(q, k, o) PROVE o > position[p] \/ o = position[p]
      <4>1. position[p] <= o
        BY <1>8, <2>2, <3>2 DEF NoneStagesAfter
      <4>2. o \in Nat /\ position[p] \in Nat
        BY DEF Offsets
      <4> QED BY <4>1, <4>2
    <3>3. LastExec(q, k, o)'
      <4>1. ASSUME q = p, o > position[p] PROVE Unstaged(q, o)'
        BY <1>5, <4>1, AheadStays
      <4>2. ASSUME q = p, o = position[p] PROVE entities'[k].exec = log[q][o].exec
        BY <1>6, <1>7, <2>2, <4>2 DEF Message
      <4> QED BY <1>9, <2>1, <3>1, <3>2, <4>1, <4>2 DEF LastExec
    <3>4. OwnDeleted(q, k, o)'
      <4>1. ASSUME q = p, o > position[p] PROVE Due(q, o, k)'
        BY <1>5, <4>1, AheadStays
      <4>2. ASSUME q = p, o = position[p] PROVE ~DeletesOwn(log[q][o], k)
        BY <1>1, <4>2 DEF Message, DeletesOwn, Deletes
      <4> QED BY <2>1, <3>1, <3>2, <4>1, <4>2 DEF OwnDeleted
    <3> QED BY <3>3, <3>4
  <2>3. CASE k # key
    <3>1. k \in DOMAIN entities /\ entities'[k] = entities[k] /\ LastExec(q, k, o) /\ OwnDeleted(q, k, o)
      BY <1>6, <1>12, <2>3 DEF Words
    <3>2. Alone(k)' => Alone(k)
      BY <1>6 DEF Alone
    <3>3. Stages(log[q][o], k) /\ Unstaged(q, o) => Unstaged(q, o)'
      <4>1. CASE q # p
        BY <1>5, <4>1 DEF OthersStay, Unstaged
      <4>2. CASE q = p /\ o > position[p]
        BY <1>5, <4>2, AheadStays
      <4>3. q = p /\ o = position[p] => ~Stages(log[q][o], k)
        BY <1>2, <2>3 DEF Stages, Message
      <4> QED BY <4>1, <4>2, <4>3 DEF Unstaged
    <3>4. Due(q, o, k) => Due(q, o, k)'
      <4>1. CASE q # p
        BY <1>5, <4>1 DEF OthersStay, Due, Unread
      <4>2. CASE q = p /\ o > position[p]
        BY <1>5, <4>2, AheadStays
      <4> QED BY <1>0, <4>1, <4>2 DEF Due, Unread
    <3> QED BY <1>9, <2>1, <3>1, <3>2, <3>3, <3>4 DEF LastExec, OwnDeleted
  <2> QED BY <2>2, <2>3
<1> QED BY <1>9, <1>10, <1>11, <1>12 DEF Words

-----------------------------------------------------------------------------
(* The last word *)

LEMMA InitWords == Init => Words
<1> SUFFICES ASSUME Init PROVE Words
  OBVIOUS
<1>1. \A p \in Partitions : h[p].pc = "idle"
  BY DEF Init, Everywhere, Idle
<1>2. DOMAIN entities = {}
  BY DEF Init
<1> QED BY <1>1, <1>2 DEF Words, Deleting, Gone

LEMMA WordInvStep ==
  ASSUME CInv, InHand, FInv, PairInv, IvyTyped, WordInv, [Next]_vars
  PROVE  WordInv'
<1>0. HandlerShape /\ RowShape /\ RelsMeant /\ UNCHANGED case
  BY IvyStepOnLoop, CaseStays DEF FInv, PairInv
<1>1. ASSUME NEW p \in Partitions, ConsumerStep(p) \/ Flush(p), UNCHANGED ivy PROVE WordInv'
  BY <1>1, LoopKeepsWords DEF WordInv, ivy
<1>2. ASSUME NEW p \in Partitions, Receive(p) \/ Crash(p) PROVE WordInv'
  <2>1. UNCHANGED faults
    BY <1>2 DEF Receive, Crash
  <2> QED BY <1>2, <2>1, ReceiveKeepsWords, CrashKeepsWords DEF WordInv
<1>3. ASSUME NEW p \in Partitions, Handler(p) PROVE WordInv'
  <2> SUFFICES ASSUME faults' = 0 PROVE Words'
    BY DEF WordInv
  <2>1. UNCHANGED faults /\ Words
    <3>1. Fault \/ UNCHANGED faults
      BY <1>0, <1>3, HandlerAges
    <3>2. ~Fault
      BY BoundsAssumption DEF Fault, IvyTyped
    <3> QED BY <3>1, <3>2 DEF WordInv
  <2>2. CASE Upsert(p)
    BY <2>1, <2>2, UpsertKeepsWords
  <2>3. CASE FindCandidates(p) \/ DeleteEntity(p)
    BY <2>1, <2>3, FindCandidatesKeepsWords, DeleteEntityKeepsWords
  <2>4. CASE ListStrategies(p) \/ Sweep(p)
    BY <2>1, <2>4, ListStrategiesKeepsWords, SweepKeepsWords
  <2> QED BY <1>3, <2>1, <2>2, <2>3, <2>4, ElseKeepsWords
<1>4. CASE Tick \/ UNCHANGED vars
  <2>1. UNCHANGED <<case, position, step, h, entities, faults>> /\ Marks
    BY <1>4, SameMarks DEF Tick, vars, consumer, ivy
  <2>2. Words => Words'
    <3> SUFFICES ASSUME Words PROVE Words'
      OBVIOUS
    <3>1. log' = log /\ (\A q : Offsets(q)' = Offsets(q)) /\ \A p : Message(p)' = Message(p)
      BY <2>1, LogStays DEF Message
    <3>2. \A p \in Partitions : Deleting(p)'
      BY <2>1, <3>1, WordsStay DEF Deleting, Words
    <3>3. Gone'
      BY <2>1, WordsStay DEF Gone, Words
    <3>4. ASSUME NEW q \in Partitions, NEW k \in DOMAIN entities, NEW o \in Offsets(q)
          PROVE  LastExec(q, k, o)' /\ OwnDeleted(q, k, o)'
      <4>1. /\ Stages(log[q][o], k)' <=> Stages(log[q][o], k)
            /\ DeletesOwn(log[q][o], k)' <=> DeletesOwn(log[q][o], k)
            /\ Only(q, k)' <=> Only(q, k)
            /\ NoneStagesAfter(q, k, o)' <=> NoneStagesAfter(q, k, o)
        BY <2>1, <3>1, WordsStay DEF Stages, DeletesOwn, Deletes
      <4>2. /\ Alone(k)' <=> Alone(k)
            /\ Unstaged(q, o)' <=> Unstaged(q, o)
            /\ Due(q, o, k)' <=> Due(q, o, k)
        BY <2>1 DEF Alone, Unstaged, Due, Unread
      <4>3. LastExec(q, k, o) /\ OwnDeleted(q, k, o)
        BY DEF Words
      <4> QED BY <2>1, <3>1, <4>1, <4>2, <4>3 DEF LastExec, OwnDeleted
    <3> QED BY <2>1, <3>1, <3>2, <3>3, <3>4 DEF Words
  <2> QED BY <2>1, <2>2 DEF WordInv
<1> QED BY <1>1, <1>2, <1>3, <1>4 DEF Next, Loop

\* A set of offsets has a greatest one.
LEMMA GreatestOffset ==
  ASSUME NEW n \in Nat, NEW S \in SUBSET (1..n), S # {}
  PROVE  Max(S) \in S /\ \A y \in S : y <= Max(S)
<1> DEFINE T == {b \in 0..n : \A y \in S : y <= b}
<1>1. T \in SUBSET Nat /\ n \in T
  OBVIOUS
<1>2. PICK b \in T : \A c \in T : b <= c
  BY <1>1, LeastNatural
<1>3. b \in S
  <2>1. ASSUME b \notin S PROVE FALSE
    <3>1. PICK y \in S : TRUE
      OBVIOUS
    <3>2. y <= b /\ y # b /\ y \in 1..n
      BY <2>1, <3>1
    <3>3. b - 1 \in 0..n
      BY <3>2
    <3>4. \A x \in S : x <= b - 1
      BY <2>1
    <3> QED BY <1>2, <3>3, <3>4
  <2> QED BY <2>1
<1>4. \E x \in S : \A y \in S : x >= y
  BY <1>3
<1>5. Max(S) \in S /\ \A y \in S : Max(S) >= y
  BY <1>4 DEF Max
<1> QED BY <1>5

LEMMA WordsHold ==
  ASSUME FInv, WordInv
  PROVE  LastWordHolds
<1> SUFFICES ASSUME Ended, faults = 0, NEW k \in DOMAIN entities, NEW p \in Sources(k), Cardinality(Sources(k)) = 1
    PROVE  /\ entities[k].deleted =>
                 \E q \in Partitions : \E o \in {x \in Offsets(q) : Parses(q, x)} :
                    Reason(log[q][o], k, log[p][Max({x \in Offsets(p) : Stages(log[p][x], k)})].exec)
           /\ DeletesOwn(log[p][LastAbout(p, k)], k) /\ Alone(k) => entities[k].deleted
  BY DEF LastWordHolds, Reason, CountsDays
<1>0. Words /\ HandlerShape /\ p \in Partitions
  BY DEF WordInv, FInv, Sources
<1>1. Only(p, k)
  <2>1. Single(k)
    <3>1. Cardinality(Sources(k)) \in Nat => ~(1 > 1)
      OBVIOUS
    <3> QED BY ManySources
  <2> QED BY <2>1 DEF Single, Only
<1>2. Len(log[p]) \in Nat /\ position[p] = Len(log[p]) /\ step[p] = "fetch"
  BY <1>0, LengthIsNat DEF Ended, AtEnd
<1>3. ASSUME NEW o \in Offsets(p) PROVE ~Unstaged(p, o) /\ ~Due(p, o, k)
  BY <1>2 DEF Unstaged, Due, Unread, Offsets
<1>4. ASSUME entities[k].deleted
      PROVE  \E q \in Partitions : \E o \in {x \in Offsets(q) : Parses(q, x)} :
                Reason(log[q][o], k, log[p][Max({x \in Offsets(p) : Stages(log[p][x], k)})].exec)
  <2>1. PICK S, a : S = {x \in Offsets(p) : Stages(log[p][x], k)} /\ a = Max(S)
    OBVIOUS
  <2>2. S # {} /\ S \in SUBSET (1..Len(log[p]))
    BY <2>1 DEF Sources, Offsets
  <2>3. a \in S /\ \A y \in S : y <= a
    BY <1>2, <2>1, <2>2, GreatestOffset
  <2>4. a \in Offsets(p) /\ Stages(log[p][a], k) /\ NoneStagesAfter(p, k, a)
    BY <2>1, <2>3 DEF NoneStagesAfter
  <2>5. entities[k].exec = log[p][a].exec
    BY <1>0, <1>1, <1>3, <2>4 DEF Words, LastExec
  <2>6. PICK exec : exec = entities[k].exec /\ Reasoned(k, exec)
    BY <1>0, <1>4 DEF Words, Gone
  <2> QED BY <2>1, <2>5, <2>6 DEF Reasoned
<1>5. ASSUME DeletesOwn(log[p][LastAbout(p, k)], k), Alone(k) PROVE entities[k].deleted
  <2>1. PICK S, a : S = {o \in Offsets(p) : Stages(log[p][o], k) \/ Deletes(log[p][o], k)} /\ a = Max(S)
    OBVIOUS
  <2>2. S # {} /\ S \in SUBSET (1..Len(log[p]))
    BY <2>1 DEF Sources, Offsets
  <2>3. a \in S /\ \A y \in S : y <= a
    BY <1>2, <2>1, <2>2, GreatestOffset
  <2>4. a \in Offsets(p) /\ NoneStagesAfter(p, k, a) /\ DeletesOwn(log[p][a], k)
    BY <1>5, <2>1, <2>3 DEF NoneStagesAfter, LastAbout
  <2> QED BY <1>0, <1>1, <1>3, <1>5, <2>4 DEF Words, OwnDeleted
<1> QED BY <1>4, <1>5

\* For any logs, strategies, interleavings, restarts and redeliveries, without a failed
\* statement: when everything is read, an entity that one partition stages is gone only
\* if a message deletes its id, a strategy counts days, or the completion of another
\* execution of its plan than the one that last staged it was read; and it is gone if
\* the last message about it deletes it by naming its plan, and no other row can be meant.
THEOREM LastWordIsKept == Spec => []LastWordHolds
<1>1. Spec => [](CInv /\ InHand /\ WithinLog)
  BY IvyImplementsConsumer, ConsumerInvariant, WithinLogInvariant, PTL
<1>2. WithinLog => restarts \in Nat
  BY DEF WithinLog
<1>3. Init => FInv /\ PairInv /\ IvyTyped /\ WordInv
  BY InitFInv, InitPairInv, InitIvyTyped, InitWords DEF WordInv
<1>4. CInv /\ InHand /\ WithinLog /\ FInv /\ PairInv /\ IvyTyped /\ WordInv /\ [Next]_vars
        => FInv' /\ PairInv' /\ IvyTyped' /\ WordInv'
  BY <1>2, FInvStep, PairInvStep, IvyTypedStep, WordInvStep
<1>5. FInv /\ WordInv => LastWordHolds
  BY WordsHold
<1> QED BY <1>1, <1>3, <1>4, <1>5, PTL DEF Spec
=============================================================================
