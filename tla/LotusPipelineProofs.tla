------------------------ MODULE LotusPipelineProofs ------------------------
(***************************************************************************)
(* Proofs about Lotus around its mapping engine, for any log, bindings,    *)
(* operators, faults and restarts.                                         *)
(***************************************************************************)
EXTENDS LotusPipeline, KafkaConsumerProofs, FiniteSetTheorems

-----------------------------------------------------------------------------
(* The inductive invariants *)

\* The handler's record, whenever it is not idle.
HandlerShape ==
    h = Idle \/ /\ DOMAIN h = {"pc", "left", "item", "path", "todo", "rows"}
                /\ h.pc \in {"item", "list", "install", "match", "bind"}
                /\ step[P] = "handle"

\* What is owed is owed for a record ahead of the reader, for the one in hand, not
\* handled yet or bound to one of the bindings still to be dealt with, or for one that
\* a reader without a committed offset started behind.
OwedAhead ==
    \A x \in owed :
        /\ x = <<x[1], x[2], x[3]>> /\ x[1] \in Nat /\ Parses(P, x[1])
        /\ \/ x[1] \in skipped[P]
           \/ x[1] > position[P]
           \/ /\ x[1] = position[P]
              /\ \/ step[P] \in {"parse", "call"}
                 \/ h # Idle /\ h.pc = "bind" /\ x[2] = h.item /\ x[3] \in DOMAIN h.todo

\* f has the configuration that each watched binding had at the start.
Keeps(f) == \A b \in Watched : b \in DOMAIN f /\ f[b] = InitRows[b]

OpShape ==
    /\ op \in [Operators -> {Idle} \union [pc : {"tell", "write"}, b : Edited, c : Configs]
                                   \union [pc : {"forget"}, b : Edited]]
    /\ refresh = Idle \/ (DOMAIN refresh = {"pc", "rows"} /\ refresh.pc = "read")

\* The watched bindings are in the table, in what the loaders have read, and from
\* the first load on in the matcher.
WatchedKept ==
    /\ Keeps(rows)
    /\ loaded => Keeps(matcher)
    /\ refresh # Idle => Keeps(refresh.rows)
    /\ h # Idle /\ h.pc = "install" => Keeps(h.rows)
    /\ dbErrors = 0 /\ h # Idle /\ h.pc \in {"match", "bind"} => loaded
    /\ dbErrors \in Nat
    /\ dbErrors = 0 => missed = {}

\* Writers of the matcher that are under way.
Installing == h # Idle /\ h.pc = "install"
Refreshing == refresh # Idle
Requesting(p) == op[p] # Idle

\* Until writers overlap at most one is under way, and it makes the matcher what
\* the table is.
OneWriter ==
    /\ ~(Installing /\ Refreshing)
    /\ \A p \in Operators : Requesting(p) =>
         ~Installing /\ ~Refreshing /\ \A q \in Operators : Requesting(q) => q = p
Agreement ==
    /\ Installing => h.rows = Enabled(rows)
    /\ Refreshing => refresh.rows = Enabled(rows)
    /\ loaded /\ (\A p \in Operators : op[p] = Idle \/ op[p].pc = "write") => matcher = Enabled(rows)
    /\ \A p \in Operators :
         /\ Requesting(p) /\ op[p].pc = "tell" /\ loaded =>
              UpdateBinding(matcher, op[p].b, op[p].c) = Enabled(rows)
         /\ Requesting(p) /\ op[p].pc = "forget" /\ loaded =>
              RemoveBinding(matcher, op[p].b) = Enabled(rows)
Serial == overlap \/ (OneWriter /\ Agreement)

LInv == HandlerShape /\ OwedAhead /\ OpShape /\ WatchedKept /\ Serial

-----------------------------------------------------------------------------
(* Lotus's handler runs on the consume loop *)

LEMMA PartitionP == P \in Partitions
<1>1. Partitions # {}
  BY OneProcess, FS_EmptySet
<1> QED BY <1>1 DEF P

\* A new process.
Dies == Resume(P) /\ Fresh

\* Steps of the operators and of time.
Beside ==
    \/ \E p \in Operators : Api(p)
    \/ \E mp \in Mappings : Expire(mp) \/ \E v \in Versions, on \in BOOLEAN : Upsert(mp, v, on)

LEMMA LotusCases ==
  ASSUME [Next]_vars
  PROVE  \/ (ConsumerStep(P) \/ Flush(P) \/ UNCHANGED consumer) /\ UNCHANGED lotus
         \/ Receive
         \/ HandlerStep /\ ~Panic
         \/ Dies
         \/ RefreshList \/ RefreshLoad
         \/ Beside
<1>1. Panic => Dies
  BY DEF Panic, Dies
<1>2. Crash => Dies
  BY DEF Crash, Restart, Dies
<1>3. UNCHANGED vars => UNCHANGED lotus /\ UNCHANGED consumer
  BY DEF vars
<1>4. CASE HandlerStep
  BY <1>1, <1>4 DEF HandlerStep, Handler
<1> QED BY <1>1, <1>2, <1>3, <1>4 DEF Next, Loop, Refresher, Beside

LEMMA LotusStepOnLoop == [Next]_vars => [ConsumerNext]_consumer
<1> SUFFICES ASSUME [Next]_vars PROVE [ConsumerNext]_consumer
  OBVIOUS
<1> USE PartitionP
<1>1. CASE Loop
  BY <1>1 DEF Loop, Receive, ConsumerNext
<1>2. CASE HandlerStep
  <2>1. CASE Passthrough \/ LastItem
    BY <2>1 DEF Passthrough, LastItem, ConsumerNext
  <2>2. CASE NextItem \/ ListBindings \/ InstallBindings \/ Match \/ Delivered
    BY <2>2 DEF NextItem, ListBindings, InstallBindings, Match, Delivered
  <2>3. CASE Panic
    BY <2>3 DEF Panic, ConsumerNext
  <2>4. ASSUME NEW b, NEW outcome, Deliver(b, outcome) PROVE UNCHANGED consumer
    BY <2>4 DEF Deliver
  <2> QED BY <1>2, <2>1, <2>2, <2>3, <2>4 DEF HandlerStep, Handler
<1>3. CASE Flush(P) \/ Crash
  BY <1>3 DEF Crash, ConsumerNext
<1>4. CASE UNCHANGED vars
  BY <1>4 DEF vars
<1>5. CASE Refresher
  BY <1>5 DEF Refresher, RefreshList, RefreshLoad
<1>6. ASSUME NEW p \in Operators, Api(p) PROVE UNCHANGED consumer
  BY <1>6 DEF Api, Create, UpdateRead, UpdateWrite, Delete, Tell, Request
<1>7. ASSUME NEW mp \in Mappings, Expire(mp) PROVE UNCHANGED consumer
  BY <1>7 DEF Expire
<1>8. ASSUME NEW mp \in Mappings, NEW v \in Versions, NEW on \in BOOLEAN, Upsert(mp, v, on)
      PROVE  UNCHANGED consumer
  BY <1>8 DEF Upsert
<1> QED BY <1>1, <1>2, <1>3, <1>4, <1>5, <1>6, <1>7, <1>8 DEF Next

\* Lotus implements the consume loop with any handler.
THEOREM LotusImplementsConsumer == Spec => ConsumerSpec
<1>1. Init => ConsumerInit
  BY DEF Init
<1> QED BY <1>1, LotusStepOnLoop, PTL DEF Spec, ConsumerSpec

\* No crash, panic or restart of Lotus makes the group skip a message once an offset
\* of the partition has been committed.
THEOREM LotusSkipsNothing == Spec => []CommitAfterHandler
  BY LotusImplementsConsumer, ConsumerSkipsNothing, PTL

-----------------------------------------------------------------------------
(* The handler and what it owes *)

LEMMA InitShapes == Init => HandlerShape /\ OwedAhead /\ OpShape
  BY DEF Init, HandlerShape, OwedAhead, OpShape

\* A handler that is at work is not idle, and has all its fields.
LEMMA AtWork ==
  ASSUME HandlerShape, NEW pc, Handling(pc), pc # "idle"
  PROVE  h # Idle /\ DOMAIN h = {"pc", "left", "item", "path", "todo", "rows"}
  BY DEF HandlerShape, Handling, Idle

LEMMA HandlerShapeStep ==
  ASSUME HandlerShape, Shape, [Next]_vars
  PROVE  HandlerShape'
<1> USE PartitionP
<1>1. CASE (ConsumerStep(P) \/ Flush(P) \/ UNCHANGED consumer) /\ UNCHANGED lotus
  <2>1. h = Idle => h' = Idle
    BY <1>1 DEF lotus
  <2>2. step[P] = "handle" => step'[P] = "handle"
    BY <1>1 DEF ConsumerStep, Fetch, Parse, Commit, Goes, Flush, consumer
  <2> QED BY <1>1, <2>1, <2>2 DEF HandlerShape, lotus
<1>2. CASE Receive
  BY <1>2 DEF Receive, Call, Goes, HandlerShape, Shape
<1>3. CASE HandlerStep /\ ~Panic
  <2> USE DEF HandlerShape, Idle
  <2>1. CASE Passthrough \/ LastItem
    BY <2>1 DEF Passthrough, LastItem
  <2>2. CASE NextItem
    BY <2>2, AtWork DEF NextItem, Handling, consumer
  <2>3. CASE ListBindings
    BY <2>3, AtWork DEF ListBindings, Handling, consumer
  <2>4. CASE InstallBindings
    BY <2>4, AtWork DEF InstallBindings, Handling, consumer
  <2>5. CASE Match
    BY <2>5, AtWork DEF Match, Handling, consumer
  <2>6. CASE Delivered
    BY <2>6, AtWork DEF Delivered, Handling, consumer
  <2>7. ASSUME NEW b, NEW outcome, Deliver(b, outcome) PROVE HandlerShape'
    BY <2>7, AtWork DEF Deliver, Handling, consumer
  <2> QED BY <1>3, <2>1, <2>2, <2>3, <2>4, <2>5, <2>6, <2>7 DEF HandlerStep, Handler
<1>4. CASE Dies
  BY <1>4 DEF Dies, Fresh, HandlerShape
<1>5. CASE RefreshList \/ RefreshLoad
  BY <1>5 DEF RefreshList, RefreshLoad, HandlerShape, consumer
<1>6. CASE Beside
  <2>1. UNCHANGED <<h, step>>
    BY <1>6 DEF Beside, Api, Create, UpdateRead, UpdateWrite, Delete, Tell, Request, Expire, Upsert, consumer
  <2> QED BY <2>1 DEF HandlerShape
<1> QED BY <1>1, <1>2, <1>3, <1>4, <1>5, <1>6, LotusCases

\* The position of a record that is owed, through every step.
LEMMA OwedAheadStep ==
  ASSUME OwedAhead, HandlerShape, CInv, InHand, [Next]_vars
  PROVE  OwedAhead'
<1> USE PartitionP
<1>0. UNCHANGED case /\ \A o : Parses(P, o)' <=> Parses(P, o)
  <2>1. UNCHANGED case
    BY LotusStepOnLoop DEF ConsumerNext, consumer, ConsumerStep, Fetch, Parse, Commit, Call, Return,
                           Flush, Restart, Resume
  <2> QED BY <2>1 DEF Parses, log
<1>1. CASE (ConsumerStep(P) \/ Flush(P) \/ UNCHANGED consumer) /\ UNCHANGED lotus
  <2> SUFFICES ASSUME NEW x \in owed, x[1] \notin skipped[P]
               PROVE  \/ x[1] > position'[P]
                      \/ /\ x[1] = position'[P]
                         /\ \/ step'[P] \in {"parse", "call"}
                            \/ h # Idle /\ h.pc = "bind" /\ x[2] = h.item /\ x[3] \in DOMAIN h.todo
    <3>1. skipped' = skipped
      BY <1>1 DEF ConsumerStep, Fetch, Parse, Commit, Flush, consumer
    <3> QED BY <1>0, <1>1, <3>1 DEF OwedAhead, lotus
  <2>0. x[1] \in Nat /\ Parses(P, x[1]) /\ position[P] \in Nat
    BY DEF OwedAhead, CInv, Shape
  <2>1. CASE Fetch(P)
    <3>1. h = Idle /\ position'[P] = position[P] + 1 /\ step'[P] = "parse" /\ step[P] = "fetch"
      BY <2>1 DEF Fetch, Goes, HandlerShape, CInv, Shape
    <3>2. x[1] > position[P]
      BY <3>1 DEF OwedAhead
    <3> QED BY <2>0, <3>1, <3>2
  <2>2. CASE Parse(P)
    <3>1. h = Idle /\ position'[P] = position[P] /\ step[P] = "parse"
      BY <2>2 DEF Parse, Goes, HandlerShape
    <3>2. Parses(P, position[P]) => step'[P] = "call"
      BY <2>2 DEF Parse, Goes, CInv, Shape
    <3>3. x[1] > position[P] \/ x[1] = position[P]
      BY DEF OwedAhead
    <3> QED BY <2>0, <3>1, <3>2, <3>3
  <2>3. CASE Commit(P)
    BY <2>3 DEF Commit, Goes, HandlerShape, OwedAhead
  <2>4. CASE Flush(P) \/ UNCHANGED consumer
    BY <2>4 DEF Flush, consumer, OwedAhead
  <2> QED BY <1>1, <2>1, <2>2, <2>3, <2>4 DEF ConsumerStep
<1>2. CASE Receive
  BY <1>0, <1>2 DEF Receive, Call, OwedAhead
<1>3. CASE HandlerStep /\ ~Panic
  <2>1. ASSUME h.pc # "bind", UNCHANGED <<owed, position, skipped>> PROVE OwedAhead'
    <3>1. \A x \in owed : x[1] > position[P] \/ x[1] \in skipped[P]
      BY <1>3, <2>1 DEF OwedAhead, HandlerStep
    <3> QED BY <1>0, <2>1, <3>1 DEF OwedAhead
  <2>2. CASE Passthrough \/ LastItem
    BY <2>1, <2>2 DEF Passthrough, LastItem, Handling, Return
  <2>3. CASE NextItem \/ ListBindings \/ InstallBindings
    BY <2>1, <2>3 DEF NextItem, ListBindings, InstallBindings, Handling, consumer
  <2>4. CASE Match
    <3> DEFINE hits == {b \in DOMAIN matcher : Score(matcher[b].filter, Msg, h.path) > 0}
    <3>1. h # Idle /\ h.pc = "match" /\ DOMAIN h = {"pc", "left", "item", "path", "todo", "rows"}
      BY <2>4, AtWork DEF Match, Handling
    <3>2. /\ owed' = owed \union {<<position[P], h.item, b>> : b \in hits}
          /\ h' = [h EXCEPT !.pc = "bind", !.todo = [b \in hits |-> matcher[b]]]
          /\ UNCHANGED consumer /\ step[P] = "handle"
      BY <2>4 DEF Match, Handling
    <3> HIDE DEF hits
    <3>3. h'.pc = "bind" /\ h'.item = h.item /\ DOMAIN h'.todo = hits /\ h' # Idle
      BY <3>1, <3>2 DEF Idle
    <3>4. \A x \in owed : x[1] > position[P] \/ x[1] \in skipped[P]
      BY <3>1, <3>2 DEF OwedAhead
    <3>5. Parses(P, position[P]) /\ position[P] \in Nat
      BY <3>2 DEF InHand, CInv, Shape
    <3>6. UNCHANGED <<position, skipped>>
      BY <3>2 DEF consumer
    <3> SUFFICES ASSUME NEW x \in owed'
                 PROVE  /\ x = <<x[1], x[2], x[3]>> /\ x[1] \in Nat /\ Parses(P, x[1])'
                        /\ \/ x[1] \in skipped'[P]
                           \/ x[1] > position'[P]
                           \/ /\ x[1] = position'[P]
                              /\ h' # Idle /\ h'.pc = "bind" /\ x[2] = h'.item /\ x[3] \in DOMAIN h'.todo
      BY DEF OwedAhead
    <3>7. CASE x \in owed
      BY <1>0, <3>4, <3>6, <3>7 DEF OwedAhead
    <3>8. CASE x \notin owed
      <4>1. PICK b \in hits : x = <<position[P], h.item, b>>
        BY <3>2, <3>8
      <4> QED BY <1>0, <3>3, <3>5, <3>6, <4>1
    <3> QED BY <3>7, <3>8
  <2>5. CASE Delivered
    <3>1. h.pc = "bind" /\ h.todo = <<>> /\ DOMAIN h.todo = {} /\ UNCHANGED <<owed, position, skipped>>
      BY <2>5 DEF Delivered, Handling, consumer
    <3>2. \A x \in owed : x[1] > position[P] \/ x[1] \in skipped[P]
      BY <1>3, <3>1 DEF OwedAhead, HandlerStep
    <3> QED BY <1>0, <3>1, <3>2 DEF OwedAhead
  <2>6. ASSUME NEW b, NEW outcome, Deliver(b, outcome) PROVE OwedAhead'
    <3>1. /\ h # Idle /\ h.pc = "bind" /\ DOMAIN h = {"pc", "left", "item", "path", "todo", "rows"}
          /\ step[P] = "handle"
      BY <2>6, AtWork DEF Deliver, Handling
    <3>2. /\ owed' = owed \ {<<position[P], h.item, b>>}
          /\ h' = [h EXCEPT !.todo = [x \in DOMAIN h.todo \ {b} |-> h.todo[x]]]
          /\ UNCHANGED <<position, step, skipped>>
      BY <2>6 DEF Deliver, consumer
    <3>3. h'.pc = "bind" /\ h'.item = h.item /\ DOMAIN h'.todo = DOMAIN h.todo \ {b} /\ h' # Idle
      BY <3>1, <3>2 DEF Idle
    <3> SUFFICES ASSUME NEW x \in owed'
                 PROVE  /\ x = <<x[1], x[2], x[3]>> /\ x[1] \in Nat /\ Parses(P, x[1])'
                        /\ \/ x[1] \in skipped'[P]
                           \/ x[1] > position'[P]
                           \/ /\ x[1] = position'[P]
                              /\ h' # Idle /\ h'.pc = "bind" /\ x[2] = h'.item /\ x[3] \in DOMAIN h'.todo
      BY DEF OwedAhead
    <3>4. x \in owed /\ x # <<position[P], h.item, b>>
      BY <3>2
    <3>5. x = <<x[1], x[2], x[3]>> /\ x[1] \in Nat /\ Parses(P, x[1])'
      BY <1>0, <3>4 DEF OwedAhead
    <3>6. \/ x[1] \in skipped[P] \/ x[1] > position[P]
          \/ x[1] = position[P] /\ x[2] = h.item /\ x[3] \in DOMAIN h.todo
      BY <3>1, <3>4 DEF OwedAhead
    <3> QED BY <3>2, <3>3, <3>4, <3>5, <3>6
  <2> QED BY <1>3, <2>2, <2>3, <2>4, <2>5, <2>6 DEF HandlerStep, Handler
<1>4. CASE Dies
  <2>1. PICK o \in Starts(P) : /\ position' = [position EXCEPT ![P] = o]
                              /\ skipped' = [skipped EXCEPT ![P] = @ \union (committed[P] + 1)..o]
    BY <1>4 DEF Dies, Resume
  <2>2. position'[P] = o /\ skipped'[P] = skipped[P] \union (committed[P] + 1)..o /\ UNCHANGED owed
    BY <1>4, <2>1 DEF Dies, Fresh, CInv, Shape
  <2>3. o \in Nat
    BY StartsAhead DEF CInv
  <2>4. committed[P] \in Nat /\ position[P] \in Nat /\ marked[P] \in Nat
        /\ committed[P] <= marked[P] /\ marked[P] <= position[P]
    BY DEF CInv, Shape, Behind
  <2>5. ASSUME NEW x \in owed PROVE x[1] \in skipped'[P] \/ x[1] > position'[P]
    <3>0. x[1] \in Nat
      BY DEF OwedAhead
    <3>1. CASE x[1] \in skipped[P]
      BY <2>2, <3>1
    <3>2. CASE x[1] > committed[P]
      BY <2>2, <2>3, <2>4, <3>0, <3>2
    <3>3. CASE x[1] > position[P]
      BY <2>4, <3>0, <3>2, <3>3
    <3>4. CASE x[1] = position[P] /\ step[P] \in {"parse", "call", "handle"}
      <4>1. marked[P] < position[P]
        BY <3>4 DEF InHand
      <4> QED BY <2>4, <3>0, <3>2, <3>4, <4>1
    <3> QED BY <3>1, <3>3, <3>4 DEF OwedAhead, HandlerShape
  <2> QED BY <1>0, <2>2, <2>5 DEF OwedAhead
<1>5. CASE RefreshList \/ RefreshLoad
  BY <1>5 DEF RefreshList, RefreshLoad, OwedAhead, consumer, Parses, log
<1>6. CASE Beside
  <2>1. UNCHANGED <<h, step, position, owed, skipped>>
    BY <1>6 DEF Beside, Api, Create, UpdateRead, UpdateWrite, Delete, Tell, Request, Expire, Upsert, consumer
  <2> QED BY <1>0, <2>1 DEF OwedAhead
<1> QED BY <1>1, <1>2, <1>3, <1>4, <1>5, <1>6, LotusCases

LEMMA HandlerInvariant == Spec => [](CInv /\ InHand /\ HandlerShape /\ OwedAhead)
<1>1. Spec => [](CInv /\ InHand)
  BY LotusImplementsConsumer, ConsumerInvariant, PTL
<1>2. CInv /\ HandlerShape /\ [Next]_vars => HandlerShape'
  BY HandlerShapeStep DEF CInv
<1> QED BY <1>1, <1>2, InitShapes, OwedAheadStep, PTL DEF Spec

\* For any log, bindings and crashes: when an offset is committed, every record of
\* it has been delivered to every binding that matched it, unless a process that found
\* no committed offset started behind it.
THEOREM CommittedIsDelivered == Spec => []MatchedIsAccountedFor
<1>1. ASSUME CInv, InHand, HandlerShape, OwedAhead PROVE MatchedIsAccountedFor
  <2> SUFFICES ASSUME NEW x \in owed, x[1] \notin skipped[P] PROVE x[1] > committed[P]
    BY DEF MatchedIsAccountedFor
  <2> USE PartitionP, <1>1
  <2>1. /\ committed[P] \in Nat /\ position[P] \in Nat /\ marked[P] \in Nat /\ x[1] \in Nat
        /\ committed[P] <= marked[P] /\ marked[P] <= position[P]
    BY DEF CInv, Shape, Behind, OwedAhead
  <2>2. CASE x[1] > position[P]
    BY <2>1, <2>2
  <2>3. CASE x[1] = position[P] /\ step[P] \in {"parse", "call", "handle"}
    BY <2>1, <2>3 DEF InHand
  <2> QED BY <2>2, <2>3 DEF OwedAhead, HandlerShape
<1> QED BY <1>1, HandlerInvariant, PTL

-----------------------------------------------------------------------------
(* The bindings that nobody touches *)

LEMMA OpShapeStep ==
  ASSUME OpShape, [Next]_vars
  PROVE  OpShape'
<1> USE DEF OpShape
<1>1. CASE UNCHANGED <<op, refresh>>
  BY <1>1
<1>2. CASE Dies
  BY <1>2 DEF Dies, Fresh
<1>3. CASE RefreshList \/ RefreshLoad
  BY <1>3 DEF RefreshList, RefreshLoad
<1>4. ASSUME NEW p \in Operators, Api(p) PROVE OpShape'
  <2>1. ASSUME NEW b \in Edited, NEW c \in Configs, Create(p, b, c) \/ UpdateRead(p, b, c)
        PROVE  OpShape'
    BY <2>1 DEF Create, UpdateRead, Request
  <2>2. ASSUME NEW b \in Edited, Delete(p, b) PROVE OpShape'
    BY <2>2 DEF Delete, Request
  <2>3. CASE UpdateWrite(p)
    <3>1. op[p] \in [pc : {"tell", "write"}, b : Edited, c : Configs]
      BY <2>3 DEF UpdateWrite, Idle
    <3>2. [op[p] EXCEPT !.pc = "tell"] \in [pc : {"tell", "write"}, b : Edited, c : Configs]
      BY <3>1
    <3>3. op' = [op EXCEPT ![p] = [op[p] EXCEPT !.pc = "tell"]] \/ op' = [op EXCEPT ![p] = Idle]
      BY <2>3 DEF UpdateWrite
    <3> QED BY <2>3, <3>2, <3>3 DEF UpdateWrite
  <2>4. CASE Tell(p)
    BY <2>4 DEF Tell
  <2> QED BY <1>4, <2>1, <2>2, <2>3, <2>4 DEF Api
<1>5. CASE Receive \/ (HandlerStep /\ ~Panic)
  <2>1. UNCHANGED <<op, refresh>>
    BY <1>5 DEF Receive, HandlerStep, Handler, Passthrough, NextItem, LastItem, ListBindings,
                InstallBindings, Match, Delivered, Deliver
  <2> QED BY <1>1, <2>1
<1>6. CASE UNCHANGED lotus
  BY <1>1, <1>6 DEF lotus
<1>7. ASSUME NEW mp \in Mappings, Expire(mp) \/ \E v \in Versions, on \in BOOLEAN : Upsert(mp, v, on)
      PROVE  OpShape'
  BY <1>1, <1>7 DEF Expire, Upsert
<1> QED BY <1>2, <1>3, <1>4, <1>5, <1>6, <1>7, LotusCases DEF Beside

\* The watched bindings are enabled, and no request is about one of them.
LEMMA WatchedFacts ==
  /\ \A b \in Watched : b \in DOMAIN InitRows /\ InitRows[b].on /\ b \notin Edited
  /\ \A r : Keeps(r) => Keeps(Enabled(r))
<1>1. \A b \in Watched : b \in DOMAIN InitRows /\ InitRows[b].on /\ b \notin Edited
  BY DEF Watched
<1>2. ASSUME NEW r, Keeps(r) PROVE Keeps(Enabled(r))
  BY <1>1, <1>2 DEF Keeps, Enabled
<1> QED BY <1>1, <1>2

LEMMA InitWatched == Init => WatchedKept
  BY DEF Init, WatchedKept, Keeps, Watched, Idle

LEMMA WatchedKeptStep ==
  ASSUME WatchedKept, HandlerShape, OpShape, [Next]_vars
  PROVE  WatchedKept'
<1> USE DEF WatchedKept
<1>1. CASE UNCHANGED lotus
  BY <1>1 DEF lotus, Keeps
<1>2. CASE Receive
  BY <1>2 DEF Receive, Idle, Keeps
<1>3. CASE HandlerStep /\ ~Panic
  <2>1. CASE Passthrough \/ LastItem
    <3>1. h' = Idle /\ UNCHANGED <<rows, matcher, loaded, refresh, dbErrors, missed>>
      BY <2>1 DEF Passthrough, LastItem
    <3> QED BY <3>1 DEF Keeps
  <2>2. CASE NextItem
    BY <2>2, AtWork DEF NextItem, Handling
  <2>3. CASE ListBindings
    <3>0. h # Idle /\ DOMAIN h = {"pc", "left", "item", "path", "todo", "rows"} /\ h.pc = "list"
      BY <2>3, AtWork DEF ListBindings, Handling
    <3>1. CASE h' = [h EXCEPT !.pc = "install", !.rows = Enabled(rows)] /\ UNCHANGED dbErrors
      <4>1. h'.pc = "install" /\ h'.rows = Enabled(rows)
        BY <3>0, <3>1
      <4> QED BY <2>3, <3>1, <4>1, WatchedFacts DEF ListBindings, Keeps
    <3>2. CASE dbErrors' = dbErrors + 1 /\ h' = [h EXCEPT !.pc = "match"]
      <4>1. h'.pc = "match" /\ dbErrors' \in Nat /\ dbErrors' # 0
        BY <3>0, <3>2
      <4> QED BY <2>3, <3>2, <4>1 DEF ListBindings, Keeps
    <3> QED BY <2>3, <3>1, <3>2 DEF ListBindings
  <2>4. CASE InstallBindings
    <3>0. h # Idle /\ DOMAIN h = {"pc", "left", "item", "path", "todo", "rows"} /\ h.pc = "install"
      BY <2>4, AtWork DEF InstallBindings, Handling
    <3>1. Keeps(matcher') /\ h'.pc = "match"
      BY <2>4, <3>0 DEF InstallBindings, Keeps
    <3> QED BY <2>4, <3>1 DEF InstallBindings, Keeps
  <2>5. CASE Match
    <3>0. h # Idle /\ DOMAIN h = {"pc", "left", "item", "path", "todo", "rows"} /\ h.pc = "match"
      BY <2>5, AtWork DEF Match, Handling
    <3> DEFINE hits == {b \in DOMAIN matcher : Score(matcher[b].filter, Msg, h.path) > 0}
               due == {x \in Watched : Score(InitRows[x].filter, Msg, h.path) > 0}
    <3>1. /\ missed' = missed \union {<<position[P], h.item, b>> : b \in due \ hits}
          /\ h' = [h EXCEPT !.pc = "bind", !.todo = [b \in hits |-> matcher[b]]]
          /\ UNCHANGED <<rows, matcher, loaded, refresh, dbErrors>>
      BY <2>5 DEF Match
    <3>2. dbErrors = 0 => due \ hits = {}
      BY <3>0 DEF Keeps
    <3> HIDE DEF hits, due
    <3>3. h'.pc = "bind"
      BY <3>0, <3>1
    <3>4. dbErrors' = 0 => missed' = {}
      BY <3>1, <3>2
    <3> QED BY <3>0, <3>1, <3>3, <3>4 DEF Keeps
  <2>6. CASE Delivered
    BY <2>6, AtWork DEF Delivered, Handling
  <2>7. ASSUME NEW b, NEW outcome, Deliver(b, outcome) PROVE WatchedKept'
    <3>0. h # Idle /\ DOMAIN h = {"pc", "left", "item", "path", "todo", "rows"} /\ h.pc = "bind"
      BY <2>7, AtWork DEF Deliver, Handling
    <3>1. h'.pc = "bind" /\ UNCHANGED <<rows, matcher, loaded, refresh, dbErrors, missed>>
      BY <2>7, <3>0 DEF Deliver
    <3> QED BY <3>0, <3>1 DEF Keeps
  <2> QED BY <1>3, <2>1, <2>2, <2>3, <2>4, <2>5, <2>6, <2>7 DEF HandlerStep, Handler
<1>4. CASE Dies
  BY <1>4 DEF Dies, Fresh, Keeps, Idle
<1>5. CASE RefreshList
  <2>1. Keeps(Enabled(rows)) /\ refresh'.rows = Enabled(rows)
    BY <1>5, WatchedFacts DEF RefreshList
  <2> QED BY <1>5, <2>1 DEF RefreshList, Keeps
<1>6. CASE RefreshLoad
  BY <1>6 DEF RefreshLoad, Keeps
<1>7. ASSUME NEW p \in Operators, Api(p) PROVE WatchedKept'
  <2>0. op[p] # Idle => op[p].b \in Edited
    BY DEF OpShape
  <2>1. ASSUME NEW b \in Edited, NEW c \in Configs, Create(p, b, c) PROVE WatchedKept'
    <3>1. Keeps(rows')
      BY <2>1, WatchedFacts DEF Create, Keeps
    <3> QED BY <2>1, <3>1 DEF Create, Request, Keeps
  <2>2. ASSUME NEW b \in Edited, NEW c \in Configs, UpdateRead(p, b, c) PROVE WatchedKept'
    BY <2>2 DEF UpdateRead, Request, Keeps
  <2>3. ASSUME NEW b \in Edited, Delete(p, b) PROVE WatchedKept'
    <3>1. Keeps(rows')
      BY <2>3, WatchedFacts DEF Delete, Keeps
    <3> QED BY <2>3, <3>1 DEF Delete, Request, Keeps
  <2>4. CASE UpdateWrite(p)
    <3>1. op[p] # Idle
      BY <2>4 DEF UpdateWrite, Idle
    <3>2. Keeps(rows')
      BY <2>0, <2>4, <3>1, WatchedFacts DEF UpdateWrite, Keeps
    <3> QED BY <2>4, <3>2 DEF UpdateWrite, Keeps
  <2>5. CASE Tell(p)
    <3>1. op[p] # Idle
      BY <2>5 DEF Tell, Idle
    <3>2. Keeps(matcher) => Keeps(matcher')
      BY <2>0, <2>5, <3>1, WatchedFacts DEF Tell, Keeps, UpdateBinding, RemoveBinding
    <3> QED BY <2>5, <3>2 DEF Tell, Keeps
  <2> QED BY <1>7, <2>1, <2>2, <2>3, <2>4, <2>5 DEF Api
<1>8. ASSUME NEW mp \in Mappings, Expire(mp) \/ \E v \in Versions, on \in BOOLEAN : Upsert(mp, v, on)
      PROVE  WatchedKept'
  BY <1>8 DEF Expire, Upsert, Keeps
<1> QED BY <1>1, <1>2, <1>3, <1>4, <1>5, <1>6, <1>7, <1>8, LotusCases DEF Beside

\* For any requests about other bindings, refreshes, crashes and panics: unless a
\* load failed, a binding that nobody touches gets every record that it matches.
THEOREM UntouchedAreServed == Spec => []UntouchedSeeAll
<1>1. WatchedKept => UntouchedSeeAll
  BY DEF WatchedKept, UntouchedSeeAll
<1> QED BY <1>1, InitShapes, InitWatched, HandlerInvariant, OpShapeStep, WatchedKeptStep, PTL DEF Spec

-----------------------------------------------------------------------------
(* The matcher and the table *)

\* What the HTTP handlers do to the matcher is what they did to the table.
LEMMA UpdateAgrees ==
  ASSUME NEW r, NEW s, NEW b, NEW c, DOMAIN s = DOMAIN r \union {b}, s[b] = c,
         \A x \in DOMAIN r : x # b => s[x] = r[x]
  PROVE  UpdateBinding(Enabled(r), b, c) = Enabled(s)
  BY DEF UpdateBinding, Enabled

LEMMA RemoveAgrees ==
  ASSUME NEW r, NEW s, NEW b, DOMAIN s = DOMAIN r \ {b}, \A x \in DOMAIN s : s[x] = r[x]
  PROVE  RemoveBinding(Enabled(r), b) = Enabled(s)
  BY DEF RemoveBinding, Enabled

LEMMA NoWriters ==
  ASSUME ~(Writers > 0)
  PROVE  ~Installing /\ ~Refreshing /\ \A p \in Operators : ~Requesting(p)
<1> DEFINE busy == {p \in Operators : op[p] # Idle}
           r == IF refresh # Idle THEN 1 ELSE 0
           i == IF h.pc = "install" THEN 1 ELSE 0
<1>1. IsFiniteSet(busy) /\ Cardinality(busy) \in Nat
  BY FS_Subset, FS_CardinalityType, FiniteOperators
<1>2. Writers = Cardinality(busy) + r + i
  BY DEF Writers
<1>3. r \in {0, 1} /\ i \in {0, 1}
  OBVIOUS
<1>4. Cardinality(busy) = 0 /\ r = 0 /\ i = 0
  <2> HIDE DEF busy, r, i
  <2> QED BY <1>1, <1>2, <1>3
<1>5. busy = {}
  BY <1>1, <1>4, FS_EmptySet
<1>6. ~Refreshing /\ ~Installing
  BY <1>4 DEF Refreshing, Installing
<1> QED BY <1>5, <1>6 DEF Requesting

\* A step that begins a write marks an overlap unless it is alone.
LEMMA BeginsAlone ==
  ASSUME overlap' = (overlap \/ Writers > 0), ~overlap'
  PROVE  ~overlap /\ ~Installing /\ ~Refreshing /\ \A p \in Operators : ~Requesting(p)
<1>1. ~overlap /\ ~(Writers > 0)
  OBVIOUS
<1> QED BY <1>1, NoWriters

LEMMA InitSerial == Init => Serial
<1> SUFFICES ASSUME Init PROVE OneWriter /\ Agreement
  BY DEF Serial
<1>1. ~Installing /\ ~Refreshing /\ ~loaded /\ \A p \in Operators : ~Requesting(p)
  BY DEF Init, Installing, Refreshing, Requesting
<1> QED BY <1>1 DEF OneWriter, Agreement

\* The handler and the restarts.
LEMMA SerialHandler ==
  ASSUME Serial, HandlerShape, Receive \/ (HandlerStep /\ ~Panic) \/ Dies, ~overlap'
  PROVE  OneWriter' /\ Agreement'
<1>1. ASSUME ~Installing', UNCHANGED <<rows, matcher, loaded, refresh, op, overlap>>
      PROVE  OneWriter' /\ Agreement'
  BY <1>1 DEF Serial, OneWriter, Agreement, Installing, Refreshing, Requesting, UpdateBinding,
              RemoveBinding, Enabled
<1>2. CASE Receive
  <2>1. ~Installing' /\ UNCHANGED <<rows, matcher, loaded, refresh, op, overlap>>
    BY <1>2 DEF Receive, Installing
  <2> QED BY <1>1, <2>1
<1>3. CASE Passthrough \/ LastItem
  <2>1. ~Installing' /\ UNCHANGED <<rows, matcher, loaded, refresh, op, overlap>>
    BY <1>3 DEF Passthrough, LastItem, Installing
  <2> QED BY <1>1, <2>1
<1>4. CASE NextItem \/ Match \/ Delivered
  <2>1. ~Installing' /\ UNCHANGED <<rows, matcher, loaded, refresh, op, overlap>>
    BY <1>4, AtWork DEF NextItem, Match, Delivered, Handling, Installing
  <2> QED BY <1>1, <2>1
<1>5. ASSUME NEW b, NEW outcome, Deliver(b, outcome) PROVE OneWriter' /\ Agreement'
  <2>1. ~Installing' /\ UNCHANGED <<rows, matcher, loaded, refresh, op, overlap>>
    BY <1>5, AtWork DEF Deliver, Handling, Installing
  <2> QED BY <1>1, <2>1
<1>6. CASE ListBindings
  <2>0. h # Idle /\ DOMAIN h = {"pc", "left", "item", "path", "todo", "rows"}
    BY <1>6, AtWork DEF ListBindings, Handling
  <2>00. UNCHANGED <<rows, matcher, loaded, refresh, op>>
    BY <1>6 DEF ListBindings
  <2>1. CASE h' = [h EXCEPT !.pc = "install", !.rows = Enabled(rows)] /\ overlap' = (overlap \/ Writers > 0)
    <3>1. ~overlap /\ ~Installing /\ ~Refreshing /\ \A p \in Operators : ~Requesting(p)
      BY <2>1, BeginsAlone
    <3>2. h'.rows = Enabled(rows)'
      BY <2>0, <2>00, <2>1 DEF Enabled
    <3>3. OneWriter'
      BY <2>00, <3>1 DEF OneWriter, Refreshing, Requesting
    <3>4. loaded => matcher = Enabled(rows)
      BY <3>1 DEF Serial, Agreement, Requesting
    <3>5. Agreement'
      BY <2>00, <3>1, <3>2, <3>4 DEF Agreement, Refreshing, Requesting, Enabled
    <3> QED BY <3>3, <3>5
  <2>2. CASE h' = [h EXCEPT !.pc = "match"] /\ UNCHANGED overlap
    <3>1. ~Installing'
      BY <2>0, <2>2 DEF Installing
    <3> QED BY <1>1, <2>00, <2>2, <3>1
  <2> QED BY <1>6, <2>1, <2>2 DEF ListBindings
<1>7. CASE InstallBindings
  <2>0. h # Idle /\ DOMAIN h = {"pc", "left", "item", "path", "todo", "rows"} /\ h.pc = "install"
    BY <1>7, AtWork DEF InstallBindings, Handling
  <2>1. /\ matcher' = h.rows /\ UNCHANGED <<rows, refresh, op, overlap>>
        /\ h' = [h EXCEPT !.pc = "match", !.rows = <<>>]
    BY <1>7 DEF InstallBindings
  <2>2. ~Installing' /\ Installing
    BY <2>0, <2>1 DEF Installing
  <2>3. h.rows = Enabled(rows) /\ ~Refreshing /\ \A p \in Operators : ~Requesting(p)
    BY <2>1, <2>2 DEF Serial, OneWriter, Agreement
  <2> QED BY <2>1, <2>2, <2>3 DEF OneWriter, Agreement, Refreshing, Requesting, Enabled
<1>8. CASE Dies
  <2>1. ~Installing' /\ ~Refreshing' /\ ~loaded' /\ \A p \in Operators : ~Requesting(p)'
    BY <1>8 DEF Dies, Fresh, Installing, Refreshing, Requesting
  <2> QED BY <2>1 DEF OneWriter, Agreement
<1> QED BY <1>2, <1>3, <1>4, <1>5, <1>6, <1>7, <1>8 DEF HandlerStep, Handler

\* The refresh loop.
LEMMA SerialRefresh ==
  ASSUME Serial, RefreshList \/ RefreshLoad, ~overlap'
  PROVE  OneWriter' /\ Agreement'
<1>1. CASE RefreshList
  <2>1. ~overlap /\ ~Installing /\ ~Refreshing /\ \A p \in Operators : ~Requesting(p)
    BY <1>1, BeginsAlone DEF RefreshList
  <2>2. refresh'.rows = Enabled(rows) /\ UNCHANGED <<rows, matcher, loaded, h, op>>
    BY <1>1 DEF RefreshList
  <2>3. loaded => matcher = Enabled(rows)
    BY <2>1 DEF Serial, Agreement, Requesting
  <2>4. OneWriter'
    BY <2>1, <2>2 DEF OneWriter, Installing, Requesting
  <2>5. Agreement'
    BY <2>1, <2>2, <2>3 DEF Agreement, Installing, Requesting, Enabled
  <2> QED BY <2>4, <2>5
<1>2. CASE RefreshLoad
  <2>1. Refreshing /\ matcher' = refresh.rows /\ refresh' = Idle /\ UNCHANGED <<rows, loaded, h, op, overlap>>
    BY <1>2 DEF RefreshLoad, Refreshing
  <2>2. refresh.rows = Enabled(rows) /\ ~Installing /\ \A p \in Operators : ~Requesting(p)
    BY <2>1 DEF Serial, OneWriter, Agreement
  <2> QED BY <2>1, <2>2 DEF OneWriter, Agreement, Installing, Refreshing, Requesting, Enabled
<1> QED BY <1>1, <1>2

\* The requests.
LEMMA SerialApi ==
  ASSUME Serial, OpShape, NEW p \in Operators, Api(p), ~overlap'
  PROVE  OneWriter' /\ Agreement'
<1>1. ASSUME NEW o, op' = [op EXCEPT ![p] = o], o # Idle,
             overlap' = (overlap \/ Writers > 0), UNCHANGED <<matcher, loaded, h, refresh>>
      PROVE  /\ op'[p] = o /\ (\A q \in Operators : q # p => op'[q] = Idle)
             /\ ~Installing' /\ ~Refreshing'
             /\ OneWriter'
             /\ loaded => matcher = Enabled(rows)
  <2>1. ~overlap /\ ~Installing /\ ~Refreshing /\ \A q \in Operators : ~Requesting(q)
    BY <1>1, BeginsAlone
  <2>2. op'[p] = o /\ \A q \in Operators : q # p => op'[q] = Idle
    BY <1>1, <2>1 DEF OpShape, Requesting
  <2>3. ~Installing' /\ ~Refreshing'
    BY <1>1, <2>1 DEF Installing, Refreshing
  <2>4. OneWriter'
    BY <1>1, <2>2, <2>3 DEF OneWriter, Requesting
  <2>5. loaded => matcher = Enabled(rows)
    BY <2>1 DEF Serial, Agreement, Requesting
  <2> QED BY <2>2, <2>3, <2>4, <2>5
<1>2. ASSUME NEW b \in Edited, NEW c \in Configs, Create(p, b, c) PROVE OneWriter' /\ Agreement'
  <2> DEFINE o == [pc |-> "tell", b |-> b, c |-> c]
  <2>1. /\ op' = [op EXCEPT ![p] = o] /\ overlap' = (overlap \/ Writers > 0)
        /\ UNCHANGED <<matcher, loaded, h, refresh>>
        /\ rows' = [x \in DOMAIN rows \union {b} |-> IF x = b THEN c ELSE rows[x]]
    BY <1>2 DEF Create, Request
  <2>2. o # Idle /\ o.pc = "tell" /\ o.b = b /\ o.c = c
    BY DEF Idle
  <2> HIDE DEF o
  <2>3. /\ op'[p] = o /\ (\A q \in Operators : q # p => op'[q] = Idle)
        /\ ~Installing' /\ ~Refreshing' /\ OneWriter' /\ (loaded => matcher = Enabled(rows))
    BY <1>1, <2>1, <2>2
  <2>4. UpdateBinding(Enabled(rows), b, c) = Enabled(rows')
    BY <2>1, UpdateAgrees
  <2> QED BY <2>1, <2>2, <2>3, <2>4 DEF Agreement, Requesting
<1>3. ASSUME NEW b \in Edited, NEW c \in Configs, UpdateRead(p, b, c) PROVE OneWriter' /\ Agreement'
  <2> DEFINE o == [pc |-> "write", b |-> b, c |-> c]
  <2>1. /\ op' = [op EXCEPT ![p] = o] /\ overlap' = (overlap \/ Writers > 0)
        /\ UNCHANGED <<matcher, loaded, h, refresh, rows>>
    BY <1>3 DEF UpdateRead, Request
  <2>2. o # Idle /\ o.pc = "write"
    BY DEF Idle
  <2> HIDE DEF o
  <2>3. /\ op'[p] = o /\ (\A q \in Operators : q # p => op'[q] = Idle)
        /\ ~Installing' /\ ~Refreshing' /\ OneWriter' /\ (loaded => matcher = Enabled(rows))
    BY <1>1, <2>1, <2>2
  <2> QED BY <2>1, <2>2, <2>3 DEF Agreement, Requesting
<1>4. ASSUME NEW b \in Edited, Delete(p, b) PROVE OneWriter' /\ Agreement'
  <2> DEFINE o == [pc |-> "forget", b |-> b]
  <2>1. /\ op' = [op EXCEPT ![p] = o] /\ overlap' = (overlap \/ Writers > 0)
        /\ UNCHANGED <<matcher, loaded, h, refresh>>
        /\ rows' = [x \in DOMAIN rows \ {b} |-> rows[x]]
    BY <1>4 DEF Delete, Request
  <2>2. o # Idle /\ o.pc = "forget" /\ o.b = b
    BY DEF Idle
  <2> HIDE DEF o
  <2>3. /\ op'[p] = o /\ (\A q \in Operators : q # p => op'[q] = Idle)
        /\ ~Installing' /\ ~Refreshing' /\ OneWriter' /\ (loaded => matcher = Enabled(rows))
    BY <1>1, <2>1, <2>2
  <2>4. RemoveBinding(Enabled(rows), b) = Enabled(rows')
    BY <2>1, RemoveAgrees
  <2> QED BY <2>1, <2>2, <2>3, <2>4 DEF Agreement, Requesting
<1>5. CASE UpdateWrite(p)
  <2> DEFINE b == op[p].b
             c == op[p].c
  <2>1. op[p].pc = "write" /\ UNCHANGED <<matcher, loaded, h, refresh, overlap>>
    BY <1>5 DEF UpdateWrite
  <2>2. Requesting(p)
    BY <2>1 DEF Requesting, Idle
  <2>3. /\ \A q \in Operators : q # p => op[q] = Idle
        /\ ~Installing /\ ~Refreshing /\ (loaded => matcher = Enabled(rows))
    BY <2>1, <2>2 DEF Serial, OneWriter, Agreement, Requesting
  <2>4. \A q \in Operators : q # p => op'[q] = Idle
    BY <1>5, <2>3 DEF UpdateWrite, OpShape
  <2>5. ~Installing' /\ ~Refreshing' /\ OneWriter'
    BY <2>1, <2>3, <2>4 DEF Installing, Refreshing, OneWriter, Requesting
  <2>6. CASE b \in DOMAIN rows
    <3>1. rows' = [rows EXCEPT ![b] = c] /\ op' = [op EXCEPT ![p] = [op[p] EXCEPT !.pc = "tell"]]
      BY <1>5, <2>6 DEF UpdateWrite
    <3>2. op[p] \in [pc : {"tell", "write"}, b : Edited, c : Configs]
      BY <2>1 DEF OpShape, Idle
    <3>3. op'[p].pc = "tell" /\ op'[p].b = b /\ op'[p].c = c
      BY <3>1, <3>2 DEF OpShape
    <3> HIDE DEF b, c
    <3>4. /\ DOMAIN rows' = DOMAIN rows \union {b} /\ rows'[b] = c
          /\ \A x \in DOMAIN rows : x # b => rows'[x] = rows[x]
      BY <2>6, <3>1
    <3>5. UpdateBinding(Enabled(rows), b, c) = Enabled(rows')
      BY <3>4, UpdateAgrees
    <3>6. op'[p] # Idle /\ op'[p].pc # "write" /\ op'[p].pc # "forget"
      BY <3>3 DEF Idle
    <3>7. loaded' => UpdateBinding(matcher', op'[p].b, op'[p].c) = Enabled(rows')
      BY <2>1, <2>3, <3>3, <3>5
    <3> QED BY <2>4, <2>5, <3>6, <3>7 DEF Agreement, Requesting
  <2>7. CASE b \notin DOMAIN rows
    <3>1. op'[p] = Idle /\ UNCHANGED rows
      BY <1>5, <2>7 DEF UpdateWrite, OpShape
    <3> QED BY <2>1, <2>3, <2>4, <2>5, <3>1 DEF Agreement, Requesting
  <2> QED BY <2>6, <2>7
<1>6. CASE Tell(p)
  <2>1. op[p].pc \in {"tell", "forget"} /\ UNCHANGED <<rows, loaded, h, refresh, overlap>>
    BY <1>6 DEF Tell
  <2>2. Requesting(p)
    BY <2>1 DEF Requesting, Idle
  <2>3. /\ \A q \in Operators : q # p => op[q] = Idle
        /\ ~Installing /\ ~Refreshing
    BY <2>1, <2>2 DEF Serial, OneWriter, Requesting
  <2>4. loaded => matcher' = Enabled(rows)
    BY <1>6, <2>1, <2>2 DEF Tell, Serial, Agreement
  <2>5. \A q \in Operators : op'[q] = Idle
    BY <1>6, <2>3 DEF Tell, OpShape
  <2> QED BY <2>1, <2>3, <2>4, <2>5
          DEF OneWriter, Agreement, Installing, Refreshing, Requesting, Enabled
<1> QED BY <1>2, <1>3, <1>4, <1>5, <1>6 DEF Api

LEMMA SerialStep ==
  ASSUME Serial, HandlerShape, OpShape, [Next]_vars
  PROVE  Serial'
<1> SUFFICES ASSUME ~overlap' PROVE OneWriter' /\ Agreement'
  BY DEF Serial
<1>1. CASE UNCHANGED <<rows, matcher, loaded, h, refresh, op, overlap>>
  BY <1>1 DEF Serial, OneWriter, Agreement, Installing, Refreshing, Requesting, UpdateBinding,
              RemoveBinding, Enabled
<1>2. CASE UNCHANGED lotus
  BY <1>1, <1>2 DEF lotus
<1>3. ASSUME NEW mp \in Mappings, Expire(mp) \/ \E v \in Versions, on \in BOOLEAN : Upsert(mp, v, on)
      PROVE  OneWriter' /\ Agreement'
  BY <1>1, <1>3 DEF Expire, Upsert
<1>4. CASE RefreshList \/ RefreshLoad
  BY <1>4, SerialRefresh
<1>5. ASSUME NEW p \in Operators, Api(p) PROVE OneWriter' /\ Agreement'
  BY <1>5, SerialApi
<1>6. CASE Receive \/ (HandlerStep /\ ~Panic) \/ Dies
  BY <1>6, SerialHandler
<1> QED BY <1>2, <1>3, <1>4, <1>5, <1>6, LotusCases DEF Beside

\* For any operators, requests, refreshes and restarts: as long as no two writers
\* of the matcher have overlapped, the matcher has exactly the enabled bindings of
\* the table whenever no writer is under way.
THEOREM SerialWritersAgree == Spec => []MatcherAgrees
<1>1. Serial => MatcherAgrees
  <2> SUFFICES ASSUME Serial, loaded, ~overlap, Writers = 0 PROVE matcher = Enabled(rows)
    BY DEF MatcherAgrees
  <2>1. ~(Writers > 0)
    OBVIOUS
  <2>2. \A p \in Operators : op[p] = Idle
    BY <2>1, NoWriters DEF Requesting
  <2> QED BY <2>2 DEF Serial, Agreement
<1> QED BY <1>1, InitShapes, InitSerial, HandlerInvariant, OpShapeStep, SerialStep, PTL DEF Spec

-----------------------------------------------------------------------------
(* Types *)

\* Bindings of the API with their mappings, and those that a matcher may hold.
Known(f) == DOMAIN f \subseteq Bindings /\ \A b \in DOMAIN f : f[b].mapping \in Mappings
Held(f) == Known(f) /\ \A b \in DOMAIN f : f[b].on

TablesTyped ==
    /\ Known(rows) /\ Held(matcher)
    /\ Refreshing => Held(refresh.rows)
    /\ Installing => Held(h.rows)
    /\ h # Idle => \A b \in DOMAIN h.todo : h.todo[b].mapping \in Mappings
CacheFits == DOMAIN cache \subseteq Mappings /\ IsFiniteSet(DOMAIN cache) /\ Cardinality(DOMAIN cache) <= CacheMax
Counted == loaded \in BOOLEAN /\ overlap \in BOOLEAN /\ writes \in 0..MaxWrites /\ dbErrors \in 0..MaxFaults
Busy == step[P] = "handle" => h # Idle

LotusTyped == TablesTyped /\ CacheFits /\ Counted /\ Busy

LEMMA InitLotusTyped == Init => LotusTyped
<1> SUFFICES ASSUME Init PROVE LotusTyped
  OBVIOUS
<1>1. DOMAIN <<>> = {} /\ IsFiniteSet({}) /\ Cardinality({}) = 0
  BY FS_EmptySet
<1>2. TablesTyped
  <2>1. Known(rows)
    BY BindingsAssumption DEF Init, Known
  <2>2. Held(matcher)
    BY <1>1 DEF Init, Held, Known
  <2> QED BY <2>1, <2>2 DEF Init, TablesTyped, Refreshing, Installing
<1>3. CacheFits
  BY <1>1, CacheAssumption DEF Init, CacheFits
<1>4. Counted
  <2>1. loaded = FALSE /\ overlap = FALSE /\ writes = 0 /\ dbErrors = 0
    BY DEF Init
  <2>2. loaded \in BOOLEAN /\ overlap \in BOOLEAN
    BY <2>1
  <2>3. writes \in 0..MaxWrites /\ dbErrors \in 0..MaxFaults
    BY <2>1, BoundsAssumption
  <2> QED BY <2>2, <2>3 DEF Counted
<1>5. Busy
  <2>1. step[P] = "fetch"
    BY PartitionP DEF Init, ConsumerInit, Everywhere
  <2> QED BY <2>1 DEF Busy
<1> QED BY <1>2, <1>3, <1>4, <1>5 DEF LotusTyped

\* What the loaders read, and what requests tell the matcher.
LEMMA EnabledHeld == Known(rows) => Held(Enabled(rows))
  BY DEF Known, Held, Enabled

LEMMA UpdateHeld ==
  ASSUME NEW f, Held(f), NEW b \in Bindings, NEW c, c.mapping \in Mappings
  PROVE  Held(UpdateBinding(f, b, c)) /\ Held(RemoveBinding(f, b))
<1>1. CASE c.on
  <2>1. /\ DOMAIN UpdateBinding(f, b, c) = DOMAIN f \union {b}
        /\ \A x \in DOMAIN f \union {b} : UpdateBinding(f, b, c)[x] = IF x = b THEN c ELSE f[x]
    BY <1>1 DEF UpdateBinding
  <2> QED BY <1>1, <2>1 DEF Held, Known, RemoveBinding
<1>2. CASE ~c.on
  <2>1. /\ DOMAIN UpdateBinding(f, b, c) = DOMAIN f \ {b}
        /\ \A x \in DOMAIN f \ {b} : UpdateBinding(f, b, c)[x] = f[x]
    BY <1>2 DEF UpdateBinding
  <2> QED BY <2>1 DEF Held, Known, RemoveBinding
<1> QED BY <1>1, <1>2

\* A step of the handler, with the rest of its record.
LEMMA HandlerTyped ==
  ASSUME TablesTyped, HandlerShape, HandlerStep, ~Panic
  PROVE  TablesTyped'
<1>1. ASSUME UNCHANGED <<rows, matcher, refresh>>, h' = Idle PROVE TablesTyped'
  BY <1>1 DEF TablesTyped, Held, Known, Refreshing, Installing
<1>2. ASSUME UNCHANGED <<rows, matcher, refresh>>, h # Idle, h'.pc # "install", h'.todo = h.todo PROVE TablesTyped'
  BY <1>2 DEF TablesTyped, Held, Known, Refreshing, Installing
<1>3. CASE Passthrough \/ LastItem
  BY <1>1, <1>3 DEF Passthrough, LastItem
<1>4. CASE NextItem
  <2>1. h # Idle /\ DOMAIN h = {"pc", "left", "item", "path", "todo", "rows"}
    BY <1>4, AtWork DEF NextItem
  <2> QED BY <1>2, <1>4, <2>1 DEF NextItem
<1>5. CASE ListBindings
  <2>1. h # Idle /\ DOMAIN h = {"pc", "left", "item", "path", "todo", "rows"}
    BY <1>5, AtWork DEF ListBindings
  <2>2. CASE h' = [h EXCEPT !.pc = "install", !.rows = Enabled(rows)]
    <3>1. h'.rows = Enabled(rows) /\ h'.todo = h.todo /\ UNCHANGED <<rows, matcher, refresh>>
      BY <1>5, <2>1, <2>2 DEF ListBindings
    <3>2. Held(h.rows)'
      BY <3>1, EnabledHeld DEF TablesTyped
    <3> QED BY <2>1, <3>1, <3>2 DEF TablesTyped, Held, Known, Refreshing, Installing
  <2>3. CASE h' = [h EXCEPT !.pc = "match"]
    BY <1>2, <1>5, <2>1, <2>3 DEF ListBindings
  <2> QED BY <1>5, <2>2, <2>3 DEF ListBindings
<1>6. CASE InstallBindings
  <2>1. h # Idle /\ h.pc = "install" /\ DOMAIN h = {"pc", "left", "item", "path", "todo", "rows"}
    BY <1>6, AtWork DEF InstallBindings, Handling
  <2>2. matcher' = h.rows /\ h'.pc = "match" /\ h'.todo = h.todo /\ UNCHANGED <<rows, refresh>>
    BY <1>6, <2>1 DEF InstallBindings
  <2> QED BY <2>1, <2>2 DEF TablesTyped, Held, Known, Refreshing, Installing
<1>7. CASE Match
  <2>1. h # Idle /\ DOMAIN h = {"pc", "left", "item", "path", "todo", "rows"}
    BY <1>7, AtWork DEF Match
  <2>2. PICK hits : hits \subseteq DOMAIN matcher /\ h' = [h EXCEPT !.pc = "bind", !.todo = [b \in hits |-> matcher[b]]]
    BY <1>7 DEF Match
  <2>3. h'.pc = "bind" /\ h'.todo = [b \in hits |-> matcher[b]] /\ UNCHANGED <<rows, matcher, refresh>>
    BY <1>7, <2>1, <2>2 DEF Match
  <2> QED BY <2>2, <2>3 DEF TablesTyped, Held, Known, Refreshing, Installing
<1>8. CASE Delivered
  <2>1. h # Idle /\ DOMAIN h = {"pc", "left", "item", "path", "todo", "rows"}
    BY <1>8, AtWork DEF Delivered
  <2> QED BY <1>2, <1>8, <2>1 DEF Delivered
<1>9. ASSUME NEW b, NEW outcome, Deliver(b, outcome) PROVE TablesTyped'
  <2>1. h # Idle /\ h.pc = "bind" /\ DOMAIN h = {"pc", "left", "item", "path", "todo", "rows"}
    BY <1>9, AtWork DEF Deliver, Handling
  <2>2. /\ h'.pc = "bind" /\ h'.todo = [x \in DOMAIN h.todo \ {b} |-> h.todo[x]]
        /\ UNCHANGED <<rows, matcher, refresh>>
    BY <1>9, <2>1 DEF Deliver
  <2> QED BY <2>1, <2>2 DEF TablesTyped, Held, Known, Refreshing, Installing
<1> QED BY <1>3, <1>4, <1>5, <1>6, <1>7, <1>8, <1>9 DEF HandlerStep, Handler

\* A step of a request.
LEMMA ApiTyped ==
  ASSUME TablesTyped, OpShape, NEW p \in Operators, Api(p)
  PROVE  TablesTyped'
<1>1. UNCHANGED <<h, refresh>>
  BY DEF Api, Create, UpdateRead, UpdateWrite, Delete, Tell, Request
<1>2. ASSUME Known(rows)', Held(matcher)' PROVE TablesTyped'
  BY <1>1, <1>2 DEF TablesTyped, Held, Known, Refreshing, Installing
<1>3. ASSUME NEW b \in Edited, NEW c \in Configs, Create(p, b, c) PROVE TablesTyped'
  <2>1. rows' = [x \in DOMAIN rows \union {b} |-> IF x = b THEN c ELSE rows[x]] /\ UNCHANGED matcher
    BY <1>3 DEF Create, Request
  <2>2. Known(rows)'
    BY <2>1, BindingsAssumption DEF TablesTyped, Known
  <2>3. Held(matcher)'
    BY <2>1 DEF TablesTyped, Held, Known
  <2> QED BY <1>2, <2>2, <2>3
<1>4. ASSUME NEW b \in Edited, NEW c \in Configs, UpdateRead(p, b, c) PROVE TablesTyped'
  BY <1>2, <1>4 DEF UpdateRead, Request, TablesTyped, Held, Known
<1>5. ASSUME NEW b \in Edited, Delete(p, b) PROVE TablesTyped'
  <2>1. rows' = [x \in DOMAIN rows \ {b} |-> rows[x]] /\ UNCHANGED matcher
    BY <1>5 DEF Delete, Request
  <2> QED BY <1>2, <2>1 DEF TablesTyped, Held, Known
<1>6. CASE UpdateWrite(p)
  <2>1. op[p].b \in Edited /\ op[p].c \in Configs
    BY <1>6 DEF UpdateWrite, OpShape, Idle
  <2>2. UNCHANGED matcher /\ (UNCHANGED rows \/ rows' = [rows EXCEPT ![op[p].b] = op[p].c])
    BY <1>6 DEF UpdateWrite
  <2>3. Held(matcher)'
    BY <2>2 DEF TablesTyped, Held, Known
  <2>4. Known(rows)'
    BY <2>1, <2>2, BindingsAssumption DEF TablesTyped, Known
  <2> QED BY <1>2, <2>3, <2>4
<1>7. CASE Tell(p)
  <2>1. UNCHANGED rows /\ matcher' \in {UpdateBinding(matcher, op[p].b, op[p].c), RemoveBinding(matcher, op[p].b)}
    BY <1>7 DEF Tell
  <2>2. op[p].b \in Edited /\ (op[p].pc = "tell" => op[p].c \in Configs)
    BY <1>7 DEF Tell, OpShape, Idle
  <2>3. CASE op[p].pc = "tell"
    <3>1. op[p].c.mapping \in Mappings /\ op[p].b \in Bindings
      BY <2>2, <2>3, BindingsAssumption
    <3>2. Held(UpdateBinding(matcher, op[p].b, op[p].c)) /\ matcher' = UpdateBinding(matcher, op[p].b, op[p].c)
      BY <1>7, <2>3, <3>1, UpdateHeld DEF TablesTyped, Tell
    <3> QED BY <1>2, <2>1, <3>2 DEF TablesTyped, Held, Known
  <2>4. CASE op[p].pc = "forget"
    <3>1. matcher' = [x \in DOMAIN matcher \ {op[p].b} |-> matcher[x]]
      BY <1>7, <2>4 DEF Tell, RemoveBinding
    <3> QED BY <1>2, <2>1, <3>1 DEF TablesTyped, Held, Known
  <2> QED BY <1>7, <2>3, <2>4 DEF Tell
<1> QED BY <1>3, <1>4, <1>5, <1>6, <1>7 DEF Api

LEMMA TablesTypedStep ==
  ASSUME TablesTyped, HandlerShape, OpShape, [Next]_vars
  PROVE  TablesTyped'
<1>1. ASSUME UNCHANGED <<rows, matcher, refresh, h>> PROVE TablesTyped'
  BY <1>1 DEF TablesTyped, Held, Known, Refreshing, Installing
<1>2. CASE UNCHANGED lotus
  BY <1>1, <1>2 DEF lotus
<1>3. CASE Receive
  <2>1. h'.pc = "item" /\ h'.todo = <<>> /\ UNCHANGED <<rows, matcher, refresh>>
    BY <1>3 DEF Receive
  <2> QED BY <2>1 DEF TablesTyped, Held, Known, Refreshing, Installing
<1>4. CASE Dies
  <2>1. UNCHANGED rows /\ matcher' = <<>> /\ h' = Idle /\ refresh' = Idle
    BY <1>4 DEF Dies, Fresh
  <2> QED BY <2>1 DEF TablesTyped, Held, Known, Refreshing, Installing
<1>5. CASE RefreshList
  <2>1. refresh'.rows = Enabled(rows) /\ UNCHANGED <<rows, matcher, h>>
    BY <1>5 DEF RefreshList
  <2>2. Held(refresh.rows)'
    BY <2>1, EnabledHeld DEF TablesTyped
  <2> QED BY <2>1, <2>2 DEF TablesTyped, Held, Known, Refreshing, Installing
<1>6. CASE RefreshLoad
  BY <1>6 DEF RefreshLoad, TablesTyped, Held, Known, Refreshing, Installing
<1>7. ASSUME NEW mp \in Mappings, Expire(mp) \/ \E v \in Versions, on \in BOOLEAN : Upsert(mp, v, on)
      PROVE  TablesTyped'
  BY <1>1, <1>7 DEF Expire, Upsert
<1> QED BY <1>2, <1>3, <1>4, <1>5, <1>6, <1>7, HandlerTyped, ApiTyped, LotusCases DEF Beside

\* What evictHalf takes away is at least one entry.
LEMMA HalfIsSome ==
  ASSUME NEW n \in Nat
  PROVE  Max({1, n \div 2}) \in Nat /\ Max({1, n \div 2}) >= 1
<1>1. PICK k \in Nat : k = n \div 2
  OBVIOUS
<1>2. \E x \in {1, k} : \A y \in {1, k} : x >= y
  <2>1. CASE k <= 1
    BY <2>1
  <2>2. CASE k >= 1
    BY <2>2
  <2> QED BY <2>1, <2>2
<1>3. Max({1, k}) \in {1, k} /\ \A y \in {1, k} : Max({1, k}) >= y
  BY <1>2 DEF Max
<1> QED BY <1>1, <1>3

\* A set that loses something has room for one more.
LEMMA RoomForOne ==
  ASSUME NEW S, IsFiniteSet(S), NEW n \in Nat, NEW T \in SUBSET S, NEW x,
         Cardinality(S) < n \/ (Cardinality(S) <= n /\ Cardinality(S \ T) >= 1)
  PROVE  IsFiniteSet(T \union {x}) /\ Cardinality(T \union {x}) <= n
<1>1. IsFiniteSet(T) /\ Cardinality(T) <= Cardinality(S) /\ Cardinality(T) \in Nat /\ Cardinality(S) \in Nat
  BY FS_Subset, FS_CardinalityType
<1>2. IsFiniteSet(T \union {x}) /\ Cardinality(T \union {x}) <= Cardinality(T) + 1
  <2>1. IsFiniteSet(T \union {x}) /\ Cardinality(T \union {x}) = IF x \in T THEN Cardinality(T) ELSE Cardinality(T) + 1
    BY <1>1, FS_AddElement
  <2> QED BY <1>1, <2>1
<1>3. Cardinality(S \ T) >= 1 => Cardinality(T) < Cardinality(S)
  <2> SUFFICES ASSUME Cardinality(S \ T) >= 1 PROVE Cardinality(T) < Cardinality(S)
    OBVIOUS
  <2>1. S \ T # {}
    BY FS_EmptySet
  <2>2. T # S
    BY <2>1
  <2>3. Cardinality(T) # Cardinality(S)
    BY <2>2, FS_Subset
  <2> QED BY <1>1, <2>3
<1>4. Cardinality(T \union {x}) \in Nat
  BY <1>2, FS_CardinalityType
<1> QED BY <1>1, <1>2, <1>3, <1>4

\* A mapping that is loaded takes the place of another when the cache is full.
LEMMA LoadFits ==
  ASSUME CacheFits, NEW mp \in Mappings, NEW v, GetCompiledMapping(mp, v)
  PROVE  CacheFits'
<1>1. CASE UNCHANGED cache
  BY <1>1 DEF CacheFits
<1>2. ASSUME NEW keep \in Room, DOMAIN cache' = keep \union {mp} PROVE CacheFits'
  <2>1. PICK S, n : S = DOMAIN cache /\ n = Cardinality(S)
    OBVIOUS
  <2>2. IsFiniteSet(S) /\ n \in Nat /\ n <= CacheMax /\ S \subseteq Mappings
    BY <2>1, FS_CardinalityType DEF CacheFits
  <2>3. keep \in SUBSET S /\ (n < CacheMax \/ Cardinality(S \ keep) >= 1)
    <3>1. CASE n >= CacheMax
      <4>1. keep \in SUBSET S /\ Cardinality(S \ keep) = Max({1, n \div 2})
        BY <1>2, <2>1, <3>1 DEF Room, Evicted
      <4> QED BY <2>2, <4>1, HalfIsSome
    <3>2. CASE ~(n >= CacheMax)
      BY <1>2, <2>1, <2>2, <3>2, CacheAssumption DEF Room
    <3> QED BY <3>1, <3>2
  <2>4. IsFiniteSet(keep \union {mp}) /\ Cardinality(keep \union {mp}) <= CacheMax
    BY <2>1, <2>2, <2>3, CacheAssumption, RoomForOne
  <2> QED BY <1>2, <2>2, <2>3, <2>4 DEF CacheFits
<1>3. cache' = cache \/ \E keep \in Room : DOMAIN cache' = keep \union {mp}
  <2>1. cache' = cache \/ \E keep \in Room :
          cache' = [x \in keep \union {mp} |-> IF x = mp THEN [version |-> v, fresh |-> TRUE] ELSE cache[x]]
    BY DEF GetCompiledMapping
  <2> QED BY <2>1
<1> QED BY <1>1, <1>2, <1>3

LEMMA CacheFitsStep ==
  ASSUME CacheFits, TablesTyped, HandlerShape, [Next]_vars
  PROVE  CacheFits'
<1>1. ASSUME UNCHANGED cache PROVE CacheFits'
  BY <1>1 DEF CacheFits
<1>2. CASE UNCHANGED lotus
  BY <1>1, <1>2 DEF lotus
<1>3. CASE Receive \/ RefreshList \/ RefreshLoad
  BY <1>1, <1>3 DEF Receive, RefreshList, RefreshLoad
<1>4. CASE HandlerStep /\ ~Panic
  <2>1. ASSUME NEW b \in DOMAIN h.todo, NEW outcome, Deliver(b, outcome) PROVE CacheFits'
    <3>1. h # Idle
      BY <2>1, AtWork DEF Deliver
    <3>2. h.todo[b].mapping \in Mappings
      BY <2>1, <3>1 DEF TablesTyped
    <3>3. \E v \in Versions \union {0} : GetCompiledMapping(h.todo[b].mapping, v)
      BY <2>1 DEF Deliver
    <3> QED BY <3>2, <3>3, LoadFits
  <2>2. CASE \/ Passthrough \/ NextItem \/ LastItem \/ ListBindings \/ InstallBindings \/ Match \/ Delivered
    BY <1>1, <2>2 DEF Passthrough, NextItem, LastItem, ListBindings, InstallBindings, Match, Delivered
  <2> QED BY <1>4, <2>1, <2>2 DEF HandlerStep, Handler
<1>5. CASE Dies
  <2>1. cache' = <<>> /\ DOMAIN <<>> = {} /\ IsFiniteSet({}) /\ Cardinality({}) = 0
    BY <1>5, FS_EmptySet DEF Dies, Fresh
  <2> QED BY <2>1, CacheAssumption DEF CacheFits
<1>6. ASSUME NEW p \in Operators, Api(p) PROVE CacheFits'
  BY <1>1, <1>6 DEF Api, Create, UpdateRead, UpdateWrite, Delete, Tell, Request
<1>7. ASSUME NEW mp \in Mappings, Expire(mp) PROVE CacheFits'
  <2>1. DOMAIN cache' = DOMAIN cache
    BY <1>7 DEF Expire
  <2> QED BY <2>1 DEF CacheFits
<1>8. ASSUME NEW mp \in Mappings, NEW v \in Versions, NEW on \in BOOLEAN, Upsert(mp, v, on) PROVE CacheFits'
  BY <1>1, <1>8 DEF Upsert
<1> QED BY <1>2, <1>3, <1>4, <1>5, <1>6, <1>7, <1>8, LotusCases DEF Beside

LEMMA CountedStep ==
  ASSUME Counted, restarts \in Nat, [Next]_vars
  PROVE  Counted'
<1> USE BoundsAssumption DEF Counted
<1>1. CASE UNCHANGED <<loaded, overlap, writes, dbErrors>>
  BY <1>1
<1>2. CASE UNCHANGED lotus
  BY <1>2 DEF lotus
<1>3. CASE Receive \/ RefreshLoad
  BY <1>3 DEF Receive, RefreshLoad
<1>4. CASE RefreshList
  BY <1>4 DEF RefreshList
<1>5. CASE HandlerStep /\ ~Panic
  <2>1. CASE ListBindings
    <3>1. UNCHANGED <<loaded, writes>>
      BY <2>1 DEF ListBindings
    <3>2. overlap' \in BOOLEAN
      BY <2>1 DEF ListBindings
    <3>3. dbErrors' = dbErrors \/ (dbErrors + restarts < MaxFaults /\ dbErrors' = dbErrors + 1)
      BY <2>1 DEF ListBindings
    <3> QED BY <3>1, <3>2, <3>3
  <2>2. CASE InstallBindings
    BY <2>2 DEF InstallBindings
  <2>3. CASE \/ Passthrough \/ NextItem \/ LastItem \/ Match \/ Delivered
    BY <1>1, <2>3 DEF Passthrough, NextItem, LastItem, Match, Delivered
  <2>4. ASSUME NEW b, NEW outcome, Deliver(b, outcome) PROVE Counted'
    BY <2>4 DEF Deliver
  <2> QED BY <1>5, <2>1, <2>2, <2>3, <2>4 DEF HandlerStep, Handler
<1>6. CASE Dies
  BY <1>6 DEF Dies, Fresh
<1>7. ASSUME NEW p \in Operators, Api(p) PROVE Counted'
  <2>1. ASSUME Request(p) PROVE Counted'
    BY <2>1 DEF Request
  <2> QED BY <1>7, <2>1 DEF Api, Create, UpdateRead, UpdateWrite, Delete, Tell
<1>8. ASSUME NEW mp \in Mappings, Expire(mp) PROVE Counted'
  BY <1>8 DEF Expire
<1>9. ASSUME NEW mp \in Mappings, NEW v \in Versions, NEW on \in BOOLEAN, Upsert(mp, v, on) PROVE Counted'
  BY <1>9 DEF Upsert
<1> QED BY <1>2, <1>3, <1>4, <1>5, <1>6, <1>7, <1>8, <1>9, LotusCases DEF Beside

LEMMA BusyStep ==
  ASSUME Busy, HandlerShape, Shape, [Next]_vars
  PROVE  Busy'
<1> USE PartitionP
<1>1. ASSUME h' # Idle PROVE Busy'
  BY <1>1 DEF Busy
<1>2. ASSUME UNCHANGED <<h, step>> PROVE Busy'
  BY <1>2 DEF Busy
<1>3. ASSUME step'[P] # "handle" PROVE Busy'
  BY <1>3 DEF Busy
<1>4. CASE (ConsumerStep(P) \/ Flush(P) \/ UNCHANGED consumer) /\ UNCHANGED lotus
  <2>1. CASE ConsumerStep(P)
    BY <1>3, <2>1 DEF ConsumerStep, Fetch, Parse, Commit, Goes, Shape
  <2>2. CASE Flush(P) \/ UNCHANGED consumer
    BY <1>2, <1>4, <2>2 DEF Flush, consumer, lotus
  <2> QED BY <1>4, <2>1, <2>2
<1>5. CASE Receive
  <2>1. h'.pc = "item"
    BY <1>5 DEF Receive
  <2> QED BY <1>1, <2>1 DEF Idle
<1>6. CASE HandlerStep /\ ~Panic
  <2>1. CASE Passthrough \/ LastItem
    BY <1>3, <2>1 DEF Passthrough, LastItem, Return, Goes, Shape
  <2>2. CASE NextItem \/ ListBindings \/ InstallBindings \/ Match \/ Delivered
    <3>1. DOMAIN h = {"pc", "left", "item", "path", "todo", "rows"}
      BY <2>2, AtWork DEF NextItem, ListBindings, InstallBindings, Match, Delivered
    <3>2. DOMAIN h' = DOMAIN h
      BY <2>2 DEF NextItem, ListBindings, InstallBindings, Match, Delivered
    <3> QED BY <1>1, <3>1, <3>2 DEF Idle
  <2>3. ASSUME NEW b, NEW outcome, Deliver(b, outcome) PROVE Busy'
    <3>1. DOMAIN h = {"pc", "left", "item", "path", "todo", "rows"}
      BY <2>3, AtWork DEF Deliver
    <3>2. DOMAIN h' = DOMAIN h
      BY <2>3 DEF Deliver
    <3> QED BY <1>1, <3>1, <3>2 DEF Idle
  <2> QED BY <1>6, <2>1, <2>2, <2>3 DEF HandlerStep, Handler
<1>7. CASE Dies
  BY <1>3, <1>7 DEF Dies, Resume, Shape
<1>8. CASE RefreshList \/ RefreshLoad
  BY <1>2, <1>8 DEF RefreshList, RefreshLoad, consumer
<1>9. CASE Beside
  <2>1. UNCHANGED <<h, step>>
    BY <1>9 DEF Beside, Api, Create, UpdateRead, UpdateWrite, Delete, Tell, Request, Expire, Upsert, consumer
  <2> QED BY <1>2, <2>1
<1> QED BY <1>4, <1>5, <1>6, <1>7, <1>8, <1>9, LotusCases

\* For any log, bindings, operators and faults: the matcher holds only enabled bindings
\* of the API, whoever wrote it last, the mapping cache never outgrows its size, and a
\* handler runs exactly while the loop is in it.
THEOREM LotusTypes == Spec => []TypeOK
<1>1. Spec => []ConsumerTypeOK
  BY LotusImplementsConsumer, ConsumerTypes, PTL
<1>2. ConsumerTypeOK => restarts \in Nat
  BY KafkaConsumerAssumptions DEF ConsumerTypeOK
<1>3. Spec => [](CInv /\ InHand /\ HandlerShape /\ OwedAhead)
  BY HandlerInvariant
<1>4. CInv => Shape
  BY DEF CInv
<1>5. /\ LotusTyped /\ OpShape /\ HandlerShape /\ Shape /\ restarts \in Nat /\ [Next]_vars => LotusTyped'
      /\ OpShape /\ [Next]_vars => OpShape'
  BY TablesTypedStep, CacheFitsStep, CountedStep, BusyStep, OpShapeStep DEF LotusTyped
<1>6. ConsumerTypeOK /\ HandlerShape /\ LotusTyped => TypeOK
  <2> SUFFICES ASSUME ConsumerTypeOK, HandlerShape, LotusTyped PROVE TypeOK
    OBVIOUS
  <2>1. h.pc \in {"idle", "item", "list", "install", "match", "bind"}
    BY DEF HandlerShape, Idle
  <2>2. (h # Idle) = (step[P] = "handle")
    BY DEF HandlerShape, LotusTyped, Busy
  <2> QED BY <2>1, <2>2 DEF TypeOK, LotusTyped, TablesTyped, Held, Known, CacheFits, Counted
<1> QED BY <1>1, <1>2, <1>3, <1>4, <1>5, <1>6, InitLotusTyped, InitShapes, PTL DEF Spec
=============================================================================
