---------------------------- MODULE LotusPipeline ----------------------------
(***************************************************************************)
(* Lotus around its mapping engine, for one tenant: the message handler on *)
(* the consumer loop (lotus/pkg/processor), the matcher of bindings with   *)
(* the loader that refreshes it from the database, the cache of compiled   *)
(* mappings, and the HTTP handlers that write bindings and mappings.       *)
(*                                                                         *)
(* The handler runs on the one goroutine of the consumer; the refresh loop *)
(* and every HTTP request run beside it.  What a mapping makes of a record *)
(* is a choice: an error, one message, or a batch of two.                  *)
(***************************************************************************)
EXTENDS KafkaConsumer, SequencesExt, FiniteSetsExt, TLC

CONSTANTS
    Bindings,       \* identities of bindings
    Edited,         \* the bindings that the API is asked to write
    Mappings,       \* identities of mapping definitions
    Configs,        \* what the API writes into a binding: [on, mapping, topic, filter]
    InitRows,       \* the bindings at the start
    Operators,      \* callers of the HTTP API
    Versions,       \* versions of a mapping definition
    CacheMax,       \* MappingCacheConfig.MaxSize
    MaxWrites,      \* bound: API requests
    MaxFaults       \* bound: restarts and failed database calls of the loaders together

VARIABLES
    rows,       \* table bindings: identity -> config
    active,     \* table mapping_definitions: the active versions of each mapping
    matcher,    \* Matcher.bindings[tenant]
    loaded,     \* Processor.loadedTenants; the registry has the tenant from then on
    cache,      \* MappingCache.cache: mapping -> [version, fresh]
    h,          \* the handler: see Receive
    refresh,    \* the refresh loop: the rows it has read, or Idle
    op,         \* what each operator's request still has to do
    writes, dbErrors,
    owed,       \* history: <<offset, item, binding>> matched but not yet delivered
    missed,     \* history: <<offset, item, binding>> of Watched that Match did not return
    overlap     \* history: writers of the matcher have overlapped since the start

lotus == <<rows, active, matcher, loaded, cache, h, refresh, op, writes, dbErrors, owed, missed, overlap>>
vars == <<consumer, lotus>>

\* One process reads one partition: what the handler uses is in that process.
ASSUME OneProcess == Cardinality(Partitions) = 1
ASSUME TheService == Service = "lotus"
ASSUME FiniteOperators == IsFiniteSet(Operators)
\* A cache that may hold nothing is not what evictHalf is about.
ASSUME CacheAssumption == CacheMax \in Nat \ {0}
ASSUME BindingsAssumption ==
    /\ Edited \subseteq Bindings /\ DOMAIN InitRows \subseteq Bindings
    /\ \A c \in Configs \union {InitRows[b] : b \in DOMAIN InitRows} : c.mapping \in Mappings
ASSUME BoundsAssumption == MaxWrites \in Nat /\ MaxFaults \in Nat
P == CHOOSE p \in Partitions : TRUE

Idle == [pc |-> "idle"]
\* The bindings that are enabled at the start and that nobody touches.
Watched == {b \in DOMAIN InitRows : InitRows[b].on} \ Edited
NoFilter == [integration |-> "", keys |-> {}, codes |-> {}, min |-> 0, max |-> 0, prefix |-> <<>>, url |-> ""]

-----------------------------------------------------------------------------
(* Matching.                                                                *)

\* Matcher.matchBinding.  An integration is compared whenever the message names
\* one, even if the filter does not; every other filter only when it is set.
Accepts(f, m, path) ==
    /\ m.integration # "" => m.integration = f.integration
    /\ f.keys # {} => m.plan \in f.keys
    /\ f.codes # {} => m.status \in f.codes
    /\ f.min > 0 => m.status >= f.min
    /\ f.max > 0 => m.status <= f.max
    /\ f.prefix # <<>> => IsPrefix(f.prefix, path)
    /\ f.url # "" => f.url \in m.url
Score(f, m, path) ==
    IF ~Accepts(f, m, path) THEN 0
    ELSE 1 + (IF f.keys # {} THEN 10 ELSE 0) + (IF f.codes # {} THEN 5 ELSE 0)
           + (IF f.min > 0 \/ f.max > 0 THEN 2 ELSE 0)
           + (IF f.prefix # <<>> THEN 5 ELSE 0) + (IF f.url # "" THEN 5 ELSE 0)

\* ListEnabled, and the filter of LoadBindings.
Enabled(r) == [b \in {x \in DOMAIN r : r[x].on} |-> r[b]]

\* UpdateBinding and RemoveBinding on the bindings that the matcher holds.
UpdateBinding(mt, b, c) ==
    [x \in (IF c.on THEN DOMAIN mt \union {b} ELSE DOMAIN mt \ {b}) |-> IF x = b THEN c ELSE mt[x]]
\* Mutant: a deleted binding stays.
RemoveBindingNot(mt, b) == mt
RemoveBinding(mt, b) == [x \in DOMAIN mt \ {b} |-> mt[x]]

\* What executing a mapping ends in: extractBatchRecords finds arrays of records,
\* or there is one record, or an error.
Outcomes == {"error", "one", "batch"}

-----------------------------------------------------------------------------
(* The mapping cache.                                                       *)

\* GetActiveMappingDefinition: the highest active version.
Current(mp) == IF active[mp] = {} THEN 0 ELSE Max(active[mp])

Hit(mp) == mp \in DOMAIN cache /\ cache[mp].fresh

\* evictHalf removes at least one entry, whichever the map yields first.
Evicted == {c \in SUBSET DOMAIN cache :
               Cardinality(DOMAIN cache \ c) = Max({1, Cardinality(DOMAIN cache) \div 2})}
Room == IF Cardinality(DOMAIN cache) >= CacheMax THEN Evicted ELSE {DOMAIN cache}

\* GetCompiledMapping: 0 is an error.
GetCompiledMapping(mp, version) ==
    IF Hit(mp) THEN version = cache[mp].version /\ UNCHANGED cache
    ELSE /\ version = Current(mp)
         /\ IF version = 0 THEN UNCHANGED cache
            ELSE \E keep \in Room :
                    cache' = [x \in keep \union {mp} |->
                                IF x = mp THEN [version |-> version, fresh |-> TRUE] ELSE cache[x]]

\* Time passes the TTL of an entry.
Expire(mp) ==
    /\ Hit(mp)
    /\ cache' = [cache EXCEPT ![mp].fresh = FALSE]
    /\ UNCHANGED <<consumer, rows, active, matcher, loaded, h, refresh, op, writes, dbErrors, owed, missed, overlap>>

-----------------------------------------------------------------------------
(* The handler.                                                             *)

Msg == Message(P)

\* MessageHandler: the handler of a message that is not an array has one item; the
\* items of an array share the message, whose step path grows with each.
Receive ==
    /\ Call(P)
    /\ h' = [pc |-> "item", left |-> IF Msg.items < 0 THEN <<0>> ELSE [i \in 1..Msg.items |-> i],
             item |-> 0, path |-> Msg.path, todo |-> <<>>, rows |-> <<>>]
    /\ owed' = {x \in owed : x[1] # position[P]}
    /\ UNCHANGED <<rows, active, matcher, loaded, cache, refresh, op, writes, dbErrors, missed, overlap>>

Handling(pc) == step[P] = "handle" /\ h.pc = pc

\* Mutant: a passed event is handled once more.
PassthroughAgain ==
    /\ Handling("item") /\ Msg.type = "event"
    /\ UNCHANGED vars

\* An execution event goes through untouched; a failure to publish is only logged.
Passthrough ==
    /\ Handling("item") /\ Msg.type = "event"
    /\ h' = Idle
    /\ Return(P, TRUE)
    /\ UNCHANGED <<rows, active, matcher, loaded, cache, refresh, op, writes, dbErrors, owed, missed, overlap>>

\* Mutant: a tenant counts as loaded when the matcher knows a binding of it.
NextItemTrusting ==
    /\ Handling("item") /\ Msg.type # "event" /\ h.left # <<>>
    /\ h' = [h EXCEPT !.pc = IF loaded \/ matcher # <<>> THEN "match" ELSE "list",
                      !.item = Head(h.left), !.left = Tail(@),
                      !.path = IF Msg.items < 0 THEN @ ELSE Append(@, Head(h.left))]
    /\ UNCHANGED <<consumer, rows, active, matcher, loaded, cache, refresh, op, writes, dbErrors, owed, missed, overlap>>

\* ProcessMessage, item by item.
NextItem ==
    /\ Handling("item") /\ Msg.type # "event" /\ h.left # <<>>
    /\ h' = [h EXCEPT !.pc = IF loaded THEN "match" ELSE "list", !.item = Head(h.left), !.left = Tail(@),
                      !.path = IF Msg.items < 0 THEN @ ELSE Append(@, Head(h.left))]
    /\ UNCHANGED <<consumer, rows, active, matcher, loaded, cache, refresh, op, writes, dbErrors, owed, missed, overlap>>

LastItem ==
    /\ Handling("item") /\ Msg.type # "event" /\ h.left = <<>>
    /\ h' = Idle
    /\ Return(P, TRUE)
    /\ UNCHANGED <<rows, active, matcher, loaded, cache, refresh, op, writes, dbErrors, owed, missed, overlap>>

\* A writer of the matcher that starts while another is under way.
Writers == Cardinality({p \in Operators : op[p] # Idle})
           + (IF refresh # Idle THEN 1 ELSE 0) + (IF h.pc = "install" THEN 1 ELSE 0)

\* ensureTenantLoaded: the list of the enabled bindings, which may fail ...
ListBindings ==
    /\ Handling("list")
    /\ \/ /\ h' = [h EXCEPT !.pc = "install", !.rows = Enabled(rows)]
          /\ overlap' = (overlap \/ Writers > 0)
          /\ UNCHANGED dbErrors
       \/ /\ dbErrors + restarts < MaxFaults
          /\ dbErrors' = dbErrors + 1
          /\ h' = [h EXCEPT !.pc = "match"]
          /\ UNCHANGED overlap
    /\ UNCHANGED <<consumer, rows, active, matcher, loaded, cache, refresh, op, writes, owed, missed>>

\* ... and its way into the matcher.
InstallBindings ==
    /\ Handling("install")
    /\ matcher' = h.rows
    /\ loaded' = TRUE
    /\ h' = [h EXCEPT !.pc = "match", !.rows = <<>>]
    /\ UNCHANGED <<consumer, rows, active, cache, refresh, op, writes, dbErrors, owed, missed, overlap>>

\* Matcher.Match
Match ==
    /\ Handling("match")
    /\ LET hits == {b \in DOMAIN matcher : Score(matcher[b].filter, Msg, h.path) > 0}
       IN /\ h' = [h EXCEPT !.pc = "bind", !.todo = [b \in hits |-> matcher[b]]]
          /\ owed' = owed \union {<<position[P], h.item, b>> : b \in hits}
          /\ missed' = missed \union {<<position[P], h.item, b>> :
                b \in {x \in Watched : Score(InitRows[x].filter, Msg, h.path) > 0} \ hits}
    /\ UNCHANGED <<consumer, rows, active, matcher, loaded, cache, refresh, op, writes, dbErrors, overlap>>

\* The batch branch reads OrchidMessage without asking whether there is one.
Panics(outcome) == outcome = "batch" /\ Msg.type = "foreign"

\* Mutant: a mapping that fails ends the message.
DeliverOrStop(b, outcome) ==
    /\ Handling("bind") /\ ~Panics(outcome)
    /\ \E v \in Versions \union {0} : GetCompiledMapping(h.todo[b].mapping, v)
    /\ owed' = owed \ {<<position[P], h.item, b>>}
    /\ h' = [h EXCEPT !.todo = IF outcome = "error" THEN <<>>
                               ELSE [x \in DOMAIN h.todo \ {b} |-> h.todo[x]]]
    /\ UNCHANGED <<consumer, rows, active, matcher, loaded, refresh, op, writes, dbErrors, missed, overlap>>

\* One binding: the mapping is loaded and executed, and each record is published;
\* a mapping that cannot be loaded or executed, a missing output topic and a failed
\* publication are reported on the error topic, or only logged if that fails too.
\* None of them ends the message.
Deliver(b, outcome) ==
    /\ Handling("bind") /\ ~Panics(outcome)
    /\ \E v \in Versions \union {0} : GetCompiledMapping(h.todo[b].mapping, v)
    /\ owed' = owed \ {<<position[P], h.item, b>>}
    /\ h' = [h EXCEPT !.todo = [x \in DOMAIN h.todo \ {b} |-> h.todo[x]]]
    /\ UNCHANGED <<consumer, rows, active, matcher, loaded, refresh, op, writes, dbErrors, missed, overlap>>

Delivered ==
    /\ Handling("bind") /\ h.todo = <<>>
    /\ h' = [h EXCEPT !.pc = "item"]
    /\ UNCHANGED <<consumer, rows, active, matcher, loaded, cache, refresh, op, writes, dbErrors, owed, missed, overlap>>

\* What a process that starts has in memory.
Fresh == /\ matcher' = <<>> /\ loaded' = FALSE /\ cache' = <<>>
         /\ h' = Idle /\ refresh' = Idle /\ op' = [p \in Operators |-> Idle]
         /\ overlap' = FALSE
         /\ UNCHANGED <<rows, active, writes, dbErrors, owed, missed>>

\* Nothing recovers from a panic: the process ends, and starts again.
Panic ==
    /\ Handling("bind")
    /\ \E b \in DOMAIN h.todo : Panics("batch") /\ (Hit(h.todo[b].mapping) \/ Current(h.todo[b].mapping) > 0)
    /\ Resume(P) /\ UNCHANGED restarts
    /\ Fresh

Crash == dbErrors + restarts < MaxFaults /\ Restart(P) /\ Fresh

-----------------------------------------------------------------------------
(* The refresh loop and the HTTP handlers.                                  *)

\* refreshAllTenants reads the rows of a registered tenant ...
RefreshList ==
    /\ loaded /\ refresh = Idle
    /\ refresh' = [pc |-> "read", rows |-> Enabled(rows)]
    /\ overlap' = (overlap \/ Writers > 0)
    /\ UNCHANGED <<consumer, rows, active, matcher, loaded, cache, h, op, writes, dbErrors, owed, missed>>

\* Mutant: a refresh adds what is new and forgets nothing.
RefreshAdds ==
    /\ refresh # Idle
    /\ matcher' = refresh.rows @@ matcher
    /\ refresh' = Idle
    /\ UNCHANGED <<consumer, rows, active, loaded, cache, h, op, writes, dbErrors, owed, missed, overlap>>

\* ... and replaces what the matcher has.
RefreshLoad ==
    /\ refresh # Idle
    /\ matcher' = refresh.rows
    /\ refresh' = Idle
    /\ UNCHANGED <<consumer, rows, active, loaded, cache, h, op, writes, dbErrors, owed, missed, overlap>>

\* A request that writes bindings, at its first statement.
Request(p) == /\ op[p] = Idle /\ writes < MaxWrites
              /\ writes' = writes + 1
              /\ overlap' = (overlap \/ Writers > 0)
              /\ UNCHANGED <<consumer, active, matcher, loaded, cache, h, refresh, dbErrors, owed, missed>>

\* POST: insert the row, then tell the matcher.
Create(p, b, c) ==
    /\ b \notin DOMAIN rows
    /\ rows' = [x \in DOMAIN rows \union {b} |-> IF x = b THEN c ELSE rows[x]]
    /\ op' = [op EXCEPT ![p] = [pc |-> "tell", b |-> b, c |-> c]]
    /\ Request(p)

\* PUT: read the row, write it back whole, tell the matcher.
UpdateRead(p, b, c) ==
    /\ b \in DOMAIN rows
    /\ op' = [op EXCEPT ![p] = [pc |-> "write", b |-> b, c |-> c]]
    /\ Request(p) /\ UNCHANGED rows
UpdateWrite(p) ==
    /\ op[p].pc = "write"
    /\ IF op[p].b \in DOMAIN rows
       THEN rows' = [rows EXCEPT ![op[p].b] = op[p].c] /\ op' = [op EXCEPT ![p].pc = "tell"]
       ELSE op' = [op EXCEPT ![p] = Idle] /\ UNCHANGED rows
    /\ UNCHANGED <<consumer, active, matcher, loaded, cache, h, refresh, writes, dbErrors, owed, missed, overlap>>

\* DELETE: remove the row, then tell the matcher.
Delete(p, b) ==
    /\ b \in DOMAIN rows
    /\ rows' = [x \in DOMAIN rows \ {b} |-> rows[x]]
    /\ op' = [op EXCEPT ![p] = [pc |-> "forget", b |-> b]]
    /\ Request(p)

\* The end of a request.
Tell(p) ==
    /\ op[p].pc \in {"tell", "forget"}
    /\ matcher' = IF op[p].pc = "tell" THEN UpdateBinding(matcher, op[p].b, op[p].c)
                  ELSE RemoveBinding(matcher, op[p].b)
    /\ op' = [op EXCEPT ![p] = Idle]
    /\ UNCHANGED <<consumer, rows, active, loaded, cache, h, refresh, writes, dbErrors, owed, missed, overlap>>

\* Upsert of a version of a mapping, active or not; nothing tells the cache.
Upsert(mp, v, on) ==
    /\ writes < MaxWrites
    /\ writes' = writes + 1
    /\ on # (v \in active[mp])
    /\ active' = [active EXCEPT ![mp] = IF on THEN @ \union {v} ELSE @ \ {v}]
    /\ UNCHANGED <<consumer, rows, matcher, loaded, cache, h, refresh, op, dbErrors, owed, missed, overlap>>

-----------------------------------------------------------------------------

Init ==
    /\ ConsumerInit
    /\ rows = InitRows
    /\ active = [mp \in Mappings |-> {1}]
    /\ matcher = <<>> /\ loaded = FALSE /\ cache = <<>>
    /\ h = Idle /\ refresh = Idle /\ op = [p \in Operators |-> Idle]
    /\ writes = 0 /\ dbErrors = 0
    /\ owed = {} /\ missed = {} /\ overlap = FALSE

Loop == (ConsumerStep(P) /\ UNCHANGED lotus) \/ Receive
Handler == \/ Passthrough \/ NextItem \/ LastItem
           \/ ListBindings \/ InstallBindings \/ Match \/ Delivered \/ Panic
           \/ \E b \in DOMAIN h.todo, outcome \in Outcomes : Deliver(b, outcome)
HandlerStep == step[P] = "handle" /\ Handler
Refresher == RefreshList \/ RefreshLoad
Api(p) == \/ \E b \in Edited, c \in Configs : Create(p, b, c) \/ UpdateRead(p, b, c)
          \/ \E b \in Edited : Delete(p, b)
          \/ UpdateWrite(p) \/ Tell(p)

Next ==
    \/ Loop \/ HandlerStep
    \/ Flush(P) /\ UNCHANGED lotus
    \/ AtEnd(P) /\ UNCHANGED vars
    \/ Crash
    \/ Refresher
    \/ \E p \in Operators : Api(p)
    \/ \E mp \in Mappings : Expire(mp) \/ \E v \in Versions, on \in BOOLEAN : Upsert(mp, v, on)

\* The loop runs and its handlers return, the ticker fires, a request that was
\* begun is answered, and a TTL passes.  That commits are sent is not assumed.
Spec == /\ Init /\ [][Next]_vars
        /\ WF_vars(Loop \/ HandlerStep) /\ WF_vars(Refresher)
        /\ \A p \in Operators : WF_vars(UpdateWrite(p) \/ Tell(p))
        /\ \A mp \in Mappings : WF_vars(Expire(mp))

-----------------------------------------------------------------------------
(* Properties.                                                              *)

\* Every variable has its type; the matcher keeps only enabled bindings, the cache
\* respects its size, and a handler runs exactly while the loop is in it.
TypeOK ==
    /\ ConsumerTypeOK
    /\ DOMAIN rows \subseteq Bindings /\ DOMAIN matcher \subseteq Bindings
    /\ \A b \in DOMAIN matcher : matcher[b].on
    /\ loaded \in BOOLEAN /\ overlap \in BOOLEAN
    /\ DOMAIN cache \subseteq Mappings /\ Cardinality(DOMAIN cache) <= CacheMax
    /\ h.pc \in {"idle", "item", "list", "install", "match", "bind"}
    /\ (h # Idle) = (step[P] = "handle")
    /\ writes \in 0..MaxWrites /\ dbErrors \in 0..MaxFaults

\* Once an offset is committed, each record was delivered to every binding that
\* matched it: published, reported on the error topic, or, when both publications
\* failed, logged, when the message was last handled.  No restart between the steps
\* of a handler loses one, unless no offset at all was committed by then: the reader
\* starts at the end of the partition, behind the message in hand.  The loop over the
\* results of Match (processor.go:294) serves every binding that matched, where
\* lotus/README.md:531 says that only the one with the highest score is selected.
MatchedIsAccountedFor == \A x \in owed : x[1] > committed[P] \/ x[1] \in skipped[P]

\* For a binding that nobody touches, every record that is handled and that it matches
\* is among the results of Match, whatever its score is beside the other bindings',
\* and whatever the refresh loop, restarts and requests about other bindings do,
\* unless the database failed when the tenant was loaded.
UntouchedSeeAll == dbErrors = 0 => missed = {}

\* Between writers that do not overlap, the matcher has what the database has.
MatcherAgrees == loaded /\ ~overlap /\ Writers = 0 => matcher = Enabled(rows)

\* Whatever the overlaps left behind, the refresh loop repairs, and a cached mapping
\* gives way to the version that is active.
TablesWin ==
    <>[](/\ loaded => matcher = Enabled(rows)
         /\ \A mp \in Mappings : Hit(mp) => cache[mp].version = Current(mp))

\* Every message is given to the handler in the end, whatever fails before it, with
\* two exceptions.  A message without Orchid's schema may stop the partition: a batch
\* mapping panics on it each time the process comes back.  And a process that starts
\* before any offset is committed starts behind what is in the partition.
Unreached(o) == ~Parses(P, o) \/ \E q \in 1..(o - 1) : Parses(P, q) /\ log[P][q].type = "foreign"
TriedUpToPoison == <>(\A o \in Offsets(P) : Unreached(o) \/ o \in tried[P] \union skipped[P])
=============================================================================
