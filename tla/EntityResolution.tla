--------------------------- MODULE EntityResolution ---------------------------
(***************************************************************************)
(* Ivy's entity resolution: staged entities are matched, grouped into       *)
(* clusters and represented by merged entities ("golden records"), and      *)
(* staged relationships become edges between merged entities.               *)
(*                                                                         *)
(* Change events of the staged_entities table are handled by the instances  *)
(* of the merge consumer, one event of an entity at a time (its partition    *)
(* belongs to one instance), events of different entities concurrently.     *)
(* The merge engine opens a transaction, but the repositories write through *)
(* the pool and not through it, so every statement commits on its own: each *)
(* action below is one statement, and an instance may die between any two.  *)
(***************************************************************************)
EXTENDS Naturals, Sequences, FiniteSets

CONSTANTS
    Entities,    \* rows of staged_entities, by identity
    Values,      \* what the match rules see of an entity's data
    Feed,        \* the <<entity, value>> pairs the integrations deliver
    Similar,     \* pairs of values some match rule accepts
    NoMerge,     \* pairs of values a no-merge condition blocks
    Relations,   \* the <<from, to>> staged relationships that may arrive
    Consumers,   \* instances of the merge consumer
    Absent,      \* no staged row yet
    Idle,        \* no event in hand
    MaxMerged,   \* bound: merged entities ever created
    MaxWrites,   \* bound: upserts and deletions of staged entities
    MaxRetries   \* bound: faults and repeated deliveries

NoValue == "no value"

ASSUME ResolutionAssumption ==
    /\ Feed \subseteq Entities \X Values
    /\ Similar \subseteq Values \X Values
    /\ NoMerge \subseteq Values \X Values
    /\ Relations \subseteq Entities \X Entities
    /\ NoValue \notin Values
    /\ MaxMerged \in Nat /\ MaxWrites \in Nat /\ MaxRetries \in Nat

VARIABLES
    staged,    \* staged_entities: the row of each entity, or Absent
    events,    \* change events of each entity not yet committed
    index,     \* match_fields: the indexed value of each entity, or NoValue
    merged,    \* merged_entities: "none", "live" or "deleted"
    home,      \* active rows of entity_clusters: entity to merged entity
    removed,   \* removed rows of entity_clusters: <<merged, entity>>
    rules,     \* live rows of staged_relationships
    relEvents, \* change events of staged_relationships not yet handled
    edges,     \* live rows of merged_relationships
    task,      \* what each instance of the merge consumer is doing
    relTask,   \* what the relationship consumer is doing
    writes,    \* staged writes so far
    retries,   \* faults and repeated deliveries so far
    linked,    \* history: pairs of entities whose indexed values were similar
    trouble    \* history: "overlap", "relRace", "fault", "delete"

tables == <<index, merged, home, removed, edges>>
source == <<staged, writes>>
history == <<linked, trouble>>
relationships == <<rules, relEvents, relTask>>
vars == <<tables, source, events, relationships, task, retries, history>>

Merged == 1 .. MaxMerged
Nowhere == 0

Row == [data : Values, deleted : BOOLEAN]

\* The steps of MergeProcessor.ProcessMessage, and of the deletion cascade.
Steps == {"match", "load", "find", "single", "create", "update", "add", "move",
          "rewire", "drop", "finish", "relate", "edge",
          "remove", "members", "bury", "cascade"}

\* ids: entities looked up (source and matches); all: those loaded and still to
\* be added; into: the surviving merged entity; from: clusters to be emptied;
\* then: the step after the last addition; todo: relationships to complete;
\* pair: the edge to be written.
Job == [step : Steps, e : Entities, ids : SUBSET Entities, all : SUBSET Entities,
        into : Merged \cup {Nowhere}, from : SUBSET Merged,
        then : {"finish", "relate"}, todo : SUBSET Relations,
        pair : {<<>>} \cup (Merged \X Merged)]

\* The markers differ from what they mark the absence of.
ASSUME IdleAssumption == Idle \notin Job /\ Idle \notin Merged \X Merged
ASSUME AbsentAssumption == Absent \notin Row

NewJob(step, e) ==
    [step |-> step, e |-> e, ids |-> {}, all |-> {}, into |-> Nowhere, from |-> {},
     then |-> "relate", todo |-> {}, pair |-> <<>>]

\* One type invariant: the shape of every table, queue and job.
TypeOK ==
    /\ staged \in [Entities -> Row \cup {Absent}]
    /\ events \in [Entities -> Seq(Row)]
    /\ index \in [Entities -> Values \cup {NoValue}]
    /\ merged \in [Merged -> {"none", "live", "deleted"}]
    /\ home \in [Entities -> Merged \cup {Nowhere}]
    /\ removed \subseteq Merged \X Entities
    /\ rules \subseteq Relations /\ relEvents \subseteq rules
    /\ edges \subseteq Merged \X Merged
    /\ task \in [Consumers -> Job \cup {Idle}]
    /\ relTask \in {Idle} \cup (Merged \X Merged)
    /\ writes \in 0 .. MaxWrites /\ retries \in 0 .. MaxRetries
    /\ linked \subseteq Entities \X Entities
    /\ trouble \subseteq {"overlap", "relRace", "fault", "delete"}

Init ==
    /\ staged = [e \in Entities |-> Absent]
    /\ events = [e \in Entities |-> <<>>]
    /\ index = [e \in Entities |-> NoValue]
    /\ merged = [m \in Merged |-> "none"]
    /\ home = [e \in Entities |-> Nowhere]
    /\ removed = {} /\ rules = {} /\ relEvents = {} /\ edges = {}
    /\ task = [c \in Consumers |-> Idle] /\ relTask = Idle
    /\ writes = 0 /\ retries = 0 /\ linked = {} /\ trouble = {}

-----------------------------------------------------------------------------
(* The staging tables: written by the message processor, read as events. *)

IsLive(e) == staged[e] # Absent /\ ~staged[e].deleted

\* UpsertWithOptions: one INSERT ... ON CONFLICT, which also revives a deleted
\* row, and a second UPDATE of the fingerprint when the data changed (one more
\* event of the same row, unless that UPDATE fails). Its fingerprint always
\* differs from previous_fingerprint, so no event is skipped for being equal.
Upsert(e, v) ==
    LET row == [data |-> v, deleted |-> FALSE]
        changed == staged[e] # Absent /\ staged[e].data # v
    IN /\ writes < MaxWrites
       /\ writes' = writes + 1
       /\ staged' = [staged EXCEPT ![e] = row]
       /\ \/ events' = [events EXCEPT ![e] = Append(@, row)]
          \/ changed /\ events' = [events EXCEPT ![e] = @ \o <<row, row>>]
       /\ UNCHANGED <<tables, relationships, task, retries, history>>

\* SoftDelete marks a live row as deleted; the change event carries the row.
SoftDeleteStaged(e) ==
    /\ writes < MaxWrites /\ IsLive(e)
    /\ writes' = writes + 1
    /\ staged' = [staged EXCEPT ![e].deleted = TRUE]
    /\ events' = [events EXCEPT ![e] = Append(@, staged'[e])]
    /\ trouble' = trouble \cup {"delete"}
    /\ UNCHANGED <<tables, relationships, task, retries, linked>>

\* A direct relationship between two source ids is stored.
StageRelationship(r) ==
    /\ r \notin rules
    /\ rules' = rules \cup {r} /\ relEvents' = relEvents \cup {r}
    /\ UNCHANGED <<tables, source, events, relTask, task, retries, history>>

-----------------------------------------------------------------------------
(* Statements of the merged-entity and merged-relationship repositories. *)

\* Mutant: the filter on the staged ids is lost.
ClustersOfAnyone(es) == {m \in Merged : merged[m] = "live" /\ \E e \in Entities : home[e] = m}

\* GetMergedEntitiesByStagedIDs: live merged entities with an active row.
Clusters(es) == {m \in Merged : merged[m] = "live" /\ \E e \in es : home[e] = m}

\* ORDER BY created_at ASC: ids are handed out in the order of creation.
Oldest(ms) == CHOOSE m \in ms : \A n \in ms : m <= n

\* AddToCluster fails when another active row of the entity exists.
CanAdd(m, e) == home[e] \in {Nowhere, m}

AddToCluster(m, e) ==
    /\ home' = [home EXCEPT ![e] = m]
    /\ removed' = removed \ {<<m, e>>}

\* MoveClusterMembers fails on UNIQUE(merged, staged) when the target has a
\* removed row of a member.
Members(m) == {e \in Entities : home[e] = m}
CanMove(m, n) == \A e \in Members(m) : <<n, e>> \notin removed
MoveClusterMembers(m, n) ==
    home' = [e \in Entities |-> IF home[e] = m THEN n ELSE home[e]]

RemoveFromCluster(m, e) ==
    IF home[e] = m
    THEN /\ home' = [home EXCEPT ![e] = Nowhere]
         /\ removed' = removed \cup {<<m, e>>}
    ELSE UNCHANGED <<home, removed>>

SoftDelete(m) == merged' = [merged EXCEPT ![m] = "deleted"]

\* RewireMergedEntity: every edge at m is upserted at n and deleted at m.
RewireMergedEntity(m, n) ==
    LET swap(x) == IF x = m THEN n ELSE x
    IN edges' = {<<swap(p[1]), swap(p[2])>> : p \in edges}

SoftDeleteByMergedEntityID(m) == edges' = {p \in edges : m \notin {p[1], p[2]}}

-----------------------------------------------------------------------------
(* The merge consumer: bookkeeping of an instance's steps. *)

Busy == {c \in Consumers : task[c] # Idle}
At(c, step) == task[c] # Idle /\ task[c].step = step
Step(c, job) == task' = [task EXCEPT ![c] = job]
Goto(c, step) == task' = [task EXCEPT ![c].step = step]

\* The offset of the entity's event is committed, in the background: a restart
\* before that delivers the event once more.
Commit(e) ==
    \/ /\ events' = [events EXCEPT ![e] = Tail(@)]
       /\ UNCHANGED retries
    \/ /\ retries < MaxRetries /\ retries' = retries + 1
       /\ UNCHANGED events

\* The handler returned nil.
Done(c) ==
    /\ task' = [task EXCEPT ![c] = Idle]
    /\ Commit(task[c].e)

\* The handler returned an error: its event is not committed, but a later commit
\* passes it, unless a restart comes first and delivers it again.
Fails(c) ==
    /\ Done(c)
    /\ UNCHANGED <<tables, source, relationships, history>>

\* The next event of an entity that no other instance is handling.
CanTake(c, e) ==
    /\ task[c] = Idle /\ events[e] # <<>>
    /\ \A d \in Busy : task[d].e # e

Overlaps == (IF Busy # {} THEN {"overlap"} ELSE {})
            \cup (IF relTask # Idle THEN {"relRace"} ELSE {})

-----------------------------------------------------------------------------
(* Merging. *)

\* A rule with a no-merge condition that holds blocks, whatever else matches.
Blocked == NoMerge
Valid == Similar \ NoMerge

\* The other entities whose indexed value stands in relation R to value v.
Others(e, v, R) == {f \in Entities \ {e} : <<v, index[f]>> \in R}

\* IndexEntity replaces the match fields of the entity by those of the row.
Index(c, e) ==
    /\ CanTake(c, e) /\ ~Head(events[e]).deleted
    /\ LET v == Head(events[e]).data
       IN /\ index' = [index EXCEPT ![e] = v]
          /\ linked' = linked \cup {<<e, f>> : f \in Others(e, v, Valid)}
                             \cup {<<f, e>> : f \in {g \in Entities \ {e} : <<index[g], v>> \in Valid}}
    /\ Step(c, NewJob("match", e))
    /\ trouble' = trouble \cup Overlaps
    /\ UNCHANGED <<merged, home, removed, edges, source, events, relationships, retries>>

\* FindMatches returns the blocked outcomes too; MergeWithMatches merges alone
\* when no outcome is left after filtering, and otherwise with all of them.
FindMatches(c) ==
    /\ At(c, "match")
    /\ LET e == task[c].e
           valid == Others(e, index[e], Valid)
           outcomes == valid \cup Others(e, index[e], Blocked)
       IN Step(c, [task[c] EXCEPT !.step = IF valid = {} THEN "single" ELSE "load",
                                  !.ids = {e} \cup outcomes])
    /\ UNCHANGED <<tables, source, events, relationships, retries, history>>

\* GetByIDs loads the live rows; the source entity is always included.
Load(c) ==
    /\ At(c, "load")
    /\ LET all == {task[c].e} \cup {f \in task[c].ids : IsLive(f)}
       IN Step(c, [task[c] EXCEPT !.step = IF all = {task[c].e} THEN "single" ELSE "find",
                                  !.all = all])
    /\ UNCHANGED <<tables, source, events, relationships, retries, history>>

\* Mutant: only the oldest cluster is considered, none is consolidated.
FindFirstCluster(c) ==
    /\ At(c, "find")
    /\ LET found == Clusters(task[c].ids)
       IN Step(c, IF found = {} THEN [task[c] EXCEPT !.step = "create"]
                  ELSE [task[c] EXCEPT !.step = "update", !.into = Oldest(found)])
    /\ UNCHANGED <<tables, source, events, relationships, retries, history>>

\* No, one or several existing clusters: create, update or consolidate.
FindClusters(c) ==
    /\ At(c, "find")
    /\ LET found == Clusters(task[c].ids)
           job == [task[c] EXCEPT !.into = Oldest(found), !.from = found \ {Oldest(found)}]
       IN Step(c, CASE found = {} -> [task[c] EXCEPT !.step = "create"]
                    [] Cardinality(found) = 1 -> [job EXCEPT !.step = "update"]
                    [] OTHER -> [job EXCEPT !.step = "move", !.then = "finish"])
    /\ UNCHANGED <<tables, source, events, relationships, retries, history>>

\* upsertSingleEntity: update the entity's own merged entity, or create one.
FindSingle(c) ==
    /\ At(c, "single")
    /\ LET own == Clusters({task[c].e})
           job == [task[c] EXCEPT !.all = {task[c].e}]
       IN Step(c, IF own = {} THEN [job EXCEPT !.step = "create"]
                  ELSE [job EXCEPT !.step = "finish", !.into = Oldest(own)])
    /\ UNCHANGED <<tables, source, events, relationships, retries, history>>

Create(c) ==
    /\ At(c, "create")
    /\ \E m \in Merged :
         /\ merged[m] = "none" /\ \A n \in Merged : n < m => merged[n] # "none"
         /\ merged' = [merged EXCEPT ![m] = "live"]
         /\ Step(c, [task[c] EXCEPT !.step = "add", !.into = m])
    /\ UNCHANGED <<index, home, removed, edges, source, events, relationships, retries, history>>

\* Update of a live merged entity; a deleted one is "not found".
UpdateThenAdd(c) ==
    /\ At(c, "update") /\ merged[task[c].into] = "live"
    /\ Goto(c, "add")
    /\ UNCHANGED <<tables, source, events, relationships, retries, history>>

\* The loaded entities are added one by one, in the order of the query.
Add(c) ==
    /\ At(c, "add")
    /\ \E f \in task[c].all :
         /\ CanAdd(task[c].into, f)
         /\ AddToCluster(task[c].into, f)
         /\ Step(c, [task[c] EXCEPT !.all = @ \ {f},
                        !.step = IF task[c].all = {f} THEN task[c].then ELSE "add"])
    /\ UNCHANGED <<index, merged, edges, source, events, relationships, retries, history>>

\* consolidateClusters empties the younger clusters into the oldest, in order.
Move(c) ==
    /\ At(c, "move")
    /\ LET m == Oldest(task[c].from)
       IN CanMove(m, task[c].into) /\ MoveClusterMembers(m, task[c].into)
    /\ Goto(c, "rewire")
    /\ UNCHANGED <<index, merged, removed, edges, source, events, relationships, retries, history>>

Rewire(c) ==
    /\ At(c, "rewire")
    /\ RewireMergedEntity(Oldest(task[c].from), task[c].into)
    /\ Goto(c, "drop")
    /\ UNCHANGED <<index, merged, home, removed, source, events, relationships, retries, history>>

Drop(c) ==
    /\ At(c, "drop")
    /\ LET m == Oldest(task[c].from)
       IN /\ merged[m] = "live" /\ SoftDelete(m)
          /\ Step(c, [task[c] EXCEPT !.from = @ \ {m},
                         !.step = IF task[c].from = {m} THEN "add" ELSE "move"])
    /\ UNCHANGED <<index, home, removed, edges, source, events, relationships, retries, history>>

\* The last Update of a consolidation, and the only one of a single entity.
Finish(c) ==
    /\ At(c, "finish") /\ merged[task[c].into] = "live"
    /\ Goto(c, "relate")
    /\ UNCHANGED <<tables, source, events, relationships, retries, history>>

\* Statements the database refuses: a unique index, or a row that is gone.
Refused(c) ==
    \/ At(c, "add") /\ \E f \in task[c].all : ~CanAdd(task[c].into, f)
    \/ At(c, "move") /\ ~CanMove(Oldest(task[c].from), task[c].into)
    \/ At(c, "drop") /\ merged[Oldest(task[c].from)] # "live"
    \/ At(c, "update") /\ merged[task[c].into] # "live"
    \/ At(c, "finish") /\ merged[task[c].into] # "live"

MergeFails(c) == Refused(c) /\ Fails(c)

-----------------------------------------------------------------------------
(* Relationships of a merged entity, and the relationship consumer. *)

Waiting(e) == {r \in rules : e \in {r[1], r[2]}}

\* processMatchingRelationshipRules: the staged relationships of the entity.
\* Their staged entity ids are never filled in, so none is ever "complete".
Relate(c) ==
    /\ At(c, "relate")
    /\ IF Waiting(task[c].e) = {} THEN Done(c)
       ELSE /\ Step(c, [task[c] EXCEPT !.step = "edge", !.todo = Waiting(task[c].e)])
            /\ UNCHANGED <<events, retries>>
    /\ UNCHANGED <<tables, source, relationships, history>>

\* The other end of a relationship, if it is live and has an active row.
EndOf(e) == IF IsLive(e) THEN home[e] ELSE Nowhere

\* No edge while the other end has no merged entity.
EdgeOf(pair) == IF Nowhere \in {pair[1], pair[2]} THEN <<>> ELSE pair

\* One relationship: look up its other end ...
FindEnd(c) ==
    /\ At(c, "edge") /\ task[c].pair = <<>> /\ task[c].todo # {}
    /\ \E r \in task[c].todo :
         LET pair == IF r[1] = task[c].e THEN <<task[c].into, EndOf(r[2])>>
                                         ELSE <<EndOf(r[1]), task[c].into>>
         IN Step(c, [task[c] EXCEPT !.todo = @ \ {r}, !.pair = EdgeOf(pair)])
    /\ UNCHANGED <<tables, source, events, relationships, retries, history>>

\* ... and upsert the edge. Errors here are logged and the event is committed.
PutEdge(c) ==
    /\ At(c, "edge") /\ task[c].pair # <<>>
    /\ edges' = edges \cup {task[c].pair}
    /\ Step(c, [task[c] EXCEPT !.pair = <<>>])
    /\ UNCHANGED <<index, merged, home, removed, source, events, relationships, retries, history>>

Related(c) ==
    /\ At(c, "edge") /\ task[c].pair = <<>> /\ task[c].todo = {}
    /\ Done(c)
    /\ UNCHANGED <<tables, source, relationships, history>>

\* The merged entities of both ends, if these are live.
MergedEnds(r) ==
    Clusters({e \in {r[1]} : IsLive(e)}) \X Clusters({e \in {r[2]} : IsLive(e)})

\* RelationshipProcessor: looks up both ends, then writes the edge.
TakeRelationship(r) ==
    /\ relTask = Idle /\ r \in relEvents
    /\ relEvents' = relEvents \ {r}
    /\ relTask' = IF MergedEnds(r) = {} THEN Idle ELSE CHOOSE p \in MergedEnds(r) : TRUE
    /\ trouble' = trouble \cup (IF Busy # {} THEN {"relRace"} ELSE {})
    /\ UNCHANGED <<tables, source, events, rules, task, retries, linked>>

PutRelationship ==
    /\ relTask # Idle
    /\ edges' = edges \cup {relTask} /\ relTask' = Idle
    /\ UNCHANGED <<index, merged, home, removed, source, events, rules, relEvents, task,
                   retries, history>>

-----------------------------------------------------------------------------
(* Deletion of a staged entity: handleDeletedStagedEntity. *)

\* The entity's merged entity is looked up; none means nothing to do.
TakeDeleted(c, e) ==
    /\ CanTake(c, e) /\ Head(events[e]).deleted
    /\ IF Clusters({e}) = {}
       THEN Commit(e) /\ UNCHANGED <<task, trouble>>
       ELSE /\ Step(c, [NewJob("remove", e) EXCEPT !.into = Oldest(Clusters({e}))])
            /\ trouble' = trouble \cup Overlaps
            /\ UNCHANGED <<events, retries>>
    /\ UNCHANGED <<tables, source, relationships, linked>>

Remove(c) ==
    /\ At(c, "remove")
    /\ RemoveFromCluster(task[c].into, task[c].e)
    /\ Goto(c, "members")
    /\ UNCHANGED <<index, merged, edges, source, events, relationships, retries, history>>

\* Mutant: the remaining members are not asked for.
CheckNothing(c) ==
    /\ At(c, "members") /\ Goto(c, "bury")
    /\ UNCHANGED <<tables, source, events, relationships, retries, history>>

\* GetClusterMembers: the merged entity stays when a source remains.
CheckMembers(c) ==
    /\ At(c, "members")
    /\ IF Members(task[c].into) # {} THEN Done(c)
       ELSE Goto(c, "bury") /\ UNCHANGED <<events, retries>>
    /\ UNCHANGED <<tables, source, relationships, history>>

\* The error of a merged entity already deleted is dropped with the cascade.
Bury(c) ==
    /\ At(c, "bury")
    /\ IF merged[task[c].into] = "live"
       THEN SoftDelete(task[c].into) /\ Goto(c, "cascade") /\ UNCHANGED <<events, retries>>
       ELSE Done(c) /\ UNCHANGED merged
    /\ UNCHANGED <<index, home, removed, edges, source, relationships, history>>

\* Mutant: the edges of the deleted merged entity stay.
CascadeNothing(c) ==
    /\ At(c, "cascade") /\ Done(c)
    /\ UNCHANGED <<tables, source, relationships, history>>

Cascade(c) ==
    /\ At(c, "cascade")
    /\ SoftDeleteByMergedEntityID(task[c].into)
    /\ Done(c)
    /\ UNCHANGED <<index, merged, home, removed, source, relationships, history>>

-----------------------------------------------------------------------------
\* Between two statements an instance dies or loses its partition, and the event
\* is delivered again; or the next statement fails, the handler gives up, and the
\* event is delivered again or passed by a later commit (a deletion's error is
\* dropped and its event committed).
Fault(c) ==
    /\ task[c] # Idle /\ retries < MaxRetries
    /\ retries' = retries + 1
    /\ task' = [task EXCEPT ![c] = Idle]
    /\ events' \in {events, [events EXCEPT ![task[c].e] = Tail(@)]}
    /\ trouble' = trouble \cup {"fault"}
    /\ UNCHANGED <<tables, source, relationships, linked>>

Merge(c) ==
    \/ FindMatches(c) \/ Load(c) \/ FindClusters(c) \/ FindSingle(c) \/ Create(c)
    \/ UpdateThenAdd(c) \/ Add(c) \/ Move(c) \/ Rewire(c) \/ Drop(c) \/ Finish(c)
    \/ MergeFails(c) \/ Relate(c) \/ FindEnd(c) \/ PutEdge(c) \/ Related(c)

Delete(c) == Remove(c) \/ CheckMembers(c) \/ Bury(c) \/ Cascade(c)

Next ==
    \/ \E p \in Feed : Upsert(p[1], p[2])
    \/ \E e \in Entities : SoftDeleteStaged(e)
    \/ \E r \in Relations : StageRelationship(r) \/ TakeRelationship(r)
    \/ PutRelationship
    \/ \E c \in Consumers, e \in Entities : Index(c, e) \/ TakeDeleted(c, e)
    \/ \E c \in Consumers : Merge(c) \/ Delete(c) \/ Fault(c)

Spec == Init /\ [][Next]_vars

-----------------------------------------------------------------------------
(* Properties. *)

\* A set of entities no match leads out of or into.
Closed(S) == \A p \in linked : p[1] \in S <=> p[2] \in S

\* Everything that is or was in the cluster of a merged entity.
Sources(m) == Members(m) \cup {e \in Entities : <<m, e>> \in removed}

\* Two entities share a merged entity only if a chain of matches leads from one
\* to the other, whatever the instances interleave, whichever of them die half
\* way through a consolidation, and however often entities change and go.
MergedOnlyByMatch ==
    \A S \in SUBSET Entities : Closed(S) =>
        \A m \in Merged : Sources(m) \subseteq S \/ Sources(m) \cap S = {}

\* As long as no two instances overlap, no entity is left in the cluster of a
\* deleted merged entity (where the unique index would keep it for ever), even
\* though crashes cut the unprotected sequences of statements short.
HomesAreLive ==
    "overlap" \notin trouble =>
        \A e \in Entities : home[e] # Nowhere => merged[home[e]] = "live"

AtRest == Busy = {} /\ relTask = Idle /\ relEvents = {} /\ \A e \in Entities : events[e] = <<>>

\* Once all events are handled, without overlap, crash or deletion, every staged
\* entity has a merged entity, similar ones have the same, and every staged
\* relationship is an edge between the merged entities of its ends.
Resolved ==
    AtRest /\ trouble = {} =>
        /\ \A e \in Entities : IsLive(e) => home[e] # Nowhere
        /\ \A e, f \in Entities :
             IsLive(e) /\ IsLive(f) /\ {<<index[e], index[f]>>, <<index[f], index[e]>>} \subseteq Valid
                => home[e] = home[f]
        /\ \A r \in rules :
             IsLive(r[1]) /\ IsLive(r[2]) => <<home[r[1]], home[r[2]]>> \in edges

\* Consolidations and deletions take the edges of a merged entity with them: at
\* rest, unless handlers overlapped or died, no edge ends at a deleted one.
EdgesEndLive ==
    AtRest /\ trouble \subseteq {"delete"} =>
        \A p \in edges : merged[p[1]] = "live" /\ merged[p[2]] = "live"
=============================================================================
