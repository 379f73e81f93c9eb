---------------------------- MODULE IvyIngestion ----------------------------
(***************************************************************************)
(* Ivy's ingestion, for one tenant: what processor.ProcessMessage makes of *)
(* the messages of Lotus and of Orchid's execution events, statement by    *)
(* statement (ivy/pkg/processor/processor.go), with the staging tables     *)
(* (ivy/internal/repositories) and the deletion strategies                 *)
(* (ivy/pkg/deletion/engine.go).                                           *)
(*                                                                         *)
(* The processes of Ivy share the tables and nothing else.  Lotus keys its *)
(* messages by binding and passes events on keyed by execution, so that    *)
(* two bindings, or a binding and an event, are on different partitions:   *)
(* no order holds between them.                                            *)
(***************************************************************************)
EXTENDS KafkaConsumer, Criteria, SequencesExt, FiniteSetsExt, TLC

CONSTANTS
    StrategiesOf,   \* the deletion strategies of the tenant in each case, in GetApplicableStrategies' order
    Excluded,       \* fields the schema keeps out of the fingerprint
    MaxTime,        \* bound: days
    MaxFaults       \* bound: failed statements and restarts together

ASSUME StrategiesAssumption ==
    \A c \in DOMAIN Logs :
        /\ StrategiesOf[c] \in Seq(Range(StrategiesOf[c]))
        /\ \A s \in Range(StrategiesOf[c]) : s.parts \in Seq(Range(s.parts))

ASSUME TheService == Service = "ivy"
ASSUME BoundsAssumption == MaxTime \in Nat /\ MaxFaults \in Nat

VARIABLES
    now,        \* the day
    entities,   \* staged_entities: <<type, id, integration, source key, config>> -> row
    rels,       \* staged_relationships: natural key -> row
    criteria,   \* staged_relationship_criteria: natural key -> row
    matches,    \* staged_relationship_criteria_matches: <<criteria, entity>>
    h,          \* h[p]: what the handler on p still has to do
    faults,
    versions,   \* history: <<entity, data>> that were staged
    cutOff      \* history: criteria whose first evaluation was cut off by a restart

ivy == <<now, entities, rels, criteria, matches, h, faults, versions, cutOff>>
vars == <<consumer, ivy>>

Idle == [pc |-> "idle"]
strategies == StrategiesOf[case]

\* f with x mapped to y.
With(f, x, y) == [z \in DOMAIN f \union {x} |-> IF z = x THEN y ELSE f[z]]

-----------------------------------------------------------------------------
(* Messages.                                                                *)

\* IsRelationship, IsEntity: what the schema says; without one, the presence of a
\* relationship field, and else an entity.
IsRelationship(m) == IF m.schema # "" THEN m.schema = "relationship" ELSE m.rel # <<>>
IsEntity(m) == m.schema \in {"", "entity"}

\* RelationshipRecord.Normalize and IsValid.
Normalize(m) == [m.rel EXCEPT !.fromInt = IF @ = "" THEN m.integration ELSE @,
                              !.toInt   = IF @ = "" THEN m.integration ELSE @]
IsValid(r) == "" \notin {r.type, r.from, r.fromType, r.toType} /\ (r.to # "" \/ r.criteria # <<>>)

\* The identity of an entity.  A source id is never missing: GetSourceID makes one up.
EntityKey(m) == <<m.type, m.id, m.integration, m.key, m.config>>
Identified(m) == m.type # "" /\ m.integration # ""

\* processRelationship.  By criteria, the integration of the targets has to be known.
RelationshipEntry(m) ==
    LET r == Normalize(m)
    IN IF ~IsValid(r) \/ (r.criteria # <<>> /\ r.toInt = "") THEN "skip"
       ELSE IF r.criteria # <<>> THEN "criteria" ELSE "direct"

\* ProcessMessage: where the handling of a message starts.
Entry(m) ==
    CASE m.event # ""      -> IF m.event = "failed" THEN "skip" ELSE "strategies"
      [] m.delete          -> "candidates"
      [] m.tenant = ""     -> "skip"
      [] IsRelationship(m) -> IF m.rel = <<>> THEN "skip" ELSE RelationshipEntry(m)
      [] IsEntity(m)       -> IF Identified(m) THEN "upsert" ELSE "skip"
      [] OTHER             -> "skip"

-----------------------------------------------------------------------------
(* Rows.                                                                    *)

\* fingerprint.GenerateFromJSONWithExclusions: equal iff the fields that count are.
Fingerprint(data) == [f \in DOMAIN data \ Excluded |-> data[f]]

\* The first statement of UpsertWithOptions: data || new is a shallow merge.
Upserted(key, m) ==
    IF key \in DOMAIN entities
    THEN [entities[key] EXCEPT !.exec = m.exec, !.data = m.data @@ @, !.deleted = FALSE]
    ELSE [data |-> m.data, fp |-> Fingerprint(m.data), exec |-> m.exec,
          created |-> now, updated |-> now, deleted |-> FALSE]

RelKey(type, fromType, from, fromInt, toType, to, toInt, config) ==
    [type |-> type, fromType |-> fromType, from |-> from, fromInt |-> fromInt,
     toType |-> toType, to |-> to, toInt |-> toInt, config |-> config]
RelRow(integration, key, exec, crit) ==
    [integration |-> integration, key |-> key, exec |-> exec, crit |-> crit]

\* Repository.Create of a staged relationship.  No code sets the references to the
\* staged entities (UpdateEntityReferences is never called): they stay NULL.
Staged(k, r) ==
    IF k \in DOMAIN rels
    THEN [rels[k] EXCEPT !.exec = r.exec, !.updated = now, !.deleted = FALSE,
                         !.crit = IF r.crit = <<>> THEN @ ELSE r.crit]
    ELSE [integration |-> r.integration, key |-> r.key, exec |-> r.exec, crit |-> r.crit,
          created |-> now, updated |-> now, deleted |-> FALSE, refs |-> {}]

\* The relationship of a message's record, of an embedded one, and of a match.
DirectRel(m) == LET r == Normalize(m)
                IN <<RelKey(r.type, r.fromType, r.from, r.fromInt, r.toType, r.to, r.toInt, m.config),
                     RelRow(m.integration, m.key, m.exec, <<>>)>>
EmbeddedRel(m, r) == <<RelKey(r.type, m.type, m.id, m.integration, r.toType, r.to, m.integration, m.config),
                       RelRow(m.integration, m.key, m.exec, <<>>)>>
MatchRel(c, e, row) == <<RelKey(c.type, c.fromType, c.from, c.fromInt, e[1], e[2], e[3], c.config),
                         RelRow(row.integration, row.key, row.exec, <<c>>)>>

CriteriaKey(m) == LET r == Normalize(m)
                  IN [type |-> r.type, fromType |-> r.fromType, from |-> r.from, fromInt |-> r.fromInt,
                      toType |-> r.toType, toInt |-> r.toInt, cond |-> r.criteria, config |-> m.config]

Live(t) == {k \in DOMAIN t : ~t[k].deleted}

-----------------------------------------------------------------------------
(* The handler.                                                             *)

Handling(p, pc) == step[p] = "handle" /\ h[p].pc = pc
GoesTo(p, r) == h' = [h EXCEPT ![p] = r]

\* The handler returns.
Returns(p, ok) == GoesTo(p, Idle) /\ Return(p, ok)
\* It goes on.
Continues(p, r) == GoesTo(p, r) /\ UNCHANGED consumer
\* A statement fails.
Fault == faults + restarts < MaxFaults /\ faults' = faults + 1

Receive(p) ==
    /\ Call(p)
    /\ GoesTo(p, [pc |-> Entry(Message(p)), rels |-> Message(p).rels])
    /\ UNCHANGED <<now, entities, rels, criteria, matches, faults, versions, cutOff>>

Skip(p) ==
    /\ Handling(p, "skip")
    /\ Returns(p, TRUE)
    /\ UNCHANGED <<now, entities, rels, criteria, matches, faults, versions, cutOff>>

(* processEntity *)

\* Mutant of AfterUpsert: an entity that has not changed is not evaluated again.
AfterUpsertUnchanged(p, key, row) ==
    LET fp == Fingerprint(row.data)
    IN [pc |-> IF fp # row.fp THEN "fingerprint" ELSE IF key \in DOMAIN entities THEN "skip" ELSE "embed",
        key |-> key, data |-> row.data, fp |-> fp, rels |-> h[p].rels]

\* What the second statement writes, if the fingerprint has changed.
AfterUpsert(p, key, row) ==
    LET fp == Fingerprint(row.data)
    IN [pc |-> IF fp = row.fp THEN "embed" ELSE "fingerprint", key |-> key, data |-> row.data,
        fp |-> fp, rels |-> h[p].rels]

Upsert(p) ==
    /\ Handling(p, "upsert")
    /\ LET key == EntityKey(Message(p))
           row == Upserted(key, Message(p))
       IN \/ /\ entities' = With(entities, key, row)
             /\ versions' = versions \union {<<key, row.data>>}
             /\ Continues(p, AfterUpsert(p, key, row))
             /\ UNCHANGED faults
          \/ Fault /\ Returns(p, FALSE) /\ UNCHANGED <<entities, versions>>
    /\ UNCHANGED <<now, rels, criteria, matches, cutOff>>

\* Mutant of UpdateFingerprint: the error of the second statement is only logged.
UpdateFingerprintOrNot(p) ==
    /\ Handling(p, "fingerprint")
    /\ \/ /\ entities' = [entities EXCEPT ![h[p].key].fp = h[p].fp, ![h[p].key].updated = now]
          /\ UNCHANGED faults
       \/ Fault /\ UNCHANGED entities
    /\ Continues(p, [h[p] EXCEPT !.pc = "embed"])
    /\ UNCHANGED <<now, rels, criteria, matches, versions, cutOff>>

UpdateFingerprint(p) ==
    /\ Handling(p, "fingerprint")
    /\ \/ /\ entities' = [entities EXCEPT ![h[p].key].fp = h[p].fp, ![h[p].key].updated = now]
          /\ Continues(p, [h[p] EXCEPT !.pc = "embed"])
          /\ UNCHANGED faults
       \/ Fault /\ Returns(p, FALSE) /\ UNCHANGED entities
    /\ UNCHANGED <<now, rels, criteria, matches, versions, cutOff>>

\* Create stages a relationship and reads it back by its id: either statement may fail.
\* They are one step; a row that another process deletes between them is a failed read.
Create(k, r, ok) ==
    \/ ok /\ rels' = With(rels, k, Staged(k, r)) /\ UNCHANGED faults
    \/ ~ok /\ Fault /\ rels' \in {rels, With(rels, k, Staged(k, r))}

\* An embedded relationship that fails is logged.
Embed(p) ==
    /\ Handling(p, "embed") /\ h[p].rels # <<>>
    /\ LET new == EmbeddedRel(Message(p), Head(h[p].rels))
       IN \E ok \in BOOLEAN : Create(new[1], new[2], ok)
    /\ Continues(p, [h[p] EXCEPT !.rels = Tail(@)])
    /\ UNCHANGED <<now, entities, criteria, matches, versions, cutOff>>

\* FindByTarget, with MatchesCriteria on the entity as it was staged.
TargetedBy(key, data) ==
    {c \in DOMAIN criteria : c.toType = key[1] /\ c.toInt = key[3] /\ MatchesCriteria(Map(data), c.cond)}

\* EvaluateCriteriaForNewEntity; an error is logged.
FindByTarget(p) ==
    /\ Handling(p, "embed") /\ h[p].rels = <<>>
    /\ \/ /\ \E todo \in SetToSeqs({<<c, h[p].key, criteria[c]>> : c \in TargetedBy(h[p].key, h[p].data)}) :
                Continues(p, [pc |-> "pair", todo |-> todo])
          /\ UNCHANGED faults
       \/ Fault /\ Returns(p, TRUE)
    /\ UNCHANGED <<now, entities, rels, criteria, matches, versions, cutOff>>

\* createMatchWithRelationship: the relationship first; if that fails, on to the next.
Pair(p) ==
    /\ Handling(p, "pair") /\ h[p].todo # <<>>
    /\ LET x == Head(h[p].todo)
           new == MatchRel(x[1], x[2], x[3])
       IN \E ok \in BOOLEAN :
            /\ Create(new[1], new[2], ok)
            /\ Continues(p, IF ok THEN [h[p] EXCEPT !.pc = "match"] ELSE [h[p] EXCEPT !.todo = Tail(@)])
    /\ UNCHANGED <<now, entities, criteria, matches, versions, cutOff>>

\* AddMatch, whose error is logged.
AddMatch(p) ==
    /\ Handling(p, "match")
    /\ \/ matches' = matches \union {SubSeq(Head(h[p].todo), 1, 2)} /\ UNCHANGED faults
       \/ Fault /\ UNCHANGED matches
    /\ Continues(p, [h[p] EXCEPT !.pc = "pair", !.todo = Tail(@)])
    /\ UNCHANGED <<now, entities, rels, criteria, versions, cutOff>>

Paired(p) ==
    /\ Handling(p, "pair") /\ h[p].todo = <<>>
    /\ Returns(p, TRUE)
    /\ UNCHANGED <<now, entities, rels, criteria, matches, faults, versions, cutOff>>

(* processRelationship *)

Direct(p) ==
    /\ Handling(p, "direct")
    /\ LET new == DirectRel(Message(p))
       IN \E ok \in BOOLEAN : Create(new[1], new[2], ok) /\ Returns(p, ok)
    /\ UNCHANGED <<now, entities, criteria, matches, versions, cutOff>>

\* The row of the criteria after Upsert: of one that is there, the execution changes.
CriteriaRow(c, m) ==
    IF c \in DOMAIN criteria THEN [criteria[c] EXCEPT !.exec = m.exec]
    ELSE [integration |-> m.integration, key |-> m.key, exec |-> m.exec]

\* processCriteriaRelationship: only criteria that were not there are evaluated.
UpsertCriteria(p) ==
    /\ Handling(p, "criteria")
    /\ LET m == Message(p)
           c == CriteriaKey(m)
           row == CriteriaRow(c, m)
       IN \/ /\ criteria' = With(criteria, c, row)
             /\ IF c \in DOMAIN criteria THEN Returns(p, TRUE)
                ELSE Continues(p, [pc |-> "evaluate", crit |-> c, row |-> row])
             /\ UNCHANGED faults
          \/ Fault /\ Returns(p, FALSE) /\ UNCHANGED criteria
    /\ UNCHANGED <<now, entities, rels, matches, versions, cutOff>>

\* FindByTypeAndIntegration, with MatchesCriteria.
Targets(c) == {k \in Live(entities) :
                 k[1] = c.toType /\ k[3] = c.toInt /\ MatchesCriteria(Map(entities[k].data), c.cond)}

\* EvaluateCriteriaForNewCriteria; an error is logged.
FindTargets(p) ==
    /\ Handling(p, "evaluate")
    /\ \/ /\ \E todo \in SetToSeqs({<<h[p].crit, k, h[p].row>> : k \in Targets(h[p].crit)}) :
                Continues(p, [pc |-> "pair", todo |-> todo])
          /\ UNCHANGED faults
       \/ Fault /\ Returns(p, TRUE)
    /\ UNCHANGED <<now, entities, rels, criteria, matches, versions, cutOff>>

(* handleDelete *)

\* FindBySourceID, the latest first; the one of the message's plan is preferred.
Candidates(m) == {k \in Live(entities) : k[1] = m.type /\ k[2] = m.id}
Preferred(m) ==
    LET own == {k \in Candidates(m) : m.key # "" /\ k[4] = m.key}
        from == IF own # {} THEN own ELSE Candidates(m)
    IN {k \in from : \A x \in from : entities[k].updated >= entities[x].updated}

FindCandidates(p) ==
    /\ Handling(p, "candidates")
    /\ \/ /\ IF Preferred(Message(p)) = {} THEN Returns(p, TRUE)
             ELSE \E k \in Preferred(Message(p)) : Continues(p, [pc |-> "delete", key |-> k])
          /\ UNCHANGED faults
       \/ Fault /\ Returns(p, TRUE)
    /\ UNCHANGED <<now, entities, rels, criteria, matches, versions, cutOff>>

\* Delete fails on a row that is gone by now; an error is logged.
DeleteEntity(p) ==
    /\ Handling(p, "delete")
    /\ \/ /\ entities' = [entities EXCEPT ![h[p].key].deleted = TRUE]
          /\ IF entities[h[p].key].deleted THEN Returns(p, TRUE)
             ELSE Continues(p, [h[p] EXCEPT !.pc = "unlink"])
          /\ UNCHANGED faults
       \/ Fault /\ Returns(p, TRUE) /\ UNCHANGED entities
    /\ UNCHANGED <<now, rels, criteria, matches, versions, cutOff>>

\* SoftDeleteByEntityID, of the message's plan if it names one.
DeleteRelationships(p) ==
    /\ Handling(p, "unlink")
    /\ \/ /\ rels' = [k \in DOMAIN rels |->
                IF h[p].key \in rels[k].refs /\ Message(p).key \in {"", rels[k].key}
                THEN [rels[k] EXCEPT !.deleted = TRUE] ELSE rels[k]]
          /\ UNCHANGED faults
       \/ Fault /\ UNCHANGED rels
    /\ Returns(p, TRUE)
    /\ UNCHANGED <<now, entities, criteria, matches, versions, cutOff>>

(* handleExecutionCompleted *)

\* ExecuteStrategy: a composite strategy runs its parts, each with the scope of the
\* whole; a part that counts no days has no configuration and is passed over, and so
\* are "explicit" and unknown strategies.
PartOf(s, part) ==
    [kind |-> IF part.kind \in {"staleness", "retention"} THEN part.kind ELSE "explicit",
     days |-> part.days, field |-> part.field,
     entity |-> s.entity, relationship |-> s.relationship, integration |-> s.integration]
Parts(s) == IF s.kind = "composite" THEN [i \in DOMAIN s.parts |-> PartOf(s, s.parts[i])] ELSE <<s>>

\* One statement per table.
OnTable(q, table) ==
    [table |-> table, kind |-> q.kind, days |-> q.days, field |-> q.field,
     entity |-> q.entity, relationship |-> q.relationship, integration |-> q.integration]
StatementsOf(q) ==
    IF q.kind \notin {"execution", "staleness", "retention"} THEN <<>>
    ELSE (IF q.entity # "" THEN <<OnTable(q, "entities")>> ELSE <<>>)
         \o (IF q.relationship # "" THEN <<OnTable(q, "rels")>> ELSE <<>>)
Statements(s) == FlattenSeq([i \in DOMAIN Parts(s) |-> StatementsOf(Parts(s)[i])])

ListStrategies(p) ==
    /\ Handling(p, "strategies")
    /\ \/ /\ Continues(p, [pc |-> "sweep", todo |-> FlattenSeq([i \in DOMAIN strategies |-> Statements(strategies[i])])])
          /\ UNCHANGED faults
       \/ Fault /\ Returns(p, TRUE)
    /\ UNCHANGED <<now, entities, rels, criteria, matches, versions, cutOff>>

\* Mutant of Unseen: the execution of the row is not asked for.
UnseenByPlan(m, row, key) == key = m.key

\* The WHERE clauses.  MarkDeletedExceptExecution: a row without execution compares
\* to NULL.
Unseen(m, row, key) == key = m.key /\ row.exec \notin {"", m.exec}
Stale(s, row) == row[IF s.field = "" THEN "updated" ELSE s.field] < now - s.days
Outlived(s, row) == row[IF s.field = "" THEN "created" ELSE s.field] < now - s.days
Doomed(s, m, row, key) ==
    CASE s.kind = "execution" -> Unseen(m, row, key)
      [] s.kind = "staleness" -> Stale(s, row)
      [] s.kind = "retention" -> Outlived(s, row)

\* An execution-based strategy ignores its integration.
InScope(s, type, integration) ==
    /\ type = (IF s.table = "entities" THEN s.entity ELSE s.relationship)
    /\ s.kind # "execution" /\ s.integration # "" => integration = s.integration

\* One statement; if that of the entities fails, that of the relationships of the
\* same part is left out, and the next part follows.
Sweep(p) ==
    /\ Handling(p, "sweep") /\ h[p].todo # <<>>
    /\ LET s == Head(h[p].todo)
           rest == Tail(h[p].todo)
           m == Message(p)
       IN \/ /\ IF s.table = "entities"
                THEN /\ entities' = [k \in DOMAIN entities |->
                          IF InScope(s, k[1], k[3]) /\ Doomed(s, m, entities[k], k[4])
                          THEN [entities[k] EXCEPT !.deleted = TRUE] ELSE entities[k]]
                     /\ UNCHANGED rels
                ELSE /\ rels' = [k \in DOMAIN rels |->
                          IF InScope(s, k.type, rels[k].integration) /\ Doomed(s, m, rels[k], rels[k].key)
                          THEN [rels[k] EXCEPT !.deleted = TRUE] ELSE rels[k]]
                     /\ UNCHANGED entities
             /\ Continues(p, [h[p] EXCEPT !.todo = rest])
             /\ UNCHANGED faults
          \/ /\ Fault
             /\ Continues(p, [h[p] EXCEPT !.todo =
                    IF s.table = "entities" /\ s.relationship # "" THEN Tail(rest) ELSE rest])
             /\ UNCHANGED <<entities, rels>>
    /\ UNCHANGED <<now, criteria, matches, versions, cutOff>>

Swept(p) ==
    /\ Handling(p, "sweep") /\ h[p].todo = <<>>
    /\ Returns(p, TRUE)
    /\ UNCHANGED <<now, entities, rels, criteria, matches, faults, versions, cutOff>>

-----------------------------------------------------------------------------

\* A restart forgets the handler and nothing else.
Crash(p) ==
    /\ faults + restarts < MaxFaults
    /\ Restart(p)
    /\ GoesTo(p, Idle)
    /\ cutOff' = IF h[p].pc \in {"evaluate", "pair", "match"} /\ Entry(Message(p)) = "criteria"
                 THEN cutOff \union {CriteriaKey(Message(p))} ELSE cutOff
    /\ UNCHANGED <<now, entities, rels, criteria, matches, faults, versions>>

\* A day passes; only strategies that count days can tell.
Tick ==
    /\ now < MaxTime
    /\ \E i \in DOMAIN strategies : strategies[i].kind \notin {"execution", "explicit"}
    /\ now' = now + 1
    /\ UNCHANGED <<consumer, entities, rels, criteria, matches, h, faults, versions, cutOff>>

Init ==
    /\ ConsumerInit
    /\ now = 0 /\ faults = 0
    /\ entities = <<>> /\ rels = <<>> /\ criteria = <<>> /\ matches = {}
    /\ h = Everywhere(Idle)
    /\ versions = {} /\ cutOff = {}

Handler(p) ==
    \/ Skip(p)
    \/ Upsert(p) \/ UpdateFingerprint(p) \/ Embed(p) \/ FindByTarget(p)
    \/ Pair(p) \/ AddMatch(p) \/ Paired(p)
    \/ Direct(p) \/ UpsertCriteria(p) \/ FindTargets(p)
    \/ FindCandidates(p) \/ DeleteEntity(p) \/ DeleteRelationships(p)
    \/ ListStrategies(p) \/ Sweep(p) \/ Swept(p)
Loop(p) == (ConsumerStep(p) /\ UNCHANGED ivy) \/ Receive(p) \/ Handler(p)
Ended == \A p \in Partitions : AtEnd(p)

Next ==
    \/ \E p \in Partitions : Loop(p) \/ (Flush(p) /\ UNCHANGED ivy) \/ Crash(p)
    \/ Tick
    \/ Ended /\ UNCHANGED vars

\* Every process keeps working.
Spec == Init /\ [][Next]_vars /\ \A p \in Partitions : WF_vars(Loop(p))

-----------------------------------------------------------------------------
(* Properties.                                                              *)

\* Every variable has its type; no row is older than its creation says, and a handler
\* runs exactly while the loop of its partition is in it.
TypeOK ==
    /\ ConsumerTypeOK
    /\ now \in 0..MaxTime /\ faults \in 0..MaxFaults
    /\ \A k \in DOMAIN entities : entities[k].created \in 0..now /\ entities[k].updated \in entities[k].created..now
    /\ \A k \in DOMAIN rels : rels[k].updated \in rels[k].created..now
    /\ \A p \in Partitions : (h[p] # Idle) = (step[p] = "handle")
    /\ cutOff \subseteq DOMAIN criteria

\* The messages of the log that stage entity k, or delete the entity with its id.
Stages(m, k)  == m # Junk /\ Entry(m) = "upsert" /\ EntityKey(m) = k
Deletes(m, k) == m # Junk /\ Entry(m) = "candidates" /\ m.type = k[1] /\ m.id = k[2]
\* It names the plan of the entity, too.
DeletesOwn(m, k) == Deletes(m, k) /\ m.key # "" /\ m.key = k[4]
Sources(k) == {p \in Partitions : \E o \in Offsets(p) : Stages(log[p][o], k)}
\* The offset of the last message of p that is about k.
LastAbout(p, k) == Max({o \in Offsets(p) : Stages(log[p][o], k) \/ Deletes(log[p][o], k)})

\* Every live entity that matches a criterion has the relationship, live unless a
\* strategy removes relationships.
NoPairMissed ==
    \A c \in DOMAIN criteria \ cutOff : \A k \in Targets(c) :
        LET r == MatchRel(c, k, criteria[c])[1]
        IN /\ r \in DOMAIN rels
           /\ (\A i \in DOMAIN strategies : strategies[i].relationship = "") => r \in Live(rels)

\* Criteria and entities meet in whatever order and on whatever partitions they
\* arrive: when everything is read no pair is missed, except for statements that
\* failed, and for a criterion whose first evaluation a restart cut off: its
\* redelivery finds the row there and does not evaluate it again.  At all times a
\* relationship is attributed to a criterion only if the entity once matched it, and
\* a recorded match has its relationship.
PairsExact ==
    /\ Ended /\ faults = 0 => NoPairMissed
    /\ \A r \in DOMAIN rels : \A c \in Range(rels[r].crit) :
         \E v \in versions : /\ MatchRel(c, v[1], criteria[c])[1] = r
                             /\ c.toType = r.toType /\ c.toInt = r.toInt
                             /\ MatchesCriteria(Map(v[2]), c.cond)
    /\ \A x \in matches : MatchRel(x[1], x[2], criteria[x[1]])[1] \in DOMAIN rels

\* A restart between the two statements of an upsert is repaired by the redelivery:
\* in the end the stored fingerprint is that of the data, unless the message failed,
\* which nothing retries, or two partitions stage the entity, whose second statements
\* may swap.
FingerprintFresh ==
    Ended => \A k \in DOMAIN entities :
        \/ entities[k].fp = Fingerprint(entities[k].data)
        \/ \E p \in Partitions : \E o \in failed[p] : Stages(log[p][o], k)
        \/ Cardinality(Sources(k)) > 1

\* No other row has k's type, id and plan: a row of another integration or configuration
\* might, and a message that deletes is not matched with either.
Alone(k) == \A x \in DOMAIN entities : x[1] = k[1] /\ x[2] = k[2] /\ x[4] = k[4] => x = k

\* Redelivery and the order of the partitions leave the last word to the last message
\* about an entity.  In the end an entity is gone only if some message deletes its id,
\* a strategy counts days, or the completion of another execution of its plan than the
\* one that last staged it was read; and it is gone if the last message of its
\* partition about it deletes it by naming its plan, and no other row can be meant.
LastWordHolds ==
    Ended /\ faults = 0 =>
        \A k \in DOMAIN entities : \A p \in Sources(k) :
            Cardinality(Sources(k)) = 1 =>
            /\ entities[k].deleted =>
                 \E q \in Partitions : \E o \in {x \in Offsets(q) : Parses(q, x)} : LET m == log[q][o] IN
                    \/ Deletes(m, k)
                    \/ /\ Entry(m) = "strategies"
                       /\ \E i \in DOMAIN strategies :
                            \/ strategies[i].kind \in {"staleness", "retention", "composite"}
                            \/ /\ strategies[i].entity = k[1] /\ m.key = k[4]
                               /\ m.exec # log[p][Max({x \in Offsets(p) : Stages(log[p][x], k)})].exec
            /\ DeletesOwn(log[p][LastAbout(p, k)], k) /\ Alone(k) => entities[k].deleted

=============================================================================
