--------------------------- MODULE MCIvyIngestion ---------------------------
(* An instance of IvyIngestion for TLC: one log and one set of strategies at a time. *)
EXTENDS IvyIngestion

NoRel == [type |-> "", fromType |-> "", from |-> "", fromInt |-> "",
          toType |-> "", to |-> "", toInt |-> "", criteria |-> <<>>]

Base == [event |-> "", delete |-> FALSE, tenant |-> "t", schema |-> "", rel |-> <<>>, rels |-> <<>>,
         type |-> "person", id |-> "x", integration |-> "crm", key |-> "people", config |-> "main", exec |-> "e1", data |-> <<>>]

Entity(id, exec, data) == [Base EXCEPT !.schema = "entity", !.id = id, !.exec = exec, !.data = data]
Deletion(id, key) == [Base EXCEPT !.delete = TRUE, !.id = id, !.key = key]
Done(exec) == [Base EXCEPT !.event = "success", !.exec = exec]
Rel(exec, r) == [Base EXCEPT !.rel = r, !.exec = exec, !.key = "teams"]

Age(n) == [age |-> Num(n), seen |-> Num(n)]
Admins == [NoRel EXCEPT !.type = "owns", !.fromType = "team", !.from = "z", !.toType = "person",
                        !.criteria = [f \in {<<"age">>} |-> Map([o \in {"$gte"} |-> Num(2)])]]
Knows == [NoRel EXCEPT !.type = "knows", !.fromType = "person", !.from = "x", !.toType = "person", !.to = "y"]
Embedded == [type |-> "knows", toType |-> "person", to |-> "y"]

Strategy(kind, entity, relationship, days) ==
    [kind |-> kind, entity |-> entity, relationship |-> relationship, integration |-> "",
     days |-> days, field |-> "", parts |-> <<>>]

\* The cases, each a log and the strategies of the tenant.
Case(a, b, s) == [log |-> [p \in Partitions |-> IF p = 1 THEN a ELSE b], strategies |-> s]
Cases ==
    << \* an entity that comes to match, beside its criterion, which comes twice
      Case(<<Entity("x", "e1", Age(1)), Entity("x", "e2", Age(2))>>,
           <<Rel("e1", Admins), Rel("e2", Admins)>>, <<>>),
      \* two entities, one with an embedded relationship
      Case(<<[Entity("x", "e1", Age(2)) EXCEPT !.rels = <<Embedded>>], Entity("y", "e1", Age(3))>>,
           <<Rel("e1", Admins), Rel("e1", Knows)>>, <<>>),
      \* deletes by the own plan and by none, beside another plan's entity with the same id
      Case(<<Entity("x", "e1", Age(1)), Deletion("x", "people")>>,
           <<[Entity("x", "e1", Age(1)) EXCEPT !.key = "staff"], Deletion("x", "")>>, <<>>),
      \* a delete that may mean the entity of either integration or configuration
      Case(<<Entity("x", "e1", Age(1)), Deletion("x", "people")>>,
           <<[Entity("x", "e1", Age(1)) EXCEPT !.integration = "hr"],
             [Entity("x", "e1", Age(1)) EXCEPT !.config = "other"]>>, <<>>),
      \* the same entity from two bindings
      Case(<<Entity("x", "e1", Age(1)), Entity("x", "e2", Age(2))>>,
           <<Entity("x", "e2", Age(3))>>, <<>>),
      \* full syncs
      Case(<<Entity("x", "e1", Age(1)), Entity("y", "e1", Age(1)), Entity("x", "e2", Age(1))>>,
           <<[Done("e1") EXCEPT !.event = "failed"], Done("e2")>>,
           <<Strategy("execution", "person", "knows", 0)>>),
      Case(<<[Entity("x", "e1", Age(1)) EXCEPT !.rels = <<Embedded>>]>>,
           <<Done("e1"), [Rel("e1", Knows) EXCEPT !.key = "people"], Done("e2")>>,
           <<Strategy("execution", "", "knows", 0), Strategy("explicit", "person", "", 0)>>),
      \* strategies that count days
      Case(<<Entity("x", "e1", Age(1)), Entity("x", "e2", [seen |-> Num(2)])>>,
           <<Done("e1"), Done("e2")>>,
           <<[Strategy("staleness", "person", "", 0) EXCEPT !.integration = "crm"]>>),
      Case(<<[Entity("x", "e1", Age(1)) EXCEPT !.rels = <<Embedded>>]>>, <<Done("e2")>>,
           <<[Strategy("composite", "person", "knows", 0) EXCEPT !.parts =
                 <<[kind |-> "retention", days |-> 1, field |-> ""], [kind |-> "staleness", days |-> 1, field |-> "created"],
                   [kind |-> "execution", days |-> 0, field |-> ""]>>]>>),
      \* what is passed over
      Case(<<Junk, [Entity("x", "e1", Age(1)) EXCEPT !.tenant = ""], [Entity("x", "e1", Age(1)) EXCEPT !.integration = ""]>>,
           <<Rel("e1", NoRel), [Rel("e1", Admins) EXCEPT !.integration = ""], [Base EXCEPT !.schema = "other"],
             Entity("x", "", Age(1))>>, <<>>)>>

CaseLogs == [i \in DOMAIN Cases |-> Cases[i].log]
CaseStrategies == [i \in DOMAIN Cases |-> Cases[i].strategies]

\* The laws of criteria on small values, nested and missing fields among them.
Values == {None, Text("a"), Text("2"), Text("true"), Text("[2 a]"), Flag(TRUE), Num(1), Num(2),
           List(<<Num(2), Text("a")>>)}
Paths == {<<"a">>, <<"b", "c">>, <<"a", "c">>}
=============================================================================
