--------------------------- MODULE MCLotusPipeline ---------------------------
(* An instance of LotusPipeline for TLC. *)
EXTENDS LotusPipeline, TLC

Orchid(type, items) ==
    [type |-> type, items |-> items, integration |-> "crm", plan |-> "people", status |-> 200,
     path |-> <<"root">>, url |-> {"users"}]

\* A page of two records, an execution event, and a record that only looks like Orchid's.
OneLog == <<[p \in Partitions |->
    <<Orchid("orchid", 2), Orchid("event", -1), [Orchid("foreign", -1) EXCEPT !.integration = ""]>>]>>

Crm == [NoFilter EXCEPT !.integration = "crm"]
Config(on, mp, topic, f) == [on |-> on, mapping |-> mp, topic |-> topic, filter |-> f]

\* b0 takes everything of the integration; b1 is created and edited.
Start == [b0 |-> Config(TRUE, "m0", TRUE, Crm)]
Edits == {Config(TRUE, "m0", TRUE, [Crm EXCEPT !.prefix = <<"root", 1>>, !.keys = {"people"}, !.min = 200, !.max = 299, !.url = "users"]),
          Config(FALSE, "m0", TRUE, Crm)}
=============================================================================
