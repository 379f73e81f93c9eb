--------------------------- MODULE MCPlanExecution ---------------------------
(* An instance of PlanExecution for TLC: one plan at a time. *)
EXTENDS PlanExecution, TLC

Plan(pages, shape, life, limits, kinds) ==
    [pages |-> pages, shape |-> shape, life |-> life, limits |-> limits, kinds |-> kinds]
Limit(requests, per, concurrent, dynamic) ==
    [requests |-> requests, window |-> per, concurrent |-> concurrent, dynamic |-> dynamic]

\* Responses.
Response(is, retry, next, resets) == [is |-> is, retry |-> retry, next |-> next, resets |-> resets]
Page(is) == Response(is, FALSE, TRUE, FALSE)
Other(is) == Response(is, FALSE, FALSE, FALSE)
Good == Page("good")
Busy == Response("good", TRUE, FALSE, TRUE)
\* retry_when, or a 429, on a response that has a cursor all the same.
Again(is) == Response(is, TRUE, TRUE, FALSE)

Cases ==
    << \* pages, with responses that are retried, without and with a cursor
       Plan(2, "plain", 0, <<>>, {Good, Busy}),
       Plan(2, "plain", 0, <<>>, {Good, Again("good")}),
       \* every kind of response
       Plan(1, "plain", 0, <<>>, {Good, Page("break"), Other("abortWhen"), Other("invalid")}
                                 \union {Other("ignored"), Page("ignored"), Other("abortOn")}
                                 \union {Again("break"), Response("abortWhen", TRUE, FALSE, FALSE)}),
       \* sub-steps, once and for each item
       Plan(1, "subs", 0, <<>>, {Good}),
       Plan(1, "fanout", 0, <<>>, {Good, Other("ignored")}),
       \* an auth flow, with tokens that outlive the skew and tokens that do not
       Plan(1, "plain", Skew + 2, <<>>, {Good}),
       Plan(1, "plain", Skew, <<>>, {Good}),
       \* a concurrency limit before a window that responses may block
       Plan(1, "plain", 0, <<Limit(2, 1, 1, FALSE), Limit(1, 2, 0, TRUE)>>, {Good, Busy})>>
=============================================================================
