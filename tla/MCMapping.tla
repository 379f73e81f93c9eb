----------------------------- MODULE MCMapping -----------------------------
(***************************************************************************)
(* Three mapping definitions, the messages they are run on, and what the   *)
(* pooled, interleaved executions must agree with.                         *)
(***************************************************************************)
EXTENDS Mapping, TLC

Field(f)  == [k |-> "field", id |-> f]
Stp(s)    == [k |-> "step", id |-> s]
Const(n)  == [k |-> "const", val |-> Num(n)]
Link(p, a, b) == [priority |-> p, src |-> a, tgt |-> b]

Scalar(req, def) == [kind |-> "scalar", item |-> "", required |-> req, default |-> def]
Arr == [kind |-> "array", item |-> "each", required |-> FALSE, default |-> Nil]
Plain(req)  == [under |-> FALSE, required |-> req, default |-> Nil]
Under(def)  == [under |-> TRUE, required |-> FALSE, default |-> def]

Source == [x |-> Scalar(FALSE, Num(7)), y |-> Scalar(TRUE, Nil), list |-> Arr]

\* Two conditions in a chain, one way of three into a sum.
Chained == [src |-> Source,
            steps |-> [c1 |-> "condition", c2 |-> "condition", sum |-> "transformer"],
            tgt |-> [total |-> Plain(FALSE), seen |-> Plain(FALSE)],
            links |-> <<Link(0, Field("x"), Stp("c1")), Link(1, Stp("c1"), Stp("c2")),
                        Link(1, Stp("c1"), Field("seen")),
                        Link(2, Stp("c2"), Stp("sum")), Link(2, Field("y"), Stp("sum")),
                        Link(2, Const(5), Stp("sum")), Link(3, Stp("sum"), Field("total"))>>]

\* The items of an array go to a sum and to an array of objects, with scalars
\* written into every object.
Listing == [src |-> Source,
            steps |-> [c1 |-> "validator", c2 |-> "validator", sum |-> "transformer"],
            tgt |-> [total |-> Plain(FALSE), name |-> Under(Nil), tag |-> Under(Num(3))],
            links |-> <<Link(0, Field("x"), Stp("c1")), Link(0, Field("each"), Stp("sum")),
                        Link(0, Field("y"), Stp("c2")), Link(1, Stp("c1"), Field("tag")),
                        Link(1, Stp("c2"), Stp("sum")), Link(1, Field("each"), Field("name")),
                        Link(2, Stp("sum"), Field("total"))>>]

\* A transformer before a condition, and a target that is required.
Demanding == [src |-> Source,
              steps |-> [c1 |-> "transformer", c2 |-> "condition", sum |-> "transformer"],
              tgt |-> [total |-> Plain(TRUE), seen |-> Plain(FALSE)],
              links |-> <<Link(0, Field("y"), Stp("c1")), Link(0, Field("y"), Field("total")),
                          Link(1, Stp("c1"), Stp("c2")), Link(1, Field("x"), Stp("sum")),
                          Link(2, Stp("c2"), Stp("sum")), Link(3, Stp("sum"), Field("seen"))>>]

AllDefinitions == [chained |-> Chained, listing |-> Listing, demanding |-> Demanding]

Verdicts(a, b, c) == [c1 |-> a, c2 |-> b, sum |-> c]
Row(x, y, l) == [x |-> x, y |-> y, list |-> l]
List(s) == [t |-> "array", v |-> s]

Full == Row(Num(1), Num(2), List(<<Num(1), Num(0)>>))
AllYes == Verdicts("yes", "yes", "yes")
AllMessages ==
    [full   |-> [raw |-> Full, oracle |-> AllYes],
     broken |-> [raw |-> Full, oracle |-> Verdicts("no", "yes", "yes")],
     late   |-> [raw |-> Full, oracle |-> Verdicts("yes", "no", "yes")],
     error  |-> [raw |-> Full, oracle |-> Verdicts("yes", "yes", "error")],
     zero   |-> [raw |-> Row(Missing, Num(0), Missing), oracle |-> AllYes],
     absent |-> [raw |-> Row(Nil, Missing, Missing), oracle |-> AllYes],
     empty  |-> [raw |-> Row(Nil, Num(1), List(<<>>)), oracle |-> AllYes]]

ASSUME DefinitionsCompile == \A d \in Range(AllDefinitions) : PlanOk(d) /\ InPriorityOrder(d)

-----------------------------------------------------------------------------

Ran(d, m) == Runs(d, m, SourceValues(d, m))

\* What the link l brings, by the reference.
Brought(d, m, l) == LinkInputs([sources |-> SourceValues(d, m), results |-> Ran(d, m)], l)
InForce(d, m) == {l \in ToSet(d.links) : l.src.k = "step" => l.src.id \in DOMAIN Ran(d, m)}
FromItems(d, l) == l.src.k = "field" /\ l.src.id \notin DOMAIN d.src

\* The message fails exactly when a step it reaches, or a required field, does.
Fails(d, m) ==
    \/ SourceError(d, m)
    \/ \E s \in DOMAIN Ran(d, m) : m.oracle[s] = "error"
    \/ \E l \in InForce(d, m) : l.tgt.k = "field" /\ d.tgt[l.tgt.id].required
          /\ \E x \in ToSet(Brought(d, m, l)) : IsEmpty(x)

\* The indices of an array of objects are those of the items that some link writes.
ItemCount(d, m) ==
    LET ns == {Len(Brought(d, m, l)) : l \in {x \in ToSet(d.links) :
                    FromItems(d, x) /\ x.tgt.k = "field" /\ d.tgt[x.tgt.id].under}}
    IN IF ns = {} THEN 0 ELSE CHOOSE n \in ns : \A k \in ns : k <= n

\* What may stand at target field f (at item i of its array).
Candidates(d, m, f, i) ==
    UNION {LET in == Brought(d, m, l) IN
           CASE in = <<>>       -> {}
             [] FromItems(d, l) -> IF d.tgt[f].under THEN {Written(d.tgt[f], in[i])}
                                   ELSE {Written(d.tgt[f], in[Len(in)])}
             [] OTHER           -> {Written(d.tgt[f], in[1])}
           : l \in {x \in InForce(d, m) : x.tgt = Field(f)}}

Pairs == (DOMAIN AllDefinitions) \X (DOMAIN AllMessages)

\* The tables of the reference; joining <<>> makes TLC evaluate each entry once.
RanTable   == [p \in Pairs |-> Ran(AllDefinitions[p[1]], AllMessages[p[2]])] @@ <<>>
FailsTable == [p \in Pairs |-> Fails(AllDefinitions[p[1]], AllMessages[p[2]])] @@ <<>>
MeantAt(d, m, f, n) ==
    [i \in (IF d.tgt[f].under THEN 1..n ELSE {0}) |-> Candidates(d, m, f, i)] @@ <<>>
Meant(d, m, n) == [n |-> n, at |-> [f \in DOMAIN d.tgt |-> MeantAt(d, m, f, n)] @@ <<>>]
MeantTable ==
    [p \in Pairs |-> LET d == AllDefinitions[p[1]]  m == AllMessages[p[2]]
                     IN Meant(d, m, ItemCount(d, m))] @@ <<>>

\* A field is present exactly when something is meant to stand there.
Fits(row, f, candidates) == IF f \in DOMAIN row THEN row[f] \in candidates ELSE candidates = {}
Agrees(d, meant, out) ==
    /\ Len(out.items) = meant.n
    /\ \A f \in DOMAIN d.tgt :
         IF d.tgt[f].under THEN \A i \in 1..meant.n : Fits(out.items[i], f, meant.at[f][i])
         ELSE Fits(out.scalars, f, meant.at[f][0])
Key(w) == <<job[w].d, job[w].m>>

Busy(w) == job[w].pc \in {"links", "publish", "release"}

\* Every variable has its type; while a message is mapped, no step waits for more links
\* than lead into it.
TypeOK ==
    /\ pool \subseteq Objects /\ taken \in 0..MaxMessages
    /\ DOMAIN obj = Objects
    /\ \A w \in Workers :
         /\ job[w].pc \in {"idle", "links", "publish", "release", "failed"}
         /\ job[w] # Idle => job[w].o \in Objects /\ Key(w) \in Pairs
         /\ Busy(w) => \A s \in DOMAIN obj[job[w].o].pending :
                          obj[job[w].o].pending[s] \in 0..Len(LinksInto(Def(w), s))

\* The outcome of a message is what its mapping means for it.  Following the links
\* depth first runs exactly the steps that the reference runs, each on the same
\* inputs; what is published has the fields and items that the reference puts there,
\* so that a pooled object carries nothing over from an earlier message and no other
\* worker writes into it before the publication; and a message goes to the error
\* topic only if its mapping fails on it.
OutcomeIsMeant ==
    \A w \in Workers :
        /\ job[w].pc = "publish" => obj[job[w].o].results = RanTable[Key(w)]
        /\ job[w].pc = "release" =>
             ~FailsTable[Key(w)] /\ Agrees(Def(w), MeantTable[Key(w)], job[w].out)
        /\ job[w].pc = "failed" => FailsTable[Key(w)]

\* Every message that a worker takes up comes to its end, and gives its object back.
ObjectsComeBack == \A o \in Objects : (o \notin pool) ~> (o \in pool)
=============================================================================
