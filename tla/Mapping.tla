------------------------------- MODULE Mapping -------------------------------
(***************************************************************************)
(* The execution of compiled mappings (lotus/pkg/mapping, steps, links,    *)
(* fields): workers take Mapping objects from a sync.Pool, extract the     *)
(* source fields of a message, run the links depth first, assemble the     *)
(* target and publish it, and put the object back.                         *)
(*                                                                         *)
(* A definition has links in priority order, the type of each step, and    *)
(* its source and target fields.  What the action of a step answers on a   *)
(* message is the message's `oracle': "yes", "no" (a false verdict, or nil *)
(* from a transformer) or "error"; the value a transformer returns names   *)
(* the step and the bag of its inputs.  Arrays have one level.             *)
(***************************************************************************)
EXTENDS Integers, Sequences, FiniteSets, SequencesExt, Functions

CONSTANTS Workers,      \* goroutines of the consumer
          Objects,      \* Mapping objects that the pool may hand out
          Definitions,  \* compiled mapping definitions, by name
          Messages,     \* [raw, oracle] records, by name
          MaxMessages   \* bound on the messages that are processed

ASSUME ObjectsAssumption == Cardinality(Objects) >= Cardinality(Workers)

VARIABLES pool,     \* objects that are free
          obj,      \* contents of every object
          job,      \* what each worker does: Idle, or [d, m, o, todo, pc, out]
          taken     \* messages taken so far

vars == <<pool, obj, job, taken>>

Nil    == [t |-> "nil"]
Num(n) == [t |-> "number", v |-> n]
Made(s, in) == [t |-> "made", by |-> s, from |-> [x \in ToSet(in) |-> Cardinality({i \in DOMAIN in : in[i] = x})]]
Missing == [t |-> "missing"]

\* ectolinq.IsEmpty: a zero is as empty as nil.
IsEmpty(x) == x \in {Nil, Num(0)}

Idle == [pc |-> "idle"]

-----------------------------------------------------------------------------
(* The definition.                                                          *)

LinksFrom(d, s)   == SelectSeq(d.links, LAMBDA l : l.src.k = "step" /\ l.src.id = s)
LinksInto(d, s)   == SelectSeq(d.links, LAMBDA l : l.tgt.k = "step" /\ l.tgt.id = s)
SourceLinks(d)    == SelectSeq(d.links, LAMBDA l : l.src.k \in {"field", "const"})

\* GenerateMappingPlan: every step that a link names is defined and fed by some
\* link; createStep follows the links of a step to its sources, and a cycle of
\* steps never returns.
StepParents(d, s) == {l.src.id : l \in {x \in ToSet(LinksInto(d, s)) : x.src.k = "step"}}
Ancestors(d, s, n) ==
    LET up[k \in 0..n] == IF k = 0 THEN StepParents(d, s)
                          ELSE up[k - 1] \cup UNION {StepParents(d, p) : p \in up[k - 1]}
    IN up[n]
PlanOk(d) ==
    \A s \in DOMAIN d.steps : LinksInto(d, s) # <<>>
                              /\ s \notin Ancestors(d, s, Cardinality(DOMAIN d.steps))
\* Links.ToPriority
InPriorityOrder(d) == \A i, j \in DOMAIN d.links : i < j => d.links[i].priority <= d.links[j].priority

-----------------------------------------------------------------------------
(* Source fields.                                                           *)

\* setSourceFieldValue: a missing field has its default, or the zero of its type;
\* nil passes every type check.
Extract(field, x) ==
    CASE x # Missing          -> x
      [] field.kind = "array" -> [t |-> "array", v |-> <<>>]
      [] OTHER                -> IF IsEmpty(field.default) THEN Num(0) ELSE field.default

\* A required field that is missing, a value of the wrong type, and nil where
\* items are expected (toArray) fail the message.
Refused(field, x) ==
    \/ x = Missing /\ field.required
    \/ x # Missing /\ field.kind = "array" /\ x.t # "array"
    \/ x # Missing /\ field.kind = "scalar" /\ x.t \notin {"nil", "number"}

SourceError(d, m) == \E f \in DOMAIN d.src : Refused(d.src[f], m.raw[f])

\* AddSourceRaw: the values of a source field, with the index of each item.
SourceValues(d, m) ==
    LET value(f) == Extract(d.src[f], m.raw[f]) IN
    [f \in DOMAIN d.src \cup {d.src[a].item : a \in {x \in DOMAIN d.src : d.src[x].kind = "array"}} |->
        IF f \in DOMAIN d.src THEN <<value(f)>>
        ELSE value(CHOOSE a \in DOMAIN d.src : d.src[a].kind = "array" /\ d.src[a].item = f).v]

-----------------------------------------------------------------------------
(* Objects.                                                                 *)

\* Mapping.Reset
Blank == [sources |-> <<>>, inputs |-> <<>>, pending |-> <<>>, results |-> <<>>,
          targets |-> <<>>, indices |-> {}, broadcasts |-> <<>>,
          raw |-> [scalars |-> <<>>, items |-> <<>>]]

\* What ExecuteMappingPooled fills in before the links run; the counts are
\* added to what the object holds.
Loaded(o, d, m) ==
    LET old(s) == IF s \in DOMAIN obj[o].pending THEN obj[o].pending[s] ELSE 0
    IN [obj[o] EXCEPT !.sources = SourceValues(d, m),
                      !.pending = [s \in DOMAIN d.steps |-> old(s) + Len(LinksInto(d, s))]]

With(f, k, x) == [i \in DOMAIN f \cup {k} |-> IF i = k THEN x ELSE f[i]]
At(f, k, x)   == IF k \in DOMAIN f THEN f[k] ELSE x

\* getLinkInputs: a step that broke, failed its check or has no result gives none.
LinkInputs(b, l) ==
    CASE l.src.k = "field" -> At(b.sources, l.src.id, <<>>)
      [] l.src.k = "const" -> <<l.src.val>>
      [] OTHER -> IF l.src.id \notin DOMAIN b.results \/ b.results[l.src.id] = Nil THEN <<>>
                  ELSE <<b.results[l.src.id]>>

\* addValueToTargetField
Written(field, x) == IF ~IsEmpty(x) THEN x ELSE IF IsEmpty(field.default) THEN Num(0) ELSE field.default
WriteRefused(field, x) == IsEmpty(x) /\ field.required

\* GetFieldPaths and GetPathToField: does the path to target field f lead through
\* the items of an array?
UnderArray(d, f) == d.tgt[f].under

\* setChildTargetFieldValueWithIndex: the containers on the path are made when they
\* are missing, and the leaf of an index is replaced, not added to.
SetChild(b, f, x, i) == [b EXCEPT !.targets = With(@, <<f, i>>, x)]

\* setTargetFieldValueWithIndex: a scalar for a field of an array's items waits
\* until the indices are known; -1 is the index of a scalar.
SetTarget(d, b, f, x, i) ==
    CASE UnderArray(d, f) /\ i < 0 -> [b EXCEPT !.broadcasts = Append(@, [f |-> f, v |-> x])]
      [] UnderArray(d, f) /\ i >= 0 ->
            SetChild([b EXCEPT !.indices = @ \cup {i}], f, Written(d.tgt[f], x), i)
      [] OTHER -> SetChild(b, f, Written(d.tgt[f], x), -1)

\* Items of an array keep their index; anything else is one scalar.
TargetWrites(d, b, l) ==
    LET in == LinkInputs(b, l)
    IN IF l.src.k = "field" /\ l.src.id \notin DOMAIN d.src
       THEN [i \in DOMAIN in |-> [v |-> in[i], i |-> i - 1]]
       ELSE IF in = <<>> THEN <<>> ELSE <<[v |-> in[1], i |-> -1]>>

\* A broadcast is only recorded, so it is not refused before it is applied.
WriteFails(d, l, w) == ~(UnderArray(d, l.tgt.id) /\ w.i < 0) /\ WriteRefused(d.tgt[l.tgt.id], w.v)

\* Step.Execute on at least one input.
StepOutput(d, m, s, in) ==
    CASE m.oracle[s] = "no"            -> Nil
      [] d.steps[s] = "transformer"    -> Made(s, in)
      [] OTHER                         -> in[1]

\* applyBroadcasts: one after the other, on every index that was recorded.
BroadcastFails(d, b) ==
    b.indices # {} /\ \E i \in DOMAIN b.broadcasts :
        WriteRefused(d.tgt[b.broadcasts[i].f], b.broadcasts[i].v)
ApplyBroadcasts(d, b) ==
    FoldLeft(LAMBDA acc, w : FoldLeft(LAMBDA a, i : SetTarget(d, a, w.f, w.v, i), acc, SetToSeq(b.indices)),
             b, b.broadcasts)

\* generateTargetRaw: scalars by field, and the items in the order of their index.
TargetRaw(b) ==
    LET at(i) == {k[1] : k \in {x \in DOMAIN b.targets : x[2] = i}}
        item(i) == [f \in at(i) |-> b.targets[<<f, i>>]]
        order == SetToSortSeq(b.indices, <)
    IN [scalars |-> item(-1), items |-> [n \in DOMAIN order |-> item(order[n])]]

-----------------------------------------------------------------------------

Init == /\ pool = Objects
        /\ obj = [o \in Objects |-> Blank]
        /\ job = [w \in Workers |-> Idle]
        /\ taken = 0

Def(w) == Definitions[job[w].d]
Msg(w) == Messages[job[w].m]

\* ReleaseMapping resets the object and puts it back.
Release(o) == obj' = [obj EXCEPT ![o] = Blank] /\ pool' = pool \cup {o}

\* Mutant: an error returns without giving the object back.
FailKeeps(w) == UNCHANGED <<obj, pool>> /\ job' = [job EXCEPT ![w].pc = "failed"]

Fail(w) == /\ Release(job[w].o)
           /\ job' = [job EXCEPT ![w].pc = "failed"]

\* ExecuteMappingPooled up to the first link.
Begin(w, d, m, o) ==
    /\ job[w] = Idle /\ taken < MaxMessages
    /\ o \in pool
    /\ taken' = taken + 1
    /\ IF SourceError(Definitions[d], Messages[m])
       THEN /\ job' = [job EXCEPT ![w] = [d |-> d, m |-> m, o |-> o, todo |-> <<>>, pc |-> "failed", out |-> <<>>]]
            /\ Release(o)
       ELSE /\ job' = [job EXCEPT ![w] = [d |-> d, m |-> m, o |-> o, todo |-> SourceLinks(Definitions[d]),
                                          pc |-> "links", out |-> <<>>]]
            /\ obj' = [obj EXCEPT ![o] = Loaded(o, Definitions[d], Messages[m])]
            /\ pool' = pool \ {o}

Ready(w) == job[w].pc = "links" /\ job[w].todo # <<>>

\* ExecuteLink into a target field.
LinkToField(w) ==
    LET j == job[w]  l == Head(j.todo)
        writes == TargetWrites(Def(w), obj[j.o], l)
    IN /\ Ready(w) /\ l.tgt.k = "field"
       /\ UNCHANGED taken
       /\ IF \E i \in DOMAIN writes : WriteFails(Def(w), l, writes[i]) THEN Fail(w)
          ELSE /\ obj' = [obj EXCEPT ![j.o] =
                            FoldLeft(LAMBDA b, x : SetTarget(Def(w), b, l.tgt.id, x.v, x.i), @, writes)]
               /\ job' = [job EXCEPT ![w].todo = Tail(@)]
               /\ UNCHANGED pool

\* ExecuteLink into a step: collect the inputs; the last link of a step that has
\* any input runs it, and then its own links, before anything else.
LinkToStep(w) ==
    LET j == job[w]  l == Head(j.todo)  s == l.tgt.id  b == obj[j.o]
        in == At(b.inputs, s, <<>>) \o LinkInputs(b, l)
        fed == [b EXCEPT !.inputs = With(@, s, in), !.pending[s] = @ - 1]
    IN /\ Ready(w) /\ l.tgt.k = "step"
       /\ UNCHANGED taken
       /\ CASE fed.pending[s] > 0 \/ in = <<>> ->
                 /\ obj' = [obj EXCEPT ![j.o] = fed]
                 /\ job' = [job EXCEPT ![w].todo = Tail(@)]
                 /\ UNCHANGED pool
            [] Msg(w).oracle[s] = "error" /\ fed.pending[s] <= 0 /\ in # <<>> -> Fail(w)
            [] OTHER ->
                 /\ obj' = [obj EXCEPT ![j.o] =
                              [fed EXCEPT !.results = With(@, s, StepOutput(Def(w), Msg(w), s, in))]]
                 /\ job' = [job EXCEPT ![w].todo = LinksFrom(Def(w), s) \o Tail(@)]
                 /\ UNCHANGED pool

\* Mutant: the object is released first and published from afterwards.
FinishReleases(w) ==
    LET j == job[w]  b == obj[j.o] IN
    /\ j.pc = "links" /\ j.todo = <<>>
    /\ UNCHANGED taken
    /\ IF BroadcastFails(Def(w), b) THEN Fail(w)
       ELSE /\ obj' = [obj EXCEPT ![j.o].raw = TargetRaw(ApplyBroadcasts(Def(w), b))]
            /\ job' = [job EXCEPT ![w].pc = "publish"]
            /\ pool' = pool \cup {j.o}

\* generateTargetRaw
Finish(w) ==
    LET j == job[w]  b == obj[j.o] IN
    /\ j.pc = "links" /\ j.todo = <<>>
    /\ UNCHANGED taken
    /\ IF BroadcastFails(Def(w), b) THEN Fail(w)
       ELSE /\ obj' = [obj EXCEPT ![j.o].raw = TargetRaw(ApplyBroadcasts(Def(w), b))]
            /\ job' = [job EXCEPT ![w].pc = "publish"]
            /\ UNCHANGED pool

\* The processor publishes TargetRaw and releases the object afterwards.
Publish(w) ==
    /\ job[w].pc = "publish"
    /\ job' = [job EXCEPT ![w].pc = "release", ![w].out = obj[job[w].o].raw]
    /\ UNCHANGED <<pool, obj, taken>>

Done(w) ==
    /\ job[w].pc = "release"
    /\ Release(job[w].o)
    /\ job' = [job EXCEPT ![w] = Idle]
    /\ UNCHANGED taken

\* The error went to the error topic; the worker takes up its next message.
Continue(w) == /\ job[w].pc = "failed"
               /\ job' = [job EXCEPT ![w] = Idle]
               /\ UNCHANGED <<pool, obj, taken>>

Step(w) == LinkToField(w) \/ LinkToStep(w) \/ Finish(w) \/ Publish(w) \/ Done(w) \/ Continue(w)

Next == \E w \in Workers :
            \/ Step(w)
            \/ \E d \in DOMAIN Definitions, m \in DOMAIN Messages, o \in Objects : Begin(w, d, m, o)

\* A worker that has a message runs it to the end.
Spec == Init /\ [][Next]_vars /\ \A w \in Workers : WF_vars(Step(w))

-----------------------------------------------------------------------------
(* What a mapping means, link by link rather than in an order of execution.  *)

\* A step runs when every link into it has been carried out and one of them
\* brought something: a link out of a step that did not run is never carried out.
Runs(d, m, src) ==
    LET n == Cardinality(DOMAIN d.steps)
        value(l, out) == CASE l.src.k = "field" -> At(src, l.src.id, <<>>)
                           [] l.src.k = "const" -> <<l.src.val>>
                           [] OTHER -> IF l.src.id \in DOMAIN out /\ out[l.src.id] # Nil
                                       THEN <<out[l.src.id]>> ELSE <<>>
        in(s, out) == FlattenSeq([i \in DOMAIN LinksInto(d, s) |-> value(LinksInto(d, s)[i], out)])
        may(s, out) == StepParents(d, s) \subseteq DOMAIN out /\ in(s, out) # <<>>
        \* What runs after k rounds of letting every step run that may.
        out[k \in 0..n] == IF k = 0 THEN <<>> ELSE
            [s \in {x \in DOMAIN d.steps : may(x, out[k - 1])} |-> StepOutput(d, m, s, in(s, out[k - 1]))]
    IN out[n]
=============================================================================
