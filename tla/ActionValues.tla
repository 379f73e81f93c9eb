---------------------------- MODULE ActionValues ----------------------------
(***************************************************************************)
(* Values and types of the Lotus mapping engine (lotus/pkg/models,         *)
(* lotus/pkg/utils).  A Go `any' is a tagged record; a text is a sequence  *)
(* of characters, a number a count of halves (Unit halves make one), an    *)
(* array a sequence of values, an object a function from keys to values.   *)
(* A Go int and a float64 are one number here; only array_index_of tells   *)
(* them apart (reflect.DeepEqual), and finds no int among float64s.        *)
(* Err is an (nil, error) return, Panic a panic of the goroutine.          *)
(***************************************************************************)
EXTENDS Integers, Sequences, FiniteSets

Unit == 2

Nil   == [t |-> "nil"]
Err   == [t |-> "error"]
Panic == [t |-> "panic"]
Str(s)  == [t |-> "string", v |-> s]
Num(n)  == [t |-> "number", v |-> n]
Bool(b) == [t |-> "bool",   v |-> b]
Arr(a)  == [t |-> "array",  v |-> a]
Obj(o)  == [t |-> "object", v |-> o]

Failed(x) == x.t \in {"error", "panic"}

\* Type, with the item type of an array; "" is Go's empty ValueType.
Type(type, items) == [type |-> type, items |-> items]

\* models.IsType
IsType(v, type) == type = "any" \/ v.t = type

\* models.IsActionValueType: nil has every type; the items of an array are
\* looked at unless their type is unknown or "any".
IsActionValueType(v, ty) ==
    \/ v = Nil
    \/ /\ IsType(v, ty.type)
       /\ ty.type = "array" /\ ty.items \notin {"", "any"}
            => \A i \in DOMAIN v.v : IsType(v.v[i], ty.items)

\* models.GetDefault; the zero date is not used by any field of the model.
GetDefault(type) ==
    CASE type = "string" -> Str(<<>>)
      [] type = "number" -> Num(0)
      [] type = "bool"   -> Bool(FALSE)
      [] type = "array"  -> Arr(<<>>)
      [] type = "object" -> Obj(<<>>)
      [] OTHER           -> Nil

\* models.GetActionValueType: an array has the type of its first item.
GetActionValueType(v) ==
    CASE v.t = "nil"   -> Type("any", "")
      [] v.t = "array" -> Type("array", CASE v.v = <<>>        -> "any"
                                          [] v.v[1].t = "nil"  -> "any"
                                          [] OTHER             -> v.v[1].t)
      [] OTHER         -> Type(v.t, "")

\* models.ValidateActionValueType: may a value of type `actual' be written
\* where `expected' is declared?
ValidateActionValueType(actual, expected) ==
    \/ expected.type \in {"", "any"} \/ actual.type = "any"
    \/ /\ actual.type = expected.type
       /\ expected.type = "array" =>
            \/ expected.items \in {"", "any"} \/ actual.items = "any"
            \/ actual.items = expected.items

\* utils.AnyToType: nil converts to the zero value, another type is refused.
AnyToType(v, type) == CASE v.t = "nil"            -> GetDefault(type)
                        [] v.t = type             -> v
                        [] OTHER                  -> Err

-----------------------------------------------------------------------------
(* Input rules.  A rule set maps argument names to rules; `items' is "none" *)
(* for a rule without an Items rule.                                        *)

Rule(type, min, max) == [type |-> type, min |-> min, max |-> max, items |-> "none",
                         imin |-> 0, imax |-> -1]

\* A rule whose item type is inferred from the first array (IsItemTypeDynamic).
DynamicRule(imin, imax, items) ==
    [type |-> "array", min |-> 1, max |-> 1, items |-> items, imin |-> imin, imax |-> imax]

Matching(types, type) == SelectSeq(types, LAMBDA ty : type = "any" \/ ty.type = type)

WithinRule(n, min, max) == n >= min /\ (max = -1 \/ n <= max)

\* models.validateInputType: the item type of a dynamic rule is the one of the
\* first array given to it.
ItemType(types) ==
    LET arrays == Matching(types, "array") IN
    IF arrays = <<>> \/ arrays[1].items = "" THEN "any" ELSE arrays[1].items

\* models.validateInputType: the number of inputs of the rule's type, the
\* number of inputs of its item type, and arrays that agree on their items.
RuleAccepts(rule, types) ==
    LET m == Matching(types, rule.type) IN
    /\ WithinRule(Len(m), rule.min, rule.max)
    /\ IF rule.items # "none"
       THEN WithinRule(Len(Matching(types, ItemType(types))), rule.imin, rule.imax)
       ELSE rule.type = "array" => \A i \in DOMAIN m : m[i].items = m[1].items

AllowedTypes(rule, types) ==
    {rule.type} \cup
    (CASE rule.items # "none" -> {ItemType(types)}
       [] rule.type = "array" -> {Matching(types, "array")[1].items}
       [] OTHER -> {})

\* models.ValidateInputTypes: can the action be built for inputs of these types?
ValidateInputTypes(rules, types) ==
    /\ \A n \in DOMAIN rules : RuleAccepts(rules[n], types)
    /\ LET allowed == UNION {AllowedTypes(rules[n], types) : n \in DOMAIN rules}
       IN "any" \in allowed \/ \A i \in DOMAIN types : types[i].type \in allowed

\* ActionInputRules.Validate: the inputs each rule takes, in their order; an
\* input that is a value of the rule is not also one of its items.
Validate(rules, in) ==
    LET ty(r)     == Type(r.type, IF r.items = "none" THEN "" ELSE r.items)
        value(r)  == SelectSeq(in, LAMBDA v : IsActionValueType(v, ty(r)))
        items(r)  == IF r.items = "none" THEN <<>>
                     ELSE SelectSeq(in, LAMBDA v : /\ ~IsActionValueType(v, ty(r))
                                                   /\ IsActionValueType(v, Type(r.items, "")))
        refused(r) == \/ Len(value(r)) < r.min
                      \/ r.max > 0 /\ Len(value(r)) > r.max
    IN IF \E n \in DOMAIN rules : refused(rules[n]) THEN Err
       ELSE [n \in DOMAIN rules |-> [Value |-> value(rules[n]), Items |-> items(rules[n])]]
=============================================================================
