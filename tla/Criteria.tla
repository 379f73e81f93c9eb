------------------------------ MODULE Criteria ------------------------------
(***************************************************************************)
(* The conditions by which a criteria relationship finds its targets       *)
(* (ivy/pkg/criteria).  A value is a tagged record; an object is a function *)
(* from field names to values, and a dotted path a sequence of names.      *)
(* Criteria are a function from paths to a plain value (equality) or to    *)
(* operators: an object whose keys are operators.                          *)
(***************************************************************************)
EXTENDS Integers, Sequences

None    == [t |-> "nil"]
Text(s) == [t |-> "text", text |-> s]
Num(n)  == [t |-> "number", number |-> n]
Flag(b) == [t |-> "bool", bool |-> b]
List(l) == [t |-> "list", list |-> l]
Map(m)  == [t |-> "map", map |-> m]

\* fmt's %v on plain values and lists of them, and strconv.ParseFloat on the numbers 0 to 9.
Digits == <<"0", "1", "2", "3", "4", "5", "6", "7", "8", "9">>
Spelled(x) == CASE x.t = "text"   -> x.text
                [] x.t = "number" -> Digits[x.number + 1]
                [] x.t = "bool"   -> IF x.bool THEN "true" ELSE "false"
                [] x.t = "nil"    -> "<nil>"
Items(l) ==
    LET upTo[i \in 1..Len(l)] == IF i = 1 THEN Spelled(l[1]) ELSE upTo[i - 1] \o " " \o Spelled(l[i])
    IN IF l = <<>> THEN "" ELSE upTo[Len(l)]
Printed(x) == IF x.t = "list" THEN "[" \o Items(x.list) \o "]" ELSE Spelled(x)
Numbers(x)  == IF x.t = "number" THEN {x.number} ELSE {n \in 0..9 : Text(Digits[n + 1]) = x}

\* valuesEqual: equal as values or as printed; nil equals only nil.  What a map or a
\* list within a list is printed as is left out: they equal only themselves.
Plain(x) == x.t # "map" /\ (x.t = "list" => \A i \in DOMAIN x.list : x.list[i].t \notin {"list", "map"})
ValuesEqual(a, b) == a = b \/ (None \notin {a, b} /\ Plain(a) /\ Plain(b) /\ Printed(a) = Printed(b))

\* compareNumeric: texts are parsed, whatever is not a number compares false.
CompareNumeric(a, op, b) ==
    \E x \in Numbers(a), y \in Numbers(b) : CASE op = "$gte" -> x >= y
                                             [] op = "$gt"  -> x > y
                                             [] op = "$lte" -> x <= y
                                             [] op = "$lt"  -> x < y

\* getNestedValue: the values at a path, none or one.
GetNestedValue(data, path) ==
    LET at[i \in 0..Len(path)] ==
          IF i = 0 THEN {data}
          ELSE {o.map[path[i]] : o \in {x \in at[i - 1] : x.t = "map" /\ path[i] \in DOMAIN x.map}}
    IN at[Len(path)]

InList(x, l) == l.t = "list" /\ \E i \in DOMAIN l.list : ValuesEqual(x, l.list[i])


\* evaluateCondition: a missing field satisfies only $ne and "$exists: false".
EvaluateCondition(data, path, op, want) ==
    LET found == GetNestedValue(data, path)
    IN CASE op = "$ne"     -> \A x \in found : ~ValuesEqual(x, want)
         [] op = "$exists" -> want = Flag(found # {})
         [] OTHER          -> \E x \in found :
               CASE op = ""          -> ValuesEqual(x, want)
                 [] op = "$contains" -> InList(want, x)
                 [] op = "$in"       -> InList(x, want)
                 [] op \in {"$gte", "$gt", "$lte", "$lt"} -> CompareNumeric(x, op, want)
                 [] OTHER            -> FALSE

\* ParseCriteria: the conditions, each a path, an operator and a value.
ParseCriteria(criteria) ==
    UNION {IF criteria[f].t = "map" THEN {<<f, op, criteria[f].map[op]>> : op \in DOMAIN criteria[f].map}
           ELSE {<<f, "", criteria[f]>>} : f \in DOMAIN criteria}

\* MatchesCriteria: every condition holds.
MatchesCriteria(data, criteria) ==
    \A c \in ParseCriteria(criteria) : EvaluateCondition(data, c[1], c[2], c[3])

-----------------------------------------------------------------------------
(* Properties.                                                              *)

\* Operators that a reader takes to be complements or abbreviations are: $ne negates
\* equality, a missing field included; $in a list is a disjunction of equalities; on
\* two numbers, written as numbers or as text, exactly one of <, =, > holds, $gte and
\* $lte include equality, and nothing else is comparable; a criterion with one more
\* condition matches no more.
LawsOn(data, path, want) ==
    LET holds(op) == EvaluateCondition(data, path, op, want)
        numeric == \E x \in GetNestedValue(data, path) : Numbers(x) # {} /\ Numbers(want) # {}
    IN /\ holds("$ne") = ~holds("")
       /\ EvaluateCondition(data, path, "$in", List(<<want>>)) = holds("")
       /\ EvaluateCondition(data, path, "$exists", Flag(FALSE)) => holds("$ne") /\ ~holds("$in")
       /\ holds("$gte") = (holds("$gt") \/ (numeric /\ holds("")))
       /\ holds("$lte") = (holds("$lt") \/ (numeric /\ holds("")))
       /\ numeric = (holds("$gte") \/ holds("$lt"))
       /\ ~(holds("$lt") /\ holds("$gte"))
       /\ \A op \in {"", "$ne", "$gt"} :
             MatchesCriteria(data, [p \in {path} |-> Map([o \in {op, "$exists"} |->
                 IF o = op THEN want ELSE Flag(TRUE)])]) => holds(op)
=============================================================================
