------------------------------ MODULE MCActions ------------------------------
(***************************************************************************)
(* One compiled action of a mapping at a time, called on small inputs,     *)
(* while other mappings are compiled in the same process.                  *)
(***************************************************************************)
EXTENDS Actions

-----------------------------------------------------------------------------
(* Instances *)

TextVals == {Str(s) : s \in {<<>>, <<"a">>, <<"A", "b">>, <<"a", "b", "a">>, <<" ", "a", "+">>,
                             <<"+", "1">>, <<"1", ".", "5">>}}
NumVals  == {Num(n) : n \in {-3, -2, 0, 1, 2, 3, 16}}
BoolVals == {Bool(b) : b \in BOOLEAN}
TextArrays == {Arr(<<>>), Arr(<<Str(<<"a">>)>>), Arr(<<Str(<<"a">>), Str(<<>>), Str(<<"a">>)>>)}
NumArrays  == {Arr(<<>>), Arr(<<Num(2), Num(4), Num(2)>>), Arr(<<Num(1), Num(6)>>)}
Mixed      == {Arr(<<Num(1), Nil, Str(<<"b">>)>>), Arr(<<Arr(<<Num(2)>>), Arr(<<Num(2)>>)>>)}
Objects    == {Obj(<<>>), Obj([a |-> Num(2)]), Obj([a |-> Str(<<"a">>), b |-> Obj([a |-> Num(4)])]),
               Obj([b |-> Obj([b |-> Nil])])}
Dates      == {Str(d) : d \in {<<"RFC3339", 40, 0>>, <<"RFC3339", 40, -5>>, <<"DateTime", 28, 0>>,
                               <<"Date", 48, 0>>, <<"Date", 0, 0>>, <<"Time", 5, 0>>}}

T(type) == Type(type, "")
TA == Type("array", "string")
NA == Type("array", "number")

ValuesOf(f, ty) ==
    CASE ty.type = "string" -> IF f \in {"DateParse", "DateFormat", "DateAdd", "DateDiff"}
                               THEN Dates ELSE TextVals
      [] ty.type = "number" -> NumVals
      [] ty.type = "bool"   -> BoolVals
      [] ty = TA            -> TextArrays
      [] ty = NA            -> NumArrays
      [] ty.type = "array"  -> TextArrays \cup NumArrays \cup Mixed
      [] ty.type = "object" -> Objects
      [] OTHER              -> {Nil, Str(<<>>), Str(<<"a">>), Num(3), Bool(TRUE), Arr(<<>>),
                                Obj(<<>>), Obj([a |-> Nil])}

\* The declared input types tried for a factory; most are refused by most.
TypeLists ==
    {<<T(t)>> : t \in {"string", "number", "bool", "object", "any", "array"}} \cup {<<>>, <<TA>>, <<NA>>}
    \cup {<<T("string"), T("string"), T("string")>>, <<T("string"), T("string")>>, <<T("number"), T("number")>>, <<T("any"), T("any")>>,
          <<T("object"), T("object")>>, <<TA, T("string")>>, <<NA, T("number")>>,
          <<T("number"), NA>>, <<T("number"), T("string")>>, <<T("string"), T("number")>>}

NoArgs == [none |-> TRUE]

TextArgs(f) ==
    CASE f \in {"TextAllowedCharCount", "TextRequiredCharCount"} ->
           {[counts |-> [special |-> 0, upper |-> 1, lower |-> n, number |-> 1, alpha |-> 0], chars |-> c] :
               n \in 0..1, c \in {<<>>, [x \in {" "} |-> 1]}}
      [] f = "TextConcat" -> [value : {<<>>, <<"b">>}, separator : {<<>>, <<"+">>}]
      [] f \in {"TextContains", "TextEndsWith", "TextStartsWith", "TextIndexOf"} ->
           [substring : {<<>>, <<"a">>, <<"b", "A">>}, ci : BOOLEAN]
      [] f = "TextEquals" -> [value : {Nil, Str(<<"a">>)}, compareTo : {Nil, Str(<<"A", "b">>)}, ci : BOOLEAN]
      [] f = "TextMaxLength" -> [max : 0..2]
      [] f = "TextMinLength" -> [min : 0..2]
      [] f = "TextPad" -> [length : {0, 2, 4, 5}, char : {<<>>, <<"b">>}, side : {"", "left", "both"}]
      [] f = "TextRegexExtract" -> [pattern : {<<"a">>, <<"+">>, <<"z">>}, group : {-1, 0, 2}, all : BOOLEAN]
      [] f = "TextRegexMatch" -> [pattern : {<<"a">>, <<"+">>}]
      [] f = "TextRegexReplace" -> [pattern : {<<"a">>, <<>>}, replacement : {<<>>, <<"b">>}]
      [] f = "TextReplace" -> [old : {<<>>, <<"a">>, <<"+">>}, new : {<<>>, <<"b">>}]
      [] f = "TextSplit" -> [separator : {<<>>, <<"b">>, <<"a">>}]
      [] f = "TextSubstring" -> [start : -4..4, end : -3..4]
      [] f = "TextTrim" -> [chars : {<<>>, <<"a", "+">>}, side : {"", "left", "right"}]
      [] OTHER -> {NoArgs}

OtherArgs(f) ==
    CASE f \in {"AnyCoalesce", "AnyDefaultValue"} -> [default : {Nil, Num(2)}]
      [] f = "AnyIfElse" -> [else : {Nil, Num(2)}]
      [] f = "ArrayContains" -> [searchItems : {<<>>, <<Num(4)>>, <<Str(<<"a">>)>>}]
      [] f = "ArrayIndexOf" -> [item : {Nil, Num(4), Str(<<"a">>)}]
      [] f = "ArrayPush" -> [items : {<<>>, <<Num(4)>>, <<Str(<<"a">>)>>}]
      [] f \in {"ArraySkip", "ArrayTake"} -> [count : {-1, 0, 1, 5}]
      [] f = "ArrayEvery" -> [actionKey : {"any_is_empty", "any_to_string", "text_to_bool", "number_is_odd"},
                              args : {NoArgs}]
      [] f = "ArrayFilter" -> [actionKey : {"any_is_empty", "text_to_bool", "number_is_odd"},
                               args : {NoArgs}, invert : BOOLEAN]
      [] f = "DateNow" -> [format : {"", "date", "Date"}, timezone : {"", "NY", "bad"}]
      [] f = "DateParse" -> [inputFormat : {"", "date", "Time"}, outputFormat : {"", "date"},
                             timezone : {"", "NY", "bad"}]
      [] f = "DateFormat" -> [format : {"iso8601", "datetime", "date"}, timezone : {"", "NY"}]
      [] f = "DateAdd" -> [days : {-1, 2}, hours : {0, 5}, format : {"", "datetime"}]
      [] f = "DateDiff" -> [unit : {"", "hours", "minutes", "milliseconds"}]
      [] f \in {"NumberAdd", "NumberSubtract"} -> [value : {0, 3}]
      [] f = "NumberClamp" -> [min : {-2, 0}, max : {1, 4}]
      [] f = "NumberEquals" -> [value : {Nil, Num(2)}]
      [] f = "NumberExponent" -> [exponent : {0, 4}]
      [] f = "NumberMax" -> [max : {0, 2}]
      [] f = "NumberMin" -> [min : {0, 2}]
      [] f \in {"NumberModulus", "NumberDivide"} -> [denominator : {0, 4}]
      [] f = "NumberMultiply" -> [multiplier : {Nil, Num(4)}]
      [] f = "NumberParse" -> [default : {0, 7}]
      [] f = "NumberRoot" -> [root : {0, 2, 4}]
      [] f = "NumberRound" -> [precision : {0, 2}]
      [] f = "ObjectGet" -> [path : {<<"a">>, <<"b", "a">>, <<"a", "b">>}, default : {Nil, Num(2)}]
      [] f = "ObjectKeys" -> [sorted : BOOLEAN]
      [] f = "ObjectMerge" -> [deep : BOOLEAN]
      [] f \in {"ObjectOmit", "ObjectPick"} -> [keys : SUBSET {"a", "b"}]
      [] OTHER -> {NoArgs}

Args(f) == IF f \in Texty THEN TextArgs(f) ELSE OtherArgs(f)

\* Values a root, a power, a product or a quotient is exact for.
Exact(f, in) ==
    LET ns == [i \in DOMAIN in |-> in[i].v] IN
    CASE f \in {"NumberSquare", "NumberCube", "NumberExponent"} -> \A i \in DOMAIN in : ns[i] \in {0, 2, 16}
      [] f = "NumberFactorial" -> ns[1] \in {-2, 0, 2, 16}
      [] f = "NumberCubeRoot" -> ns[1] \in {0, 2, 16}
      [] f = "NumberSquareRoot" -> ns[1] \in {-2, 0, 2}
      [] f = "NumberRoot" -> ns[1] \in {-2, 0, 2} /\ (Len(in) = 2 => ns[2] \in {0, 2})
      [] f = "NumberDivide" -> Len(in) = 2 => ns[1] = 16 /\ ns[2] \in {0, 2, 16}
      [] OTHER -> TRUE

\* Values that arrive under a type they do not have: the boolean of
\* text_required_char_count for a text, the array of array_take for any type.
Strays(ty) == CASE ty.type = "string" -> {Bool(TRUE), Arr(<<>>)}
                [] ty.type = "number" -> {Arr(<<>>)}
                [] OTHER              -> {}

Tuples(sets) == {in \in [DOMAIN sets -> UNION Range(sets)] : \A i \in DOMAIN sets : in[i] \in sets[i]}

\* Inputs of the declared types, or the last of several inputs is a stray.  Of three
\* inputs, all texts, the last two take two values.
Inputs(f, types) ==
    LET values(i)  == IF Len(types) = 3 /\ i > 1 THEN {Str(<<>>), Str(<<"a">>)} ELSE ValuesOf(f, types[i])
        typed(tys) == Tuples([i \in DOMAIN tys |-> values(i)])
    IN {in \in typed(types) : Exact(f, in)}
       \cup (IF Len(types) < 2 THEN {}
             ELSE {Append(in, y) : in \in typed(Front(types)), y \in Strays(Last(types))})

Clocks3 == {[at |-> 40, zone |-> z] : z \in {0, -5}}

-----------------------------------------------------------------------------

Next ==
    \/ \E f \in Factories : \E args \in Args(f), types \in TypeLists : Build(f, args, types)
    \/ \E f \in DynamicFactories : \E args \in Args(f), types \in TypeLists :
          BuildElsewhere(f, args, types)
    \/ action # NoAction /\ \E in \in Inputs(action.f, action.types) : Call(in)
    \/ Restart

Spec == Init /\ [][Next]_vars

-----------------------------------------------------------------------------

\* The inputs have the types the action was built for.
Typed == \A i \in DOMAIN call.in : IsActionValueType(call.in[i], action.types[i])
Done(f) == call # NoCall /\ action.f = f /\ Typed
In1 == call.in[1]
Out == call.out
TheArray == SelectSeq(call.in, LAMBDA x : x.t = "array")[1].v

\* The first result of another action on these inputs.
Apply(f, args, in) == CHOOSE r \in Execute(f, args, "any", in) : TRUE

\* OutputTypeSound: what a step was told about its input when the mapping was
\* compiled (GetOutputType of the action before it) is true of every value that
\* arrives, whichever types the action was built for, as long as its own inputs had
\* theirs.  Two exceptions, both of the code: text_required_char_count answers with a
\* boolean and is declared as text, and an array action whose first input is not the
\* array is declared to return that input's type.
OutputTypeSound ==
    LET declared == OutputType(action.f, action.args, action.types)
    IN call # NoCall /\ Typed /\ ~Failed(Out)
         => \/ IsActionValueType(Out, declared)
            \/ action.f = "TextRequiredCharCount"
            \/ /\ action.f \in {"ArrayDistinct", "ArrayFilter", "ArrayRandomize", "ArrayReverse",
                                "ArraySkip", "ArrayTake"}
               /\ action.types[1].type # "array"

\* KnownPanics: no built action panics, except number_multiply without its
\* multiplier, array_distinct on items that cannot be hashed, text_regex_extract
\* asked for a negative group of a text that matches, and text_starts_with,
\* text_replace and the unregistered text_index_of when their last input arrives as
\* something else than the text it was declared to be.  Nothing above an action
\* recovers, so any other panic would take the consumer down.
KnownPanics ==
    Out = Panic => \/ action.f = "NumberMultiply" /\ action.args.multiplier = Nil
                   \/ action.f = "ArrayDistinct" /\ \E i \in DOMAIN TheArray : ~Hashable(TheArray[i])
                   \/ action.f = "TextRegexExtract" /\ action.args.group < 0
                   \/ action.f \in {"TextStartsWith", "TextReplace", "TextIndexOf"} /\ ~Typed

\* ArrayLaws: take and skip with one configuration split an array in two, whether
\* the count comes from the argument or an input and however far it is out of
\* range; filter and its inverse share the items between them; every agrees with
\* filter; index_of finds an item exactly when contains does.
ArrayLaws ==
    /\ Done("ArrayTake")
         => Out.v \o Apply("ArraySkip", action.args, call.in).v = TheArray
    /\ Done("ArrayFilter") /\ ~Failed(Out)
         => LET rest == Apply("ArrayFilter", [action.args EXCEPT !.invert = ~@], call.in).v
                every == Apply("ArrayEvery", action.args, call.in)
            IN /\ Len(Out.v) + Len(rest) = Len(TheArray)
               /\ ToSet(Out.v) \cap ToSet(rest) = {}
               /\ ~action.args.invert => (every = Bool(TRUE) <=> rest = <<>>)
    /\ Done("ArrayIndexOf") /\ ~Failed(Out) /\ action.args.item # Nil /\ Len(call.in) = 1
         => (Out.v >= 0) = Apply("ArrayContains", [searchItems |-> <<action.args.item>>], call.in).v
    /\ Done("ArrayDistinct") /\ ~Failed(Out)
         => ToSet(Out.v) = ToSet(TheArray) /\ Len(Out.v) = Cardinality(ToSet(Out.v))

\* TextLaws: split and concat with one separator are inverse; a substring is what
\* Python's slice would return, except that end 0 is the end; padding reaches
\* its length whatever the side; contains, index_of, starts_with and ends_with
\* agree; to_array of a text is its split on nothing.
TextLaws ==
    /\ Done("TextSplit") /\ Len(call.in) = 1
         => Join(Texts(Out.v), action.args.separator) = Text(In1)
    /\ Done("TextSubstring")
         => LET n == Len(Text(In1))
                at(k) == IF k < 0 THEN Max({0, n + k}) ELSE Min({n, k})
                lo == at(action.args.start)
                hi == IF action.args.end = 0 THEN n ELSE at(action.args.end)
            IN Out.v = SubSeq(Text(In1), lo + 1, hi)
    /\ Done("TextPad") => /\ Len(Out.v) = Max({action.args.length, Len(Text(In1))})
                          /\ Index(Out.v, Text(In1)) >= 0
    /\ Done("TextIndexOf")
         => /\ (Out.v >= 0) = Apply("TextContains", action.args, call.in).v
            /\ (Out.v = 0) = Apply("TextStartsWith", action.args, call.in).v
            /\ Apply("TextEndsWith", action.args, call.in).v => Out.v >= 0
    /\ Done("TextToArray") => Out = Apply("TextSplit", [separator |-> <<>>], call.in)

\* NumberLaws: a number survives to_string and back; floor and ceiling enclose it
\* and meet exactly at whole numbers, which are even or odd and nothing else is
\* either; modulus is what is left of a division rounded to zero; max and min
\* both refuse a number exactly when clamp leaves it alone.
NumberLaws ==
    /\ Done("NumberToString") => Apply("NumberParse", [default |-> 0], <<Out>>) = In1
    /\ Done("NumberFloor")
         => LET up == Apply("NumberCeiling", <<>>, call.in).v
            IN /\ Out.v <= In1.v /\ In1.v <= up /\ up - Out.v \in {0, Unit}
               /\ (up = Out.v) = (\E f \in {"NumberIsEven", "NumberIsOdd"} : Apply(f, <<>>, call.in).v)
               /\ ~(\A f \in {"NumberIsEven", "NumberIsOdd"} : Apply(f, <<>>, call.in).v)
    /\ Done("NumberModulus") /\ ~Failed(Out)
         => LET d == IF Len(call.in) = 2 THEN call.in[2].v ELSE action.args.denominator
            IN /\ (In1.v - Out.v) % Abs(d) = 0 /\ Abs(Out.v) < Abs(d)
               /\ Out.v # 0 => Sgn(Out.v) = Sgn(In1.v)
    /\ Done("NumberClamp")
         => (Out = In1) = (/\ ~Apply("NumberMax", action.args, call.in).v
                           /\ ~Apply("NumberMin", action.args, call.in).v)

\* DateLaws: the distance between a date and that date moved is what it was moved
\* by, in whatever layout the moved date is written as long as it keeps the hour
\* and the date is in UTC or the zone is kept; formatting in another zone keeps
\* the instant when the layout does.
DateLaws ==
    /\ Done("DateAdd") /\ ~Failed(Out) /\ (In1.v[3] = 0 \/ Out.v[1] = "RFC3339")
         => Apply("DateDiff", [unit |-> "hours"], <<In1, Out>>)
              = Num(Unit * (HoursPerDay * action.args.days + action.args.hours))
    /\ Done("DateFormat") /\ ~Failed(Out) /\ Out.v[1] = "RFC3339"
         => Apply("DateDiff", [unit |-> ""], <<In1, Out>>) = Num(0)

\* ObjectLaws: pick and omit of the same keys share the fields between them; a
\* later object wins in a merge, and a deep merge loses no field of either, at
\* any depth.
ObjectLaws ==
    /\ Done("ObjectPick")
         => LET rest == Apply("ObjectOmit", action.args, call.in).v
            IN /\ DOMAIN Out.v \cap DOMAIN rest = {}
               /\ shallowMerge(Out.v, rest) = In1.v
    /\ Done("ObjectMerge") /\ Len(call.in) = 2
         => \A p \in {<<k>> : k \in {"a", "b"}} \cup {<<"b", "a">>, <<"b", "b">>} :
              LET left == getByPath(In1, p)  right == getByPath(call.in[2], p)
                  here == getByPath(Out, p)
              IN /\ right # Nil /\ right.t # "object" => here = right
                 /\ action.args.deep /\ left # Nil /\ right = Nil
                       => here = left \/ \E q \in Prefixes(p) : /\ q \notin {<<>>, p}
                                                                /\ getByPath(call.in[2], q).t \notin {"nil", "object"}

\* SecondReadLaw: an action that another link runs on what the first run has left of
\* the message's values may answer the same; array_randomize and a deep object_merge
\* write into those values.
SecondReadLaw ==
    call # NoCall /\ ~Failed(Out) => Out \in Execute(action.f, action.args, SharedType(action.f), call.left)

\* ActionLaws: the actions keep the laws of their families, so that two actions
\* that belong together do not disagree about one value of a mapping.
ActionLaws == ArrayLaws /\ TextLaws /\ NumberLaws /\ DateLaws /\ ObjectLaws /\ SecondReadLaw
=============================================================================
