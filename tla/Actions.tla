------------------------------- MODULE Actions -------------------------------
(***************************************************************************)
(* The action registry of the mapping engine (lotus/pkg/actions): which    *)
(* factory a key names, the rules and the declared output type of every    *)
(* factory, how an action is built for the types of its inputs and what a  *)
(* call of it returns.                                                     *)
(*                                                                         *)
(* The rules of array_contains, array_index_of and array_push are package  *)
(* variables, and building one of these actions writes the item type it    *)
(* infers into them: `itemType' is that shared state.                      *)
(***************************************************************************)
EXTENDS ValueActions

\* Registered keys, by group.  Two text keys name another action's factory, and
\* four keys of the constants (array_flatten, number_cube, number_divide,
\* text_length) name none.
AnyKeys == [any_coalesce |-> "AnyCoalesce", any_default |-> "AnyDefaultValue",
            any_if_else |-> "AnyIfElse", any_is_nil |-> "AnyIsNil",
            any_is_empty |-> "AnyIsEmpty", any_to_string |-> "AnyToString"]

ArrayKeys == [array_contains |-> "ArrayContains", array_distinct |-> "ArrayDistinct",
              array_index_of |-> "ArrayIndexOf", array_length |-> "ArrayLength",
              array_push |-> "ArrayPush", array_randomize |-> "ArrayRandomize",
              array_reverse |-> "ArrayReverse", array_skip |-> "ArraySkip",
              array_take |-> "ArrayTake", array_every |-> "ArrayEvery",
              array_filter |-> "ArrayFilter"]

DateKeys == [date_now |-> "DateNow", date_parse |-> "DateParse", date_format |-> "DateFormat",
             date_diff |-> "DateDiff", date_add |-> "DateAdd"]

NumberKeys ==
    [number_abs |-> "NumberAbs", number_clamp |-> "NumberClamp", number_parse |-> "NumberParse",
     number_sign |-> "NumberSign", number_factorial |-> "NumberFactorial",
     number_add |-> "NumberAdd", number_ceiling |-> "NumberCeiling",
     number_cube_root |-> "NumberCubeRoot", number_equals |-> "NumberEquals",
     number_exponent |-> "NumberExponent", number_floor |-> "NumberFloor"]

NumberKeys2 ==
    [number_max |-> "NumberMax", number_min |-> "NumberMin", number_modulus |-> "NumberModulus",
     number_multiply |-> "NumberMultiply", number_root |-> "NumberRoot",
     number_round |-> "NumberRound", number_square_root |-> "NumberSquareRoot",
     number_square |-> "NumberSquare", number_subtract |-> "NumberSubtract",
     number_to_negative |-> "NumberToNegative", number_to_positive |-> "NumberToPositive",
     number_to_string |-> "NumberToString", number_is_even |-> "NumberIsEven",
     number_is_odd |-> "NumberIsOdd"]

ObjectKeyNames == [object_get |-> "ObjectGet", object_pick |-> "ObjectPick",
                   object_omit |-> "ObjectOmit", object_merge |-> "ObjectMerge",
                   object_keys |-> "ObjectKeys", object_values |-> "ObjectValues"]

TextKeys ==
    [text_allowed_char_count |-> "TextAllowedCharCount", text_concat |-> "TextConcat",
     text_contains |-> "TextContains", text_ends_with |-> "TextEndsWith",
     text_equals |-> "TextEquals", text_index_of |-> "TextLength",
     text_replace |-> "TextReplace", text_required_char_count |-> "TextRequiredCharCount",
     text_reverse |-> "TextReverse", text_split |-> "TextSplit",
     text_starts_with |-> "TextStartsWith", text_to_array |-> "TextToArray"]

TextKeys2 ==
    [text_to_bool |-> "TextToBool", text_to_lower |-> "TextToLower",
     text_to_number |-> "TextToNumber", text_min_length |-> "TextMinLength",
     text_max_length |-> "TextReplace", text_to_upper |-> "TextToUpper",
     text_trim |-> "TextTrim", text_pad |-> "TextPad", text_substring |-> "TextSubstring",
     text_regex_match |-> "TextRegexMatch", text_regex_extract |-> "TextRegexExtract",
     text_regex_replace |-> "TextRegexReplace"]

Registry == AnyKeys @@ ArrayKeys @@ DateKeys @@ NumberKeys @@ NumberKeys2
            @@ ObjectKeyNames @@ TextKeys @@ TextKeys2

Unregistered == {"NumberCube", "NumberDivide", "TextIndexOf", "TextMaxLength"}

Factories == {Registry[k] : k \in DOMAIN Registry} \cup Unregistered

-----------------------------------------------------------------------------

DynamicFactories == {"ArrayContains", "ArrayIndexOf", "ArrayPush"}

\* The rules of a factory; the first rule is called "value" here whatever its
\* name.  `it' is the item type in the shared rules.
ArrayRules(f, it) ==
    CASE f = "ArrayContains" -> [value |-> DynamicRule(0, -1, it)]
      [] f = "ArrayIndexOf"  -> [value |-> DynamicRule(0, 1, it)]
      [] f = "ArrayPush"     -> [value |-> DynamicRule(1, -1, it)]
      [] f \in {"ArraySkip", "ArrayTake"} ->
           [value |-> Rule("array", 1, 1), count |-> Rule("number", 0, 1)]
      [] OTHER               -> [value |-> Rule("array", 1, 1)]

Rules(f, it) ==
    CASE f = "AnyCoalesce" -> [value |-> Rule("any", 1, -1)]
      [] f = "AnyIfElse"   -> [value |-> Rule("bool", 1, 1), then |-> Rule("any", 1, 1)]
      [] f \in {"AnyDefaultValue", "AnyIsNil", "AnyIsEmpty", "AnyToString"} ->
           [value |-> Rule("any", 1, 1)]
      [] f \in {ArrayKeys[k] : k \in DOMAIN ArrayKeys} -> ArrayRules(f, it)
      [] f = "DateNow"     -> <<>>
      [] f = "DateDiff"    -> [value |-> Rule("string", 2, 2)]
      [] f \in {"NumberAdd", "NumberSubtract", "NumberMultiply", "NumberEquals", "NumberDivide"} ->
           [value |-> Rule("number", 1, -1)]
      [] f \in {"NumberExponent", "NumberMax", "NumberMin", "NumberModulus", "NumberRoot"} ->
           [value |-> Rule("number", 1, 2)]
      [] f = "ObjectMerge" -> [value |-> Rule("object", 1, -1)]
      [] f \in {"ObjectGet", "ObjectPick", "ObjectOmit", "ObjectKeys", "ObjectValues"} ->
           [value |-> Rule("object", 1, 1)]
      [] f \in {"TextConcat", "TextEquals"} -> [value |-> Rule("string", 1, -1)]
      [] f \in {"TextContains", "TextEndsWith", "TextStartsWith", "TextIndexOf", "TextSplit"} ->
           [value |-> Rule("string", 1, 2)]
      [] f = "TextReplace" -> [value |-> Rule("string", 1, 3)]
      [] f \in {"TextMaxLength", "TextMinLength"} ->
           [value |-> Rule("string", 1, 1), bound |-> Rule("number", 0, 1)]
      [] f \in {"DateParse", "DateFormat", "DateAdd", "NumberParse"}
               \cup {TextKeys[k] : k \in DOMAIN TextKeys} \cup {TextKeys2[k] : k \in DOMAIN TextKeys2} ->
           [value |-> Rule("string", 1, 1)]
      [] OTHER             -> [value |-> Rule("number", 1, 1)]

\* GetOutputType
OutputType(f, args, types) ==
    CASE f \in {"AnyCoalesce", "AnyDefaultValue", "AnyIfElse", "ObjectGet"} -> Type("any", "")
      [] f \in {"AnyIsNil", "AnyIsEmpty", "ArrayContains", "ArrayEvery", "NumberEquals",
                "NumberIsEven", "NumberIsOdd", "NumberMax", "NumberMin", "TextAllowedCharCount",
                "TextContains", "TextEndsWith", "TextEquals", "TextMaxLength", "TextMinLength",
                "TextRegexMatch", "TextStartsWith", "TextToBool"} -> Type("bool", "")
      [] f \in {"ArrayDistinct", "ArrayFilter", "ArrayRandomize", "ArrayReverse", "ArraySkip",
                "ArrayTake"} -> types[1]
      [] f = "ArrayPush" -> Type("array", ItemType(types))
      [] f \in {"ObjectKeys", "ObjectValues"} -> Type("array", "")
      [] f \in {"TextSplit", "TextToArray"} -> Type("array", "string")
      [] f = "TextRegexExtract" -> Type(IF args.all THEN "array" ELSE "string", "")
      [] f \in {"ObjectPick", "ObjectOmit", "ObjectMerge"} -> Type("object", "")
      [] f \in {"ArrayIndexOf", "ArrayLength", "DateDiff", "TextIndexOf", "TextLength",
                "TextToNumber", "NumberParse"} -> Type("number", "")
      [] f \in {"AnyToString", "NumberToString", "DateNow", "DateParse", "DateFormat", "DateAdd"}
               \cup {TextKeys[k] : k \in DOMAIN TextKeys} \cup {TextKeys2[k] : k \in DOMAIN TextKeys2} ->
           Type("string", "")
      [] OTHER -> Type("number", "")

\* The checks of a factory.  A predicate is built from its key for the items of
\* the array and must answer with a boolean.
RECURSIVE Builds(_, _, _)
Builds(f, args, types) ==
    /\ ValidateInputTypes(Rules(f, ""), types)
    /\ f \in {"TextRegexMatch", "TextRegexExtract", "TextRegexReplace"} => Compiles(args.pattern)
    /\ f = "ArrayIndexOf" => IsActionValueType(args.item, Type(ItemType(types), ""))
    /\ f = "ArrayPush" => \A i \in DOMAIN args.items :
                             IsActionValueType(args.items[i], Type(ItemType(types), ""))
    /\ f \in {"ArrayEvery", "ArrayFilter"} =>
         LET item == <<Type(IF types[1].items = "" THEN "any" ELSE types[1].items, "")>>
         IN /\ args.actionKey \in DOMAIN Registry
            /\ Builds(Registry[args.actionKey], args.args, item)
            /\ OutputType(Registry[args.actionKey], args.args, item).type = "bool"

\* registry.GetAction
GetAction(key, args, types) == key \in DOMAIN Registry /\ Builds(Registry[key], args, types)

\* Inputs of a call: array_contains and array_push add their configured items.
Given(f, args, in) ==
    CASE f = "ArrayContains" -> in \o args.searchItems
      [] f = "ArrayPush"     -> in \o args.items
      [] OTHER               -> in

\* Text, number and date actions, on inputs `v' of the rule.
TextOutcome(f, args, v, in) ==
    CASE f = "TextAllowedCharCount"  -> TextAllowedCharCount(args, v)
      [] f = "TextRequiredCharCount" -> TextRequiredCharCount(args, v)
      [] f = "TextConcat"       -> TextConcat(args, v)
      [] f = "TextContains"     -> TextContains(args, v, in)
      [] f = "TextEndsWith"     -> TextEndsWith(args, v, in)
      [] f = "TextStartsWith"   -> TextStartsWith(args, v, in)
      [] f = "TextEquals"       -> TextEquals(args, v)
      [] f = "TextIndexOf"      -> TextIndexOf(args, v, in)
      [] f = "TextLength"       -> TextLength(v)
      [] f = "TextMaxLength"    -> TextMaxLength(args, v, in)
      [] f = "TextMinLength"    -> TextMinLength(args, v, in)
      [] f = "TextPad"          -> TextPad(args, v)
      [] f = "TextRegexExtract" -> TextRegexExtract(args, v)
      [] f = "TextRegexMatch"   -> TextRegexMatch(args, v)
      [] f = "TextRegexReplace" -> TextRegexReplace(args, v)
      [] f = "TextReplace"      -> TextReplace(args, v, in)
      [] f = "TextReverse"      -> TextReverse(v)
      [] f = "TextSplit"        -> TextSplit(args, v)
      [] f = "TextToArray"      -> TextToArray(v)
      [] f = "TextToBool"       -> TextToBool(v)
      [] f = "TextToLower"      -> TextToLower(v)
      [] f = "TextToUpper"      -> TextToUpper(v)
      [] f = "TextToNumber"     -> TextToNumber(v)
      [] f = "TextSubstring"    -> TextSubstring(args, v)
      [] f = "TextTrim"         -> TextTrim(args, v)

NumberOutcome(f, args, v, in) ==
    CASE f = "NumberAbs"        -> NumberAbs(v)
      [] f = "NumberAdd"        -> NumberAdd(args, v)
      [] f = "NumberCeiling"    -> NumberCeiling(v)
      [] f = "NumberClamp"      -> NumberClamp(args, v)
      [] f = "NumberCube"       -> NumberCube(v)
      [] f = "NumberCubeRoot"   -> NumberCubeRoot(v)
      [] f = "NumberDivide"     -> NumberDivide(args, v)
      [] f = "NumberEquals"     -> NumberEquals(args, v)
      [] f = "NumberExponent"   -> NumberExponent(args, v)
      [] f = "NumberFactorial"  -> NumberFactorial(v)
      [] f = "NumberFloor"      -> NumberFloor(v)
      [] f = "NumberIsEven"     -> NumberIsEven(v)
      [] f = "NumberIsOdd"      -> NumberIsOdd(v)
      [] f = "NumberMax"        -> NumberMax(args, v, in)
      [] f = "NumberMin"        -> NumberMin(args, v, in)
      [] f = "NumberModulus"    -> NumberModulus(args, v)
      [] f = "NumberMultiply"   -> NumberMultiply(args, v)
      [] f = "NumberParse"      -> NumberParse(args, v)
      [] f = "NumberRoot"       -> NumberRoot(args, v, in)
      [] f = "NumberRound"      -> NumberRound(args, v)
      [] f = "NumberSign"       -> NumberSign(v)
      [] f = "NumberSquare"     -> NumberSquare(v)
      [] f = "NumberSquareRoot" -> NumberSquareRoot(v)
      [] f = "NumberSubtract"   -> NumberSubtract(args, v)
      [] f = "NumberToNegative" -> NumberToNegative(v)
      [] f = "NumberToPositive" -> NumberToPositive(v)
      [] f = "NumberToString"   -> NumberToString(v)

DateOutcome(f, args, v) ==
    CASE f = "DateParse"  -> DateParse(args, v)
      [] f = "DateFormat" -> DateFormat(args, v)
      [] f = "DateAdd"    -> DateAdd(args, v)
      [] f = "DateDiff"   -> DateDiff(args, v)

Orders(S) == SetToSeqs(S)

\* sort.Strings leaves one order of the keys; "a" < "b" in the instances.
KeyOrders(args, keys) ==
    IF args.sorted THEN {o \in Orders(keys) : \A i, j \in DOMAIN o : i < j => o[i] = "a" \/ o[j] = "b"}
    ELSE Orders(keys)

\* Clocks are the instants time.Now may return in an instance.
CONSTANT Clocks

Texty   == {"TextIndexOf", "TextMaxLength"} \cup {TextKeys[k] : k \in DOMAIN TextKeys}
                                           \cup {TextKeys2[k] : k \in DOMAIN TextKeys2}
Numeric == {"NumberCube", "NumberDivide"} \cup {NumberKeys[k] : k \in DOMAIN NumberKeys}
                                          \cup {NumberKeys2[k] : k \in DOMAIN NumberKeys2}

\* Execute: every value a call may return, map and shuffle order and the clock
\* being the choices.  `it' is the item type in the shared rules at the call.
RECURSIVE Execute(_, _, _, _)
Execute(f, args, it, in) ==
    LET a == Validate(Rules(f, it), Given(f, args, in))
        v == a.value.Value
        results == LET inner(x) == Execute(Registry[args.actionKey], args.args, it, <<x>>)
                   IN [i \in DOMAIN Items(v[1]) |-> CHOOSE r \in inner(Items(v[1])[i]) : TRUE]
        keys == DOMAIN Fields(v[1])
    IN CASE f = "DateNow"      -> {DateNow(args, now) : now \in Clocks}
         [] a = Err            -> {Err}
         [] f \in Texty        -> {TextOutcome(f, args, v, in)}
         [] f \in Numeric      -> {NumberOutcome(f, args, v, in)}
         [] f \in {DateKeys[k] : k \in DOMAIN DateKeys} -> {DateOutcome(f, args, v)}
         [] f = "AnyCoalesce"     -> {AnyCoalesce(args, v)}
         [] f = "AnyDefaultValue" -> {AnyDefaultValue(args, v)}
         [] f = "AnyIfElse"       -> {AnyIfElse(args, v, a.then.Value)}
         [] f = "AnyIsEmpty"      -> {AnyIsEmpty(v)}
         [] f = "AnyIsNil"        -> {AnyIsNil(v)}
         [] f = "AnyToString"     -> {AnyToString(v)}
         [] f = "ArrayContains"   -> {ArrayContains(v, a.value.Items)}
         [] f = "ArrayDistinct"   -> {ArrayDistinct(v)}
         [] f = "ArrayEvery"      -> {ArrayEvery(results)}
         [] f = "ArrayFilter"     -> {ArrayFilter(args, v, results)}
         [] f = "ArrayIndexOf"    -> {ArrayIndexOf(args, v, a.value.Items)}
         [] f = "ArrayLength"     -> {ArrayLength(v)}
         [] f = "ArrayPush"       -> {ArrayPush(v, a.value.Items)}
         [] f = "ArrayRandomize"  -> {ArrayRandomize(v, p) : p \in Orders(DOMAIN Items(v[1]))}
         [] f = "ArrayReverse"    -> {ArrayReverse(v)}
         [] f = "ArraySkip"       -> {ArraySkip(args, v, a.count.Value)}
         [] f = "ArrayTake"       -> {ArrayTake(args, v, a.count.Value)}
         [] f = "ObjectGet"       -> {ObjectGet(args, v)}
         [] f = "ObjectMerge"     -> {ObjectMerge(args, v)}
         [] f = "ObjectOmit"      -> {ObjectOmit(args, v)}
         [] f = "ObjectPick"      -> {ObjectPick(args, v)}
         [] f = "ObjectKeys"      -> {ObjectKeys(v, o) : o \in KeyOrders(args, keys)}
         [] f = "ObjectValues"    -> {ObjectValues(v, o) : o \in Orders(keys)}

\* What a call leaves of its inputs, which other links of the message read, too: the
\* shuffle works in place, and a deep merge writes the second object's fields into the
\* nested maps that its result has taken from the first (two objects at most).
Left(f, args, in, out) ==
    LET merged(one, two) ==
            [k \in DOMAIN one |-> IF k \in DOMAIN two /\ one[k].t = "object" /\ two[k].t = "object"
                                  THEN out.v[k] ELSE one[k]]
        types == [i \in DOMAIN in |-> in[i].t]
    IN [i \in DOMAIN in |->
          CASE f = "ArrayRandomize" /\ types[i] = "array" /\ ~Failed(out) -> out
            [] f = "ObjectMerge" /\ args.deep /\ i = 1 /\ types = <<"object", "object">>
                 -> Obj(merged(in[1].v, in[2].v))
            [] OTHER -> in[i]]

-----------------------------------------------------------------------------

VARIABLES itemType,   \* the item type in the shared rules, by factory
          action,     \* the action a mapping holds, or NoAction
          call        \* its last call, or NoCall

vars == <<itemType, action, call>>

NoAction == [f |-> "none"]
NoCall   == [in |-> <<>>, out |-> Nil, left |-> <<>>]

Init == /\ itemType = [f \in DynamicFactories |-> ""]
        /\ action = NoAction
        /\ call = NoCall

\* validateInputType writes the item type of the one array it is given before
\* it checks anything else, so a refused build leaves its mark too.
SharedRules(f, types) ==
    IF f \in DynamicFactories /\ Len(Matching(types, "array")) = 1
    THEN [itemType EXCEPT ![f] = ItemType(types)] ELSE itemType

\* A mapping compiles a step: the action is built for the declared types.
Build(f, args, types) ==
    /\ action = NoAction
    /\ action' = IF Builds(f, args, types) THEN [f |-> f, args |-> args, types |-> types]
                 ELSE NoAction
    /\ itemType' = SharedRules(f, types)
    /\ UNCHANGED call

\* Another mapping, compiled meanwhile, builds an action of the same factory.
BuildElsewhere(f, args, types) ==
    /\ action.f = f /\ call = NoCall
    /\ itemType' = SharedRules(f, types)
    /\ UNCHANGED <<action, call>>

\* The item type that the rules of an action have by now.
SharedType(f) == IF f \in DynamicFactories THEN itemType[f] ELSE ""

\* A message runs the compiled action.
Call(in) ==
    /\ action # NoAction /\ call = NoCall
    /\ \E out \in Execute(action.f, action.args, SharedType(action.f), in) :
          call' = [in |-> in, out |-> out, left |-> Left(action.f, action.args, in, out)]
    /\ UNCHANGED <<itemType, action>>

\* The process restarts: the cache and the shared rules start afresh.
Restart == /\ call # NoCall
           /\ itemType' = [f \in DynamicFactories |-> ""]
           /\ action' = NoAction /\ call' = NoCall
=============================================================================
