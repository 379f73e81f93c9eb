---------------------------- MODULE ValueActions ----------------------------
(***************************************************************************)
(* The Execute methods of the any, array and object actions                *)
(* (lotus/pkg/actions/any, array, object).  A predicate of array_every and *)
(* array_filter is given by its results on the items, `results'.           *)
(***************************************************************************)
EXTENDS NumberActions, Functions

isEmpty(x) == \/ x = Nil
              \/ x.t \in {"string", "array"} /\ x.v = <<>>
              \/ x.t = "object" /\ DOMAIN x.v = {}

AnyCoalesce(args, v) ==
    LET full == SelectSeq(v, LAMBDA x : ~isEmpty(x))
    IN IF full = <<>> THEN args.default ELSE Head(full)

AnyDefaultValue(args, v) == IF isEmpty(v[1]) THEN args.default ELSE v[1]

AnyIfElse(args, condition, then) ==
    IF AnyToType(condition[1], "bool").v THEN then[1] ELSE args.else

AnyIsEmpty(v) == Bool(isEmpty(v[1]))

AnyIsNil(v) == Bool(v[1] = Nil)

\* Mutant: a number is handed on as it is.
AnyToStringOfNumber(v) == IF v[1].t = "nil" THEN Str(<<>>) ELSE v[1]

AnyToString(v) ==
    LET x == v[1]
    IN CASE x.t = "nil"    -> Str(<<>>)
         [] x.t = "string" -> x
         [] x.t = "bool"   -> Str(IF x.v THEN <<"true">> ELSE <<"false">>)
         [] x.t = "number" -> Str(FormatNumber(x.v))
         [] OTHER          -> Str(<<"%v">>)     \* fmt.Sprintf of the structure

-----------------------------------------------------------------------------

Items(x) == AnyToType(x, "array").v

\* map[any] panics on a key that cannot be hashed.
Hashable(x) == x.t \notin {"array", "object"}

\* Any of the search items, inputs before the configured ones.
ArrayContains(v, items) ==
    LET found == {i \in DOMAIN items : items[i] \in ToSet(Items(v[1]))} IN Bool(found # {})

ArrayDistinct(v) ==
    LET a == Items(v[1])
    IN IF \E i \in DOMAIN a : ~Hashable(a[i]) THEN Panic
       ELSE Arr(FoldLeft(LAMBDA acc, x : IF x \in ToSet(acc) THEN acc ELSE Append(acc, x), <<>>, a))

\* Items are tested in order: a false before a failing test hides it.
ArrayEvery(results) ==
    LET stop == {i \in DOMAIN results : results[i] # Bool(TRUE)}
    IN IF stop = {} THEN Bool(TRUE)
       ELSE results[CHOOSE i \in stop : \A j \in stop : i <= j]

ArrayFilter(args, v, results) ==
    LET a    == Items(v[1])
        bad  == {i \in DOMAIN a : Failed(results[i])}
        kept == SelectSeq([i \in DOMAIN a |-> i], LAMBDA i : results[i].v # args.invert)
    IN IF bad # {} THEN results[CHOOSE i \in bad : \A j \in bad : i <= j]
       ELSE Arr([i \in DOMAIN kept |-> a[kept[i]]])

\* The first item given, as an input before the argument, or nil.
ArrayIndexOf(args, v, items) ==
    LET all    == IF args.item = Nil THEN items ELSE Append(items, args.item)
        search == IF all = <<>> THEN Nil ELSE Head(all)
        at     == {i \in DOMAIN Items(v[1]) : Items(v[1])[i] = search}
    IN Num(Unit * (IF at = {} THEN -1 ELSE (CHOOSE i \in at : \A j \in at : i <= j) - 1))

ArrayLength(v) == Num(Unit * Len(Items(v[1])))

ArrayPush(v, items) == Arr(Items(v[1]) \o items)

\* rand.Shuffle in place; `perm' is the order it draws.
ArrayRandomize(v, perm) == Arr([i \in DOMAIN Items(v[1]) |-> Items(v[1])[perm[i]]])

ArrayReverse(v) == Arr(Reverse(Items(v[1])))

\* Mutant: the count is not cut to the array.
CountUncut(args, count, n) == IF args.count = 0 /\ count # <<>> THEN Whole(count[1]) ELSE args.count

\* The configured count unless it is 0, then the input's, cut to the array.
Count(args, count, n) ==
    LET c == IF args.count = 0 /\ count # <<>> THEN Whole(count[1]) ELSE args.count
    IN CASE c > n -> n [] c < 0 -> 0 [] OTHER -> c

\* A Go slice expression a[lo:hi].
Slice(a, lo, hi) == IF 0 <= lo /\ lo <= hi /\ hi <= Len(a) THEN Arr(SubSeq(a, lo + 1, hi)) ELSE Panic

ArraySkip(args, v, count) ==
    LET a == Items(v[1]) IN Slice(a, Count(args, count, Len(a)), Len(a))

ArrayTake(args, v, count) ==
    LET a == Items(v[1]) IN Slice(a, 0, Count(args, count, Len(a)))

-----------------------------------------------------------------------------

Fields(x) == AnyToType(x, "object").v

RECURSIVE getByPath(_, _)
getByPath(x, path) ==
    CASE path = <<>> -> x
      [] x.t # "object" \/ Head(path) \notin DOMAIN x.v -> Nil
      [] OTHER -> getByPath(x.v[Head(path)], Tail(path))

ObjectGet(args, v) ==
    LET r == getByPath(Obj(Fields(v[1])), args.path) IN IF r = Nil THEN args.default ELSE r

\* `order' is the order in which the map is walked; sorted keys have one order.
ObjectKeys(v, order) == Arr([i \in DOMAIN order |-> Str(<<order[i]>>)])

ObjectValues(v, order) == Arr([i \in DOMAIN order |-> Fields(v[1])[order[i]]])

RECURSIVE deepMerge(_, _)
deepMerge(target, source) ==
    [k \in DOMAIN target \cup DOMAIN source |->
        CASE k \notin DOMAIN source -> target[k]
          [] k \in DOMAIN target /\ target[k].t = "object" /\ source[k].t = "object"
               -> Obj(deepMerge(target[k].v, source[k].v))
          [] OTHER -> source[k]]

shallowMerge(target, source) ==
    [k \in DOMAIN target \cup DOMAIN source |-> IF k \in DOMAIN source THEN source[k] ELSE target[k]]

ObjectMerge(args, v) ==
    Obj(FoldLeft(LAMBDA acc, x : IF args.deep THEN deepMerge(acc, Fields(x))
                                 ELSE shallowMerge(acc, Fields(x)), <<>>, v))

ObjectOmit(args, v) == Obj(Restrict(Fields(v[1]), DOMAIN Fields(v[1]) \ args.keys))

ObjectPick(args, v) == Obj(Restrict(Fields(v[1]), DOMAIN Fields(v[1]) \cap args.keys))
=============================================================================
