----------------------------- MODULE TextActions -----------------------------
(***************************************************************************)
(* The Execute methods of the text actions (lotus/pkg/actions/text).  `v'  *)
(* are the inputs the action's rule took, `in' all the inputs of the call, *)
(* `args' the parsed arguments.  A text is a sequence of one-character     *)
(* strings.  Patterns of the regexp package are literals (external): a     *)
(* pattern that starts with "+" does not compile, every other one matches  *)
(* itself and has one capture group around the whole.                      *)
(***************************************************************************)
EXTENDS ActionValues, SequencesExt

Text(x)   == AnyToType(x, "string").v
Texts(v)  == [i \in DOMAIN v |-> Text(v[i])]
Number(x) == AnyToType(x, "number").v
Whole(x)  == Number(x) \div Unit

\* unicode.Is*: the classes of the characters used by the instances.
Class(c) == CASE c \in {"A", "B"}      -> "upper"
              [] c \in {"a", "b", "t"} -> "lower"
              [] c \in {"0", "1", "2"} -> "number"
              [] c = "+"               -> "special"
              [] c \in {".", "-"}      -> "punct"
              [] c = "han"             -> "alpha"      \* a letter without case
              [] OTHER                 -> "other"

ToLower(s) == [i \in DOMAIN s |-> CASE s[i] = "A" -> "a" [] s[i] = "B" -> "b" [] OTHER -> s[i]]
ToUpper(s) == [i \in DOMAIN s |-> CASE s[i] = "a" -> "A" [] s[i] = "b" -> "B" [] OTHER -> s[i]]
Fold(insensitive, s) == IF insensitive THEN ToLower(s) ELSE s

\* strings.Index, 0-based, -1 when absent.
Index(s, sub) ==
    LET at == {i \in 0..(Len(s) - Len(sub)) : SubSeq(s, i + 1, i + Len(sub)) = sub}
    IN IF at = {} THEN -1 ELSE CHOOSE i \in at : \A j \in at : i <= j

Join(items, sep) ==
    FoldLeft(LAMBDA acc, i : acc \o (IF i = 1 THEN <<>> ELSE sep) \o items[i],
             <<>>, [i \in 1..Len(items) |-> i])

\* strings.Split; an empty separator splits into characters.
RECURSIVE Split(_, _)
Split(s, sep) ==
    LET i == Index(s, sep) IN
    CASE sep = <<>> -> [j \in DOMAIN s |-> <<s[j]>>]
      [] i = -1     -> <<s>>
      [] OTHER      -> <<SubSeq(s, 1, i)>>
                       \o Split(SubSeq(s, i + Len(sep) + 1, Len(s)), sep)

\* regexp (external): compilation, and replacement of every match.  An empty
\* pattern matches between any two characters and at both ends.
Compiles(p) == p = <<>> \/ Head(p) # "+"
RegexReplaceAll(s, p, new) == IF p = <<>> THEN Join(<<<<>>>> \o Split(s, <<>>) \o <<<<>>>>, new)
                              ELSE Join(Split(s, p), new)
Matches(s, p) == IF p = <<>> THEN [i \in 1..(Len(s) + 1) |-> <<>>]
                 ELSE [i \in 1..(Len(Split(s, p)) - 1) |-> p]

Trimmed(s, chars, left, right) ==
    LET keep == {i \in DOMAIN s : s[i] \notin chars}
        lo   == IF left  THEN CHOOSE i \in keep : \A j \in keep : i <= j ELSE 1
        hi   == IF right THEN CHOOSE i \in keep : \A j \in keep : i >= j ELSE Len(s)
    IN IF keep = {} THEN <<>> ELSE SubSeq(s, lo, hi)

-----------------------------------------------------------------------------

\* The number of characters of each class; a punctuation mark is counted and
\* never compared, a character of no class is counted by itself.
CharCount(s) == [class \in {"special", "upper", "lower", "number", "alpha"} |->
                    Cardinality({i \in DOMAIN s : Class(s[i]) = class})]
OtherCount(s, c) == Cardinality({i \in DOMAIN s : s[i] = c})
OtherChars(s) == {s[i] : i \in {j \in DOMAIN s : Class(s[j]) = "other"}}
Allowance(args, c) == IF c \in DOMAIN args.chars THEN args.chars[c] ELSE 0

TextAllowedCharCount(args, v) ==
    LET s == Text(v[1]) IN
    Bool(/\ \A k \in DOMAIN CharCount(s) : CharCount(s)[k] <= args.counts[k]
         /\ \A c \in OtherChars(s) : OtherCount(s, c) <= Allowance(args, c))

\* Only the characters that occur are compared with `chars'.
TextRequiredCharCount(args, v) ==
    LET s == Text(v[1]) IN
    Bool(/\ \A k \in DOMAIN CharCount(s) : CharCount(s)[k] >= args.counts[k]
         /\ \A c \in OtherChars(s) : OtherCount(s, c) >= Allowance(args, c))

TextConcat(args, v) ==
    Str(Join(IF args.value = <<>> THEN Texts(v) ELSE Append(Texts(v), args.value),
             args.separator))

\* The k-th input of the call is read by its number: among all the inputs, where
\* another type is refused, or among the inputs that are texts, where it may be missing.
Refused(in, k) == Failed(AnyToType(in[k], "string"))
Missing(v, k) == Len(v) < k

TextContains(args, v, in) ==
    LET sub == IF Len(in) > 1 THEN Text(in[2]) ELSE args.substring
    IN IF Len(in) > 1 /\ Refused(in, 2) THEN Err
       ELSE Bool(Index(Fold(args.ci, Text(v[1])), Fold(args.ci, sub)) # -1)

TextEndsWith(args, v, in) ==
    LET sub == IF Len(in) = 2 THEN Text(in[2]) ELSE args.substring
    IN IF Len(in) = 2 /\ Refused(in, 2) THEN Err
       ELSE Bool(IsSuffix(Fold(args.ci, sub), Fold(args.ci, Text(v[1]))))

TextStartsWith(args, v, in) ==
    LET sub == IF Len(in) = 2 THEN Text(v[2]) ELSE args.substring
    IN IF Len(in) = 2 /\ Missing(v, 2) THEN Panic
       ELSE Bool(IsPrefix(Fold(args.ci, sub), Fold(args.ci, Text(v[1]))))

\* The expected text, `value' or `compare_to' or else the first input, is the
\* first of the texts it is compared with.
TextEquals(args, v) ==
    LET expected == IF args.value # Nil THEN args.value ELSE args.compareTo
        strs     == IF expected # Nil THEN <<Text(expected)>> \o Texts(v) ELSE Texts(v)
    IN Bool(\E i \in DOMAIN strs : Fold(args.ci, strs[i]) = Fold(args.ci, strs[1]))

TextIndexOf(args, v, in) ==
    LET sub == IF Len(in) = 2 THEN Text(v[2]) ELSE args.substring
    IN IF Len(in) = 2 /\ Missing(v, 2) THEN Panic
       ELSE Num(Unit * Index(Fold(args.ci, Text(v[1])), Fold(args.ci, sub)))

TextLength(v) == Num(Unit * Len(Text(v[1])))

\* The bound is the second input, whatever its type, before the argument.
Bound(arg, in) == IF Len(in) > 1 THEN AnyToType(in[2], "number") ELSE Num(Unit * arg)

TextMaxLength(args, v, in) ==
    LET b == Bound(args.max, in)
    IN IF Failed(b) THEN Err ELSE Bool(Len(Text(v[1])) <= Whole(b))

TextMinLength(args, v, in) ==
    LET b == Bound(args.min, in)
    IN IF Failed(b) THEN Err ELSE Bool(Len(Text(v[1])) >= Whole(b))

\* Mutant: both sides get half, rounded down.
TextPadHalves(args, v) ==
    LET s      == Text(v[1])
        padLen == args.length - Len(s)
        pad(n) == FlattenSeq([i \in 1..n |-> IF args.char = <<>> THEN <<" ">> ELSE args.char])
    IN Str(IF padLen <= 0 THEN s ELSE pad(padLen \div 2) \o s \o pad(padLen \div 2))

TextPad(args, v) ==
    LET s       == Text(v[1])
        padLen  == args.length - Len(s)
        pad(n)  == FlattenSeq([i \in 1..n |-> IF args.char = <<>> THEN <<" ">> ELSE args.char])
    IN CASE padLen <= 0           -> Str(s)
         [] args.side = "left"    -> Str(pad(padLen) \o s)
         [] args.side = "both"    -> Str(pad(padLen \div 2) \o s \o pad(padLen - padLen \div 2))
         [] OTHER                 -> Str(s \o pad(padLen))

\* Groups 0 and 1 are the match; a higher group does not exist, and a negative one
\* indexes each match outside its bounds.
TextRegexExtract(args, v) ==
    LET ms    == Matches(Text(v[1]), args.pattern)
        found == IF args.group <= 1 THEN ms ELSE <<>>
    IN CASE args.group < 0 /\ ms # <<>> -> Panic
         [] args.all      -> Arr([i \in DOMAIN found |-> Str(found[i])])
         [] found = <<>>  -> Str(<<>>)
         [] OTHER         -> Str(found[1])

TextRegexMatch(args, v) == Bool(Matches(Text(v[1]), args.pattern) # <<>>)

TextRegexReplace(args, v) == Str(RegexReplaceAll(Text(v[1]), args.pattern, args.replacement))

\* With two inputs the second is `old', with three the third is `new' and the
\* second is not used; when `old' compiles, `new' is the argument's.
TextReplace(args, v, in) ==
    LET old == IF Len(in) = 2 THEN Text(v[2]) ELSE args.old
        new == IF Len(in) = 3 THEN Text(v[3]) ELSE args.new
    IN CASE Len(in) \in {2, 3} /\ Missing(v, Len(in)) -> Panic
         [] Compiles(old) -> Str(RegexReplaceAll(Text(v[1]), old, args.new))
         [] OTHER         -> Str(Join(Split(Text(v[1]), old), new))

TextReverse(v) == Str(Reverse(Text(v[1])))

TextSplit(args, v) ==
    LET sep == IF Len(v) = 2 THEN Text(v[2]) ELSE args.separator
        ps  == Split(Text(v[1]), sep)
    IN Arr([i \in DOMAIN ps |-> Str(ps[i])])

TextToArray(v) == Arr([i \in DOMAIN Text(v[1]) |-> Str(<<Text(v[1])[i]>>)])

\* strconv.ParseBool
TextToBool(v) == LET s == Text(v[1]) IN
    CASE s \in {<<"1">>, <<"t">>, <<"T">>} -> Bool(TRUE)
      [] s \in {<<"0">>, <<"f">>, <<"F">>} -> Bool(FALSE)
      [] OTHER                             -> Err

TextToLower(v) == Str(ToLower(Text(v[1])))

TextToUpper(v) == Str(ToUpper(Text(v[1])))

\* Bytes start..end-1; a negative index counts from the end, end 0 is the end.
TextSubstring(args, v) ==
    LET s     == Text(v[1])
        n     == Len(s)
        start == IF args.start >= 0 THEN args.start
                 ELSE IF n + args.start < 0 THEN 0 ELSE n + args.start
        stop  == CASE args.end = 0 -> n
                   [] args.end < 0 -> n + args.end
                   [] OTHER        -> IF args.end > n THEN n ELSE args.end
    IN Str(IF start >= n \/ stop <= start THEN <<>> ELSE SubSeq(s, start + 1, stop))

TextTrim(args, v) ==
    LET chars == IF args.chars = <<>> THEN {" "} ELSE ToSet(args.chars)
    IN Str(Trimmed(Text(v[1]), chars, args.side # "right", args.side # "left"))

-----------------------------------------------------------------------------
(* Numbers as texts: strconv.FormatFloat(_, 'f', -1, 64) and ParseFloat.    *)

Digit == <<"0", "1", "2", "3", "4", "5", "6", "7", "8", "9">>

RECURSIVE Digits(_)
Digits(n) == IF n < 10 THEN <<Digit[n + 1]>> ELSE Append(Digits(n \div 10), Digit[(n % 10) + 1])

FormatNumber(n) ==
    LET a == IF n < 0 THEN -n ELSE n
    IN (IF n < 0 THEN <<"-">> ELSE <<>>) \o Digits(a \div Unit)
       \o (IF a % Unit = 0 THEN <<>> ELSE <<".", "5">>)

\* Every text of the instances that is a number is one of these, possibly
\* after a "+".
Parseable == -(10 * Unit)..(10 * Unit)

ParseFloat(s) ==
    LET body == IF s # <<>> /\ Head(s) = "+" THEN Tail(s) ELSE s
        ns   == {n \in Parseable : FormatNumber(n) = body /\ (s # body => n >= 0)}
    IN IF ns = {} THEN Err ELSE Num(CHOOSE n \in ns : TRUE)

TextToNumber(v) == ParseFloat(Text(v[1]))
=============================================================================
