---------------------------- MODULE NumberActions ----------------------------
(***************************************************************************)
(* The Execute methods of the number and date actions                      *)
(* (lotus/pkg/actions/number, lotus/pkg/actions/date).  A number is a      *)
(* count of halves; float64 results that are no multiple of a half are     *)
(* outside the model, and its instances do not ask for them.               *)
(***************************************************************************)
EXTENDS TextActions

Numbers(v) == [i \in DOMAIN v |-> Number(v[i])]
Add(a, b)  == a + b
Abs(n)     == IF n < 0 THEN -n ELSE n
Sgn(n)     == CASE n > 0 -> 1 [] n < 0 -> -1 [] OTHER -> 0
IsWhole(n) == n % Unit = 0
Times(a, b) == (a * b) \div Unit

RECURSIVE Power(_, _)
Power(a, k) == IF k = 0 THEN Unit ELSE Times(a, Power(a, k - 1))

\* The k-th root of a number that has one in the model.
RootOf(n, k) == CHOOSE r \in 0..n : Power(r, k) = n

NumberAbs(v) == Num(Abs(Number(v[1])))

NumberAdd(args, v) == Num(args.value + FoldLeft(Add, 0, Numbers(v)))

NumberCeiling(v) == Num(-((-Number(v[1])) \div Unit) * Unit)

NumberFloor(v) == Num((Number(v[1]) \div Unit) * Unit)

NumberClamp(args, v) ==
    LET n == Number(v[1])
    IN CASE n < args.min -> Num(args.min) [] n > args.max -> Num(args.max) [] OTHER -> Num(n)

NumberSquare(v) == Num(Times(Number(v[1]), Number(v[1])))

NumberCube(v) == Num(Power(Number(v[1]), 3))

\* The configured denominator, when it is 0, replaces every input: without the
\* argument any second number is an error, with it the argument is not used.
NumberDivide(args, v) ==
    LET ns == Numbers(v)
        ds == [i \in 1..(Len(v) - 1) |-> IF args.denominator = 0 THEN 0 ELSE ns[i + 1]]
    IN IF 0 \in ToSet(ds) THEN Err
       ELSE Num(FoldLeft(LAMBDA n, d : (n * Unit) \div d, ns[1], ds))

NumberCubeRoot(v) == Num(Sgn(Number(v[1])) * RootOf(Abs(Number(v[1])), 3))

NumberSquareRoot(v) == IF Number(v[1]) < 0 THEN Err ELSE Num(RootOf(Number(v[1]), 2))

NumberEquals(args, v) ==
    LET ns == (IF args.value = Nil THEN <<>> ELSE <<args.value.v>>) \o Numbers(v)
    IN Bool(\A i \in DOMAIN ns : ns[i] = ns[1])

\* The exponent is the second input, if any, before the argument.
NumberExponent(args, v) ==
    Num(Power(Number(v[1]), (IF Len(v) = 2 THEN Number(v[2]) ELSE args.exponent) \div Unit))

\* Where the second of two inputs is read whatever its type, it may be refused.
NotNumber(in) == Len(in) = 2 /\ Failed(AnyToType(in[2], "number"))

\* math.Pow(val, 1/root): no real root of a negative number, none of order 0.
NumberRoot(args, v, in) ==
    LET n == Number(v[1])
        k == (IF Len(in) = 2 THEN Number(in[2]) ELSE args.root) \div Unit
    IN IF NotNumber(in) \/ k = 0 \/ (n < 0 /\ k # 1) THEN Err
       ELSE Num(IF k = 1 THEN n ELSE RootOf(n, k))

NumberIsEven(v) == Bool(IsWhole(Number(v[1])) /\ (Number(v[1]) \div Unit) % 2 = 0)

NumberIsOdd(v) == Bool(IsWhole(Number(v[1])) /\ (Number(v[1]) \div Unit) % 2 # 0)

\* `max' and `min' answer whether the number lies beyond the bound.
NumberMax(args, v, in) ==
    IF NotNumber(in) THEN Err
    ELSE Bool(Number(v[1]) > (IF Len(in) = 2 THEN Number(in[2]) ELSE args.max))

NumberMin(args, v, in) ==
    IF NotNumber(in) THEN Err
    ELSE Bool(Number(v[1]) < (IF Len(in) = 2 THEN Number(in[2]) ELSE args.min))

\* math.Mod: the result has the sign of the numerator.
NumberModulus(args, v) ==
    LET n == Number(v[1])
        d == IF Len(v) > 1 THEN Number(v[2]) ELSE args.denominator
    IN IF d = 0 THEN Err ELSE Num(Sgn(n) * (Abs(n) % Abs(d)))

\* Ternary evaluates *a.multiplier whether or not it is nil; with a multiplier
\* the inputs are only counted.
NumberMultiply(args, v) ==
    IF args.multiplier = Nil THEN Panic ELSE Num(Power(args.multiplier.v, Len(v)))

NumberParse(args, v) ==
    LET n == ParseFloat(Text(v[1])) IN IF Failed(n) THEN Num(args.default) ELSE n

\* Half away from zero at 10^-precision; a half is exact from precision 1 on.
NumberRound(args, v) ==
    LET n == Number(v[1])
    IN Num(IF args.precision > 0 THEN n ELSE Sgn(n) * ((Abs(n) + 1) \div Unit) * Unit)

NumberSign(v) == Num(Unit * Sgn(Number(v[1])))

NumberSubtract(args, v) ==
    Num(Number(v[1]) - FoldLeft(Add, 0, Tail(Numbers(v))) - args.value)

NumberToNegative(v) == Num(-Number(v[1]))

NumberToPositive(v) == Num(Abs(Number(v[1])))

NumberToString(v) == Str(FormatNumber(Number(v[1])))

\* math.Gamma(n + 1): a pole at the negative whole numbers.
NumberFactorial(v) ==
    LET n == Number(v[1]) \div Unit
    IN IF n < 0 THEN Err ELSE Num(Unit * FoldLeft(LAMBDA a, b : a * b, 1, [i \in 1..n |-> i]))

-----------------------------------------------------------------------------
(* Dates.  A date text is <<layout, local hour, zone offset>>; a layout      *)
(* without a zone is read as UTC, one without the hour as midnight, and a   *)
(* text of a layout nobody parses is no date.  ZeroTime is Go's time.Time{}. *)

ZeroTime == 0
HoursPerDay == 24

formatAliases == [iso8601 |-> "RFC3339", date |-> "Date", datetime |-> "DateTime", time |-> "Time"]

resolveFormat(f) == IF f \in DOMAIN formatAliases THEN formatAliases[f] ELSE f

\* Time.Format (external): what a layout keeps; an unknown layout is copied.
Format(time, layout) ==
    LET local == time.at + time.zone
    IN Str(CASE layout = "RFC3339"  -> <<layout, local, time.zone>>
             [] layout = "DateTime" -> <<layout, local, 0>>
             [] layout = "Date"     -> <<layout, (local \div HoursPerDay) * HoursPerDay, 0>>
             [] layout = "Time"     -> <<layout, local % HoursPerDay, 0>>
             [] OTHER               -> <<layout, 0, 0>>)

\* time.Parse (external) of a text in one of the layouts.
Parses(x, layouts) == x.t = "string" /\ Len(x.v) = 3 /\ x.v[1] \in layouts
Parsed(x) == [at |-> x.v[2] - x.v[3], zone |-> x.v[3]]

CommonLayouts == {"RFC3339", "DateTime", "Date"}

In(time, zone) == IF zone = "" THEN time ELSE [time EXCEPT !.zone = -5]

Layout(f) == IF f = "" THEN "RFC3339" ELSE resolveFormat(f)

\* A date that parses to the zero time counts as one that does not parse.
DateFormat(args, v) ==
    IF ~Parses(v[1], CommonLayouts) \/ Parsed(v[1]).at = ZeroTime \/ args.timezone = "bad" THEN Err
    ELSE Format(In(Parsed(v[1]), args.timezone), resolveFormat(args.format))

DateParse(args, v) ==
    LET layouts == IF args.inputFormat # "" THEN {resolveFormat(args.inputFormat)}
                   ELSE CommonLayouts
    IN IF \/ ~Parses(v[1], layouts)
          \/ args.inputFormat = "" /\ Parsed(v[1]).at = ZeroTime
          \/ args.timezone = "bad"
       THEN Err
       ELSE Format(In(Parsed(v[1]), args.timezone), Layout(args.outputFormat))

\* Days are calendar days in the date's own zone; years and months are not used.
DateAdd(args, v) ==
    IF ~Parses(v[1], CommonLayouts) THEN Err
    ELSE Format([Parsed(v[1]) EXCEPT !.at = @ + HoursPerDay * args.days + args.hours],
                Layout(args.format))

\* A unit that is not known is read as seconds.
DateDiff(args, v) ==
    LET hours == Parsed(v[2]).at - Parsed(v[1]).at
    IN IF ~Parses(v[1], CommonLayouts) \/ ~Parses(v[2], CommonLayouts) THEN Err
       ELSE Num(CASE args.unit = "days"    -> (Unit * hours) \div HoursPerDay
                  [] args.unit = "hours"   -> Unit * hours
                  [] args.unit = "minutes" -> Unit * 60 * hours
                  [] args.unit = "milliseconds" -> Unit * 3600000 * hours
                  [] OTHER                 -> Unit * 3600 * hours)

\* The format of date_now is used as it stands, alias names included.
DateNow(args, now) ==
    IF args.timezone = "bad" THEN Err
    ELSE Format(In(now, args.timezone), IF args.format = "" THEN "RFC3339" ELSE args.format)
=============================================================================
