--------------------------------- MODULE Glob ---------------------------------
(***************************************************************************)
(* burl's URL patterns: the generators that a pattern is made of, the      *)
(* machine with a stack that enumerates their combinations, and the        *)
(* interpolation of its tokens into the name of an output file.            *)
(*                                                                         *)
(* A string is the sequence of the values it was put together from: a text *)
(* of the pattern, a number with its number of digits, a character.        *)
(***************************************************************************)
EXTENDS Integers, Sequences, SequencesExt

CONSTANT Word       \* numbers are kept modulo this; 2^64 in the code

ASSUME WordAssumption == Word \in Nat \ {0}

Text(s) == <<"text", s>>
Character(c) == <<"char", c>>

Digits(n) == CHOOSE d \in 1..20 : n < 10^d /\ (d = 1 \/ n >= 10^(d - 1))

\* to_string with zeros in front, up to the width of the pattern's lower bound.
Number(n, width) == <<"number", n, IF width > Digits(n) THEN width ELSE Digits(n)>>

-------------------------------------------------------------------------------
(***************************************************************************)
(* Generators: what the closures of make_static_gen, make_set_gen,         *)
(* make_range_gen and make_char_gen keep.                                  *)
(***************************************************************************)
make_static_gen(s) == [kind |-> "static", text |-> s, spent |-> FALSE]
make_set_gen(items) == [kind |-> "set", items |-> items, i |-> 0]
make_range_gen(width, low, high, step) ==
    [kind |-> "range", width |-> width, low |-> low, high |-> high, step |-> step]
make_char_gen(low, high, step) == [kind |-> "char", low |-> low, high |-> high, step |-> step]

\* What a pattern is made of, before any value was asked for.
Generator ==
    [kind : {"static"}, text : STRING, spent : {FALSE}]
    \cup [kind : {"set"}, items : Seq(STRING), i : {0}]
    \cup [kind : {"range"}, width : 0..255, low : 0..(Word - 1), high : 0..(Word - 1),
          step : 0..(Word - 1)]
    \cup [kind : {"char"}, low : -128..127, high : -128..127, step : 0..255]

\* A char is signed and has 8 bits.
Char(n) == ((n + 128) % 256) - 128

\* The generator has another value, ...
Yields(g) ==
    CASE g.kind = "static" -> ~ g.spent
      [] g.kind = "set" -> g.i # Len(g.items)
      [] OTHER -> g.low <= g.high

\* ... which is this, ...
Value(g) ==
    CASE g.kind = "static" -> Text(g.text)
      [] g.kind = "set" -> Text(g.items[g.i + 1])
      [] g.kind = "range" -> Number(g.low, g.width)
      [] OTHER -> Character(g.low)

\* ... and then it is this generator.
Advanced(g) ==
    CASE g.kind = "static" -> [g EXCEPT !.spent = TRUE]
      [] g.kind = "set" -> [g EXCEPT !.i = @ + 1]
      [] g.kind = "range" -> [g EXCEPT !.low = (@ + g.step) % Word]
      [] OTHER -> [g EXCEPT !.low = Char(@ + g.step)]

\* A static generator gives no token.
AsToken(g) == IF g.kind = "static" THEN <<>> ELSE <<Value(g)>>

-------------------------------------------------------------------------------
(***************************************************************************)
(* make_glob_generator: the stack holds, for each generator that has been  *)
(* asked, what was put together before it and it with those behind it.     *)
(***************************************************************************)
make_glob_generator(gs) == [stack |-> <<[prefix |-> <<>>, gs |-> gs]>>, tokens |-> <<>>]

\* With --globoff, which takes a URL as it is.
make_oneshot_gen(s) == make_glob_generator(<<make_static_gen(s)>>)

Top(m) == Last(m.stack)
Front1(m) == Head(Top(m).gs)

\* The generator in front is asked and has a value: the top of the stack after it.
Asked(m) == Append(Front(m.stack), [Top(m) EXCEPT !.gs[1] = Advanced(@)])

\* An iteration that returns a result.
Returns(m) == m.stack # <<>> /\ Yields(Front1(m)) /\ Len(Top(m).gs) = 1
Result(m) == [result |-> Append(Top(m).prefix, Value(Front1(m))),
              tokens |-> m.tokens \o AsToken(Front1(m))]
AfterResult(m) == [m EXCEPT !.stack = Asked(m)]

\* An iteration that goes on to the next generator.
Descends(m) == m.stack # <<>> /\ Yields(Front1(m)) /\ Len(Top(m).gs) > 1
AfterDescent(m) ==
    [stack |-> Append(Asked(m), [prefix |-> Append(Top(m).prefix, Value(Front1(m))),
                                 gs |-> Tail(Top(m).gs)]),
     tokens |-> m.tokens \o AsToken(Front1(m))]

\* Fault: the token of the generator that goes on stays.
PoppedKeepingToken(m) == [m EXCEPT !.stack = Front(m.stack)]

\* pop_back, with the token of the generator that is on top then.
Popped(m) ==
    LET rest == Front(m.stack) IN
    [stack |-> rest,
     tokens |-> IF rest = <<>> \/ Head(Last(rest).gs).kind = "static"
                THEN m.tokens ELSE Front(m.tokens)]

\* Fault: the first generator stays on the stack when it has no more values.
RetreatsAboveFirst(m) == Len(m.stack) > 1 /\ ~ Yields(Front1(m))

\* An iteration that goes back.
Retreats(m) == m.stack # <<>> /\ ~ Yields(Front1(m))

(***************************************************************************)
(* glob_result::interpolate.  A format is texts and <<"#", k>>; one that   *)
(* stands for no token stays as it is.  stoul(k) - 1 is unsigned, and      *)
(* stoul throws when k does not fit.                                       *)
(***************************************************************************)
OutOfRange(format) == \E i \in DOMAIN format : format[i][1] = "#" /\ format[i][2] >= Word

interpolate(format, tokens) ==
    [i \in DOMAIN format |->
        IF format[i][1] = "#" /\ format[i][2] \in DOMAIN tokens
        THEN tokens[format[i][2]] ELSE format[i]]

-------------------------------------------------------------------------------
(***************************************************************************)
(* What a pattern stands for: the values of a generator in their order,    *)
(* and the combinations, of which the last part varies fastest.            *)
(***************************************************************************)

\* The numbers from low to high by step: how many there are, and the i-th one.
Count(low, high, step) == IF low > high THEN 0 ELSE (high - low) \div step + 1
At(low, step, i) == low + (i - 1) * step

\* The generator stops at its upper bound: there is a step, and the first number beyond
\* the bound does not wrap around.
Sane(g) ==
    g.kind \in {"range", "char"} /\ g.low <= g.high =>
        /\ g.step > 0
        /\ At(g.low, g.step, Count(g.low, g.high, g.step) + 1)
               < (IF g.kind = "range" THEN Word ELSE 128)

Values(g) ==
    CASE g.kind = "static" -> <<Text(g.text)>>
      [] g.kind = "set" -> [i \in DOMAIN g.items |-> Text(g.items[i])]
      [] OTHER ->
            [i \in 1..Count(g.low, g.high, g.step) |->
                LET n == At(g.low, g.step, i)
                IN IF g.kind = "char" THEN Character(n) ELSE Number(n, g.width)]

\* A value of a generator in front of a combination of those behind it.
Prepend(kind, v, c) ==
    [result |-> <<v>> \o c.result,
     tokens |-> (IF kind = "static" THEN <<>> ELSE <<v>>) \o c.tokens]

\* Each of the values in front of all the combinations.
Product(kind, values, rest) ==
    FlattenSeq([j \in DOMAIN values |->
        [n \in DOMAIN rest |-> Prepend(kind, values[j], rest[n])]])

\* The combinations of the generators, put together from the last one on.
Enumeration(gs) ==
    LET ofLast[i \in 0..Len(gs)] ==
            IF i = 0 THEN <<[result |-> <<>>, tokens |-> <<>>]>>
            ELSE LET g == gs[Len(gs) - i + 1]
                 IN Product(g.kind, Values(g), ofLast[i - 1])
    IN ofLast[Len(gs)]
===============================================================================
