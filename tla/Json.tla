-------------------------------- MODULE Json --------------------------------
(* The JSON text of a Variant (src/src/base/variant.cpp): the writer, the     *)
(* parser, and the file between saveJson and readJson.                        *)
(*                                                                            *)
(* A text is a sequence of characters.  One character stands for the whole    *)
(* of a keyword, of the four digits of a \u escape, and of the bytes of a     *)
(* code point in UTF-8.  Indentation is left out: the parser skips it.        *)
EXTENDS Integers, Sequences, FiniteSets, SequencesExt

CONSTANTS
    MaxDepth,   \* VARIANT_PARSE_MAX_DEPTH
    Digits,     \* numeric_limits<int>::digits10, and longest text of a short int
    Keys,       \* names in a map, in ascending order: a sequence of texts
    Values,     \* the values that a program saves
    Alphabets,  \* sets of characters that a user writes in a file
    MaxText     \* bound on what the user writes

ASSUME JsonAssumption ==
    /\ MaxDepth \in Nat /\ Digits \in Nat \ {0} /\ MaxText \in Nat
    /\ \A i, j \in DOMAIN Keys : Keys[i] = Keys[j] => i = j

\* A Variant: a scalar has an atom, its text; a map has a function from names.
Scalar(type, atom) == [type |-> type, atom |-> atom, list |-> <<>>, map |-> <<>>]
List(items) == [Scalar("list", <<>>) EXCEPT !.list = items]
Map(f) == [Scalar("map", <<>>) EXCEPT !.map = f]
Null == Scalar("null", <<>>)
EmptyMap == Map([k \in {} |-> Null])

IsDigit(c) == c \in {"0", "1", "2"}
IsFinite(v) == v.atom \notin {<<"inf">>, <<"-", "inf">>}
------------------------------------------------------------------------------
(* The writer.                                                                *)

\* What a character of a string is written as.
Escapes ==
    [c \in {"\\", "\""} |-> <<"\\", c>>] @@ ("\n" :> <<"\\", "n">>)
    @@ ("\t" :> <<"\\", "t">>) @@ ("ctl" :> <<"\\", "u", "0001">>)
    @@ ("LS" :> <<"\\", "u", "2028">>)

OutString(s) ==
    <<"\"">> \o FlattenSeq([i \in DOMAIN s |->
        IF s[i] \in DOMAIN Escapes THEN Escapes[s[i]] ELSE <<s[i]>>]) \o <<"\"">>

OutScalar(v) ==
    CASE v.type = "null" -> <<"null">>
      [] v.type = "double" -> IF IsFinite(v) THEN v.atom ELSE <<"null">>
      [] v.type = "string" -> OutString(v.atom)
      [] v.type = "custom" -> <<"(custom)">>
      [] OTHER -> v.atom

\* Appends a value to a text.  Depth is -1 for PARSE_OUT_SMALL, which has no
\* limit; here depth counts from one and zero is that.  A container too deep
\* clears the whole text, and those around it go on with what is left.
RECURSIVE Out(_, _, _)
Out(v, out, depth) ==
    LET inner == IF depth = 0 THEN 0 ELSE depth + 1
        comma(i) == IF i = 1 THEN <<>> ELSE <<",">>
        keys == SelectSeq(Keys, LAMBDA k : k \in DOMAIN v.map)
    IN  CASE v.type \notin {"list", "map"} -> out \o OutScalar(v)
          [] depth > MaxDepth + 1 -> <<>>
          [] v.type = "list" ->
                FoldLeftDomain(LAMBDA text, i : Out(v.list[i], text \o comma(i), inner),
                               out \o <<"[">>, v.list) \o <<"]">>
          [] OTHER ->
                FoldLeftDomain(LAMBDA text, i :
                        Out(v.map[keys[i]],
                            text \o comma(i) \o OutString(keys[i]) \o <<":">>, inner),
                    out \o <<"{">>, keys) \o <<"}">>

ToJson(v, beautify) == Out(v, <<>>, IF beautify THEN 1 ELSE 0)
------------------------------------------------------------------------------
(* The parser: each operator takes a text and an index, and returns what it   *)
(* read and the index after it.                                               *)

At(text, i) == IF i <= Len(text) THEN text[i] ELSE "end"
Fails == [ok |-> FALSE, value |-> Null, next |-> 0]
Reads(value, next) == [ok |-> TRUE, value |-> value, next |-> next]

\* The end of a run of digits, or of blanks, that begins at i.
RECURSIVE Past(_, _, _)
Past(text, i, chars) == IF At(text, i) \in chars THEN Past(text, i + 1, chars) ELSE i
PastDigits(text, i) == Past(text, i, {"0", "1", "2"})

\* The index after blanks and comments; zero when a comment does not end.
RECURSIVE Garbage(_, _, _)
Garbage(text, start, comments) ==
    LET i == Past(text, start, {" ", "\n"})
        ends == {j \in i + 2..Len(text) - 1 : text[j] = "*" /\ text[j + 1] = "/"}
        line == Past(text, i + 2, Range(text) \ {"\n"})
    IN  CASE ~comments \/ At(text, i) # "/" -> i
          [] At(text, i + 1) = "/" -> Garbage(text, line, TRUE)
          [] At(text, i + 1) = "*" /\ ends # {} ->
                Garbage(text, 2 + CHOOSE j \in ends : \A k \in ends : j <= k, TRUE)
          [] OTHER -> 0

\* Lines 411-463.  A number is an int when it is short and plain.
Number(text, start) ==
    LET sign == IF At(text, start) = "-" THEN start + 1 ELSE start
        whole == IF At(text, sign) = "0" THEN sign + 1 ELSE PastDigits(text, sign)
        point == At(text, whole) = "."
        frac == IF point THEN PastDigits(text, whole + 1) ELSE whole
        e == At(text, frac) = "e"
        sign2 == IF At(text, frac + 1) \in {"+", "-"} THEN frac + 2 ELSE frac + 1
        next == IF e THEN PastDigits(text, sign2) ELSE frac
        atom == SubSeq(text, start, next - 1)
    IN  CASE whole = sign \/ (At(text, sign) = "0" /\ IsDigit(At(text, whole))) -> Fails
          [] ~point /\ ~e /\ whole - start <= Digits -> Reads(Scalar("int", atom), next)
          [] (point /\ frac = whole + 1) \/ (e /\ next = sign2) -> Fails
          [] OTHER -> Reads(Scalar("double", atom), next)

\* UTF-8 of what a \u escape, or a pair of them, stands for.  A high half waits
\* for a low one; a half that stays alone is encoded as it is.
Encode(unit) ==
    CASE unit = "none" -> <<>> [] unit = "0001" -> <<"ctl">>
      [] unit = "2028" -> <<"LS">> [] OTHER -> <<unit>>
Pair(high, low) == <<"pair">>
Hex == {"0001", "2028", "d800", "dc00"}
Plain == [c \in {"\"", "\\", "/"} |-> c] @@ ("n" :> "\n") @@ ("t" :> "\t")

\* Lines 345-410, from behind the quote.
RECURSIVE String(_, _, _, _)
String(text, i, last, out) ==
    LET c == At(text, i)
        d == At(text, i + 1)
        unit == At(text, i + 2)
        flushed == out \o Encode(last)
    IN  CASE c \in {"end", "\n", "\t", "ctl"} -> Fails
          [] c = "\"" -> Reads(Scalar("string", flushed), i + 1)
          [] c # "\\" -> String(text, i + 1, "none", Append(flushed, c))
          [] d = "u" /\ unit \in Hex ->
                IF last = "d800" /\ unit = "dc00"
                THEN String(text, i + 3, "none", out \o Pair(last, unit))
                ELSE String(text, i + 3, unit, flushed)
          [] d \in DOMAIN Plain -> String(text, i + 2, "none", Append(flushed, Plain[d]))
          [] OTHER -> Fails

Scalars == "true" :> Scalar("bool", <<"true">>) @@ "false" :> Scalar("bool", <<"false">>)
           @@ "null" :> Null

\* A mutation: the depth is tested as the writer tests it.
TooDeepIn(depth) == depth > MaxDepth + 1

\* Line 479.
TooDeep(depth) == depth > MaxDepth

\* A later member of a map replaces an earlier one of its name.
SetMember(f, key, value) == (key :> value) @@ f

\* Lines 477-560, and the rest of a list or of a map, behind the token at i.
RECURSIVE Value(_, _, _, _), Items(_, _, _, _, _), Members(_, _, _, _, _),
          ItemsToTheEnd(_, _, _, _, _)
Value(text, start, depth, comments) ==
    LET i == Garbage(text, start, comments)
        c == At(text, i)
        j == Garbage(text, i + 1, comments)
    IN  CASE TooDeep(depth) \/ i = 0 -> Fails
          [] c = "-" \/ IsDigit(c) -> Number(text, i)
          [] c \in DOMAIN Scalars -> Reads(Scalars[c], i + 1)
          [] c = "\"" -> String(text, i + 1, "none", <<>>)
          [] c = "[" -> IF j # 0 /\ At(text, j) = "]" THEN Reads(List(<<>>), j + 1)
                        ELSE Items(text, i + 1, depth + 1, comments, <<>>)
          [] c = "{" -> IF j # 0 /\ At(text, j) = "}" THEN Reads(EmptyMap, j + 1)
                        ELSE Members(text, i + 1, depth + 1, comments, EmptyMap.map)
          [] OTHER -> Fails

\* A mutation: a list ends where the text does.
ItemsToTheEnd(text, start, depth, comments, items) ==
    LET item == Value(text, start, depth, comments)
        all == Append(items, item.value)
    IN  CASE ~item.ok -> Fails
          [] At(text, item.next) = "]" -> Reads(List(all), item.next + 1)
          [] item.next > Len(text) -> Reads(List(all), item.next)
          [] OTHER -> ItemsToTheEnd(text, item.next + 1, depth, comments, all)

Items(text, start, depth, comments, items) ==
    LET item == Value(text, start, depth, comments)
        i == Garbage(text, item.next, comments)
        all == Append(items, item.value)
    IN  CASE ~item.ok \/ i = 0 -> Fails
          [] At(text, i) = "]" -> Reads(List(all), i + 1)
          [] At(text, i) = "," -> Items(text, i + 1, depth, comments, all)
          [] OTHER -> Fails

Members(text, start, depth, comments, f) ==
    LET i == Garbage(text, start, comments)
        key == String(text, i + 1, "none", <<>>)
        colon == Garbage(text, key.next, comments)
        item == Value(text, colon + 1, depth, comments)
        j == Garbage(text, item.next, comments)
        all == SetMember(f, key.value.atom, item.value)
    IN  CASE i = 0 \/ At(text, i) # "\"" -> Fails
          [] ~key.ok \/ colon = 0 -> Fails
          [] At(text, colon) # ":" \/ ~item.ok \/ j = 0 -> Fails
          [] At(text, j) = "}" -> Reads(Map(all), j + 1)
          [] At(text, j) = "," -> Members(text, j + 1, depth, comments, all)
          [] OTHER -> Fails


\* Lines 1171-1186: an empty text is null, and no error.
FromJson(text, comments) ==
    LET result == Value(text, 1, 0, comments) IN
    CASE text = <<>> -> Reads(Null, 1)
      [] ~result.ok \/ Garbage(text, result.next, comments) # Len(text) + 1 -> Fails
      [] OTHER -> result

\* Lines 1193-1217: values one after the other; those before a failure are kept,
\* with a null for the one that failed.
RECURSIVE Multi(_, _, _)
Multi(text, start, comments) ==
    LET result == Value(text, start, 0, comments)
        next == Garbage(text, result.next, comments)
    IN  CASE start > Len(text) -> <<>>
          [] ~result.ok \/ next = 0 -> <<result.value>>
          [] OTHER -> <<result.value>> \o Multi(text, next, comments)
------------------------------------------------------------------------------
(* The file.                                                                  *)
VARIABLES
    file,     \* the characters on the disk
    pending,  \* what the stream of saveFile still holds
    value,    \* what was last saved
    state     \* "saving"; or how the file came to be: "saved", "cut", "written"

vars == <<file, pending, value, state>>

Init ==
    \/ /\ value \in Values
       /\ \E beautify \in BOOLEAN : pending = ToJson(value, beautify)
       /\ file = <<>> /\ state = "saving"
    \/ file = <<>> /\ pending = <<>> /\ value = Null /\ state = "written"

\* Lines 77-90: the file was truncated; the text reaches it bit by bit.
Flush ==
    /\ state = "saving" /\ pending # <<>>
    /\ file' = Append(file, Head(pending))
    /\ pending' = Tail(pending)
    /\ UNCHANGED <<value, state>>

Close ==
    /\ state = "saving" /\ pending = <<>>
    /\ state' = "saved"
    /\ UNCHANGED <<file, pending, value>>

\* The program or the machine stops before the file is written.
Crash ==
    /\ state = "saving"
    /\ state' = "cut" /\ pending' = <<>>
    /\ UNCHANGED <<file, value>>

\* A user writes the file.
Write(c) ==
    /\ state = "written" /\ Len(file) < MaxText
    /\ \E alphabet \in Alphabets : Range(file) \union {c} \subseteq alphabet
    /\ file' = Append(file, c)
    /\ UNCHANGED <<pending, value, state>>

Next == Flush \/ Close \/ Crash \/ \E c \in UNION Alphabets : Write(c)

Spec == Init /\ [][Next]_vars
------------------------------------------------------------------------------
(* What the texts should be.                                                  *)

\* The values that JSON can carry: an int that parseInNumber takes for a double
\* (ten characters or more, of which an int may have eleven), a double that is
\* no number and a custom value come back as something else.
RECURSIVE Carried(_), Height(_)
Children(v) == Range(v.list) \union {v.map[k] : k \in DOMAIN v.map}
Carried(v) ==
    /\ v.type # "custom"
    /\ v.type = "int" => Len(v.atom) <= Digits
    /\ v.type = "double" => IsFinite(v)
    /\ \A w \in Children(v) : Carried(w)
Height(v) ==
    LET heights == {Height(w) : w \in Children(v)} IN
    IF heights = {} THEN 0 ELSE 1 + CHOOSE h \in heights : \A k \in heights : k <= h

\* The writer limits containers only, and only when it indents; the parser
\* limits every value, so a text that was just written may be too deep to read.
\* A saved value is read back as it was if and only if JSON can carry it and
\* its scalars too are within the limit, and again if it is followed by another.
ReadsWhatWasSaved ==
    state = "saved" =>
        LET read == FromJson(file, FALSE) IN
        /\ (read.ok /\ read.value = value) <=> (Carried(value) /\ Height(value) <= MaxDepth)
        /\ Carried(value) /\ Height(value) <= MaxDepth =>
              Multi(file \o <<"\n">> \o file, 1, TRUE) = <<value, value>>

\* A file that was cut short is never taken for another value: unless it is
\* empty, which is null without an error, a list or a map is refused.
CutIsNotTaken ==
    state = "cut" /\ value.type \in {"list", "map"} /\ file # ToJson(value, FALSE)
        => ~FromJson(file, TRUE).ok \/ file = <<>> \/ Height(value) > MaxDepth

\* The grammar: the texts of a value of at most n characters and d levels.
Join(A, B, n) ==
    UNION {{a \o b : b \in {c \in B : Len(a) + Len(c) <= n}} : a \in A}

RECURSIVE Many(_, _), Series(_, _), Texts(_, _)
Many(A, n) == IF n <= 0 THEN {<<>>} ELSE {<<>>} \union Join(A, Many(A, n - 1), n)
Series(A, n) == A \union IF n < 3 THEN {} ELSE Join(Join(A, {<<",">>}, n), Series(A, n - 2), n)

Numbers(n) ==
    LET digits == Many({<<"0">>, <<"1">>}, n) \ {<<>>}
        wholes == {t \in digits : t[1] = "0" => Len(t) = 1}
        fracs == {<<>>} \union Join({<<".">>}, digits, n - 1)
        exps == {<<>>} \union Join({<<"e">>, <<"e", "+">>, <<"e", "-">>}, digits, n - 1)
    IN  Join(Join({<<>>, <<"-">>}, wholes, n), Join(fracs, exps, n), n)

Strings(n) ==
    LET quoting == {a \in Alphabets : "\"" \in a}
        parts == {<<c>> : c \in UNION quoting \ {"\"", "\\", "\n"}} \union {<<"\\", c>> : c \in {"\\", "\"", "n"}}
                 \union {<<"\\", "u", c>> : c \in {"d800", "dc00"}}
    IN  Join(Join({<<"\"">>}, Many(parts, n - 2), n), {<<"\"">>}, n)

Texts(n, d) ==
    LET inner == IF d = 0 THEN {} ELSE Series(Texts(n - 2, d - 1), n - 2)
        members == IF d = 0 \/ n < 6 THEN {}
                   ELSE Series(Join(Join(Strings(2), {<<":">>}, n), Texts(n - 5, d - 1), n), n - 2)
        wrap(open, S, close) == Join(Join({<<open>>}, S \union {<<>>}, n), {<<close>>}, n)
    IN  IF n <= 0 THEN {}
        ELSE Numbers(n) \union Strings(n) \union {<<"null">>}
             \union wrap("[", inner, "]") \union wrap("{", members, "}")

\* Texts of one number with blanks and comments around it.
Commented(n) ==
    LET blank == {<<" ">>, <<"\n">>}
        inside == Many(blank \union {<<"/">>, <<"*">>, <<"1">>}, n - 2)
        line == {<<"/", "/">> \o t : t \in {u \in inside : "\n" \notin Range(u)}}
        block == {<<"/", "*">> \o t : t \in {u \in inside :
                    /\ Len(u) >= 2 /\ u[Len(u)] = "/" /\ u[Len(u) - 1] = "*"
                    /\ \A j \in 1..Len(u) - 2 : ~(u[j] = "*" /\ u[j + 1] = "/")}}
        garbage == Many(blank \union block \union Join(line, {<<"\n">>}, n), n)
    IN  Join(Join(garbage, Many({<<"1">>}, n) \ {<<>>}, n), garbage \union Join(garbage, line, n), n)

Grammar == {<<>>} \union Texts(MaxText, MaxDepth)
GrammarWithComments == {<<>>} \union Commented(MaxText)

===============================================================================
