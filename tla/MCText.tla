------------------------------- MODULE MCText -------------------------------
EXTENDS Json, Strings, Dirs

KeysDef == <<<<>>, <<"a">>, <<"b", "\n">>>>
Leaves == {Null, Scalar("bool", <<"true">>), Scalar("int", <<"-", "1">>), Scalar("int", <<"1", "0", "2">>),
           Scalar("double", <<"0", ".", "1">>), Scalar("double", <<"-", "inf">>),
           Scalar("string", <<"\\", "u", "\"", "LS", "ctl">>), Scalar("custom", <<>>)}
Above(S) == {List(<<>>), EmptyMap} \union {List(<<v>>) : v \in S}
            \union {List(<<v, Scalar("int", <<"0">>)>>) : v \in S}
            \union {Map(KeysDef[2] :> v) : v \in S}
            \union {Map(KeysDef[2] :> Null @@ KeysDef[3] :> v) : v \in S}
ValuesDef == Leaves \union Above(Leaves) \union Above(Above(Leaves))
             \union {List(<<v>>) : v \in Above(Above({Null, EmptyMap}))}
AlphabetsDef == {{"-", "0", "1", ".", "e", "+"}, {"\"", "\\", "u", "d800", "dc00", "1"},
                 {"/", "*", "1", "\n", " "}, {"[", "]", ",", "1", "{", "}"},
                 {"{", "}", "\"", ":", "null", ","},
                 {" ", ",", "1"}, {"http://", "/", "1"}, {"0", "1", ".", "n", ","}}

\* Delimiters of one character and of two that overlap themselves.
Delims == {<<",">>, <<"1", "1">>, <<"1", ",", "1">>}

\* The string helpers lose nothing of any text that a user may write: see the
\* operators of Strings for what that is.  A text of blanks cannot be trimmed,
\* nor a tail longer than the text looked for (utils/string.cpp:38, 67).
HelpersKeepTheText ==
    state = "written" /\ Range(file) \subseteq {" ", ",", "1", "http://", "/"} =>
        /\ \A d \in Delims : SplitKeeps(file, d) /\ ReplaceKeeps(file, d, <<"1", "n", "1">>)
                             /\ EndsKeep(file, d)
        /\ TrimKeeps(file) /\ AddressKeeps(file)

\* The names of a directory are the pieces of what the user wrote.
HighestAreKept ==
    state = "written" /\ Range(file) \subseteq {"0", "1", ".", "n", ","} =>
        LET names == Range(StringSplit(file, <<",">>)) \ {NoText} IN
        \A keepCount \in 0..2 : KeepsTheHighest(names, keepCount)
=============================================================================
