------------------------------- MODULE Strings -------------------------------
(* The string helpers of src/src/utils/string.cpp, on sequences of            *)
(* characters.  They are noexcept: one that throws ends the program, and      *)
(* returns Dies here.                                                         *)
EXTENDS Integers, Sequences, FiniteSets, SequencesExt

Dies == <<"dies">>
NoText == <<>>

Matches(s, sub) == {i \in 1..Len(s) + 1 - Len(sub) : SubSeq(s, i, i + Len(sub) - 1) = sub}

\* std::string::find: the first match at or after an index; zero is npos.
Find(s, sub, from) ==
    LET found == {i \in Matches(s, sub) : i >= from} IN
    IF found = {} THEN 0 ELSE CHOOSE i \in found : \A j \in found : i <= j

\* Lines 24-30.  An empty source is found again behind every replacement, and
\* the loop does not end: it is not defined here.
RECURSIVE ReplaceFrom(_, _, _, _)
ReplaceFrom(s, src, des, from) ==
    LET pos == Find(s, src, from) IN
    IF pos = 0 THEN s
    ELSE ReplaceFrom(SubSeq(s, 1, pos - 1) \o des \o SubSeq(s, pos + Len(src), Len(s)),
                     src, des, pos + Len(des))

StringReplace(s, src, des) == ReplaceFrom(s, src, des, 1)

\* Lines 33-40.  In a text of blanks both searches end in npos, which is -1 as
\* an int and beyond the text as a position.
TrimString(s) ==
    LET solid == {i \in DOMAIN s : s[i] # " "} IN
    CASE s = NoText -> s
      [] s # NoText /\ solid = {} -> Dies
      [] OTHER -> SubSeq(s, CHOOSE i \in solid : \A j \in solid : i <= j,
                            CHOOSE i \in solid : \A j \in solid : i >= j)

\* A mutation: the search goes on behind the first character of the delimiter.
RECURSIVE SplitByOne(_, _, _)
SplitByOne(s, delim, pos) ==
    LET found == Find(s, delim, pos) IN
    CASE pos > Len(s) -> <<>>
      [] pos <= Len(s) /\ found = 0 -> <<SubSeq(s, pos, Len(s))>>
      [] OTHER -> <<SubSeq(s, pos, found - 1)>> \o SplitByOne(s, delim, found + 1)

\* Lines 50-58: no piece after a delimiter at the end.
RECURSIVE SplitFrom(_, _, _)
SplitFrom(s, delim, pos) ==
    LET found == Find(s, delim, pos) IN
    CASE pos > Len(s) -> <<>>
      [] pos <= Len(s) /\ found = 0 -> <<SubSeq(s, pos, Len(s))>>
      [] OTHER -> <<SubSeq(s, pos, found - 1)>> \o SplitFrom(s, delim, found + Len(delim))

StringSplit(s, delim) == IF delim = NoText THEN <<>> ELSE SplitFrom(s, delim, 1)

\* Lines 62-68: the length of the text minus that of the tail is unsigned.
StringEndWith(s, tail) ==
    CASE s = NoText -> FALSE
      [] s # NoText /\ Len(tail) > Len(s) -> Dies
      [] OTHER -> SubSeq(s, Len(s) - Len(tail) + 1, Len(s)) = tail

StringStartWith(s, head) ==
    s # NoText /\ Len(head) <= Len(s) /\ SubSeq(s, 1, Len(head)) = head

\* Lines 78-102.  A scheme is one character.
GetIpaddrMethod(url) ==
    LET schemes == {t \in {<<"http://">>, <<"https://">>} : StringStartWith(url, t)}
        top == IF schemes = {} THEN NoText ELSE CHOOSE t \in schemes : TRUE
        rest == SubSeq(url, Len(top) + 1, Len(url))
        pos == Find(rest, <<"/">>, 1)
    IN  IF pos = 0 THEN <<NoText, NoText>>
        ELSE <<top \o SubSeq(rest, 1, pos - 1), SubSeq(rest, pos, Len(rest))>>
------------------------------------------------------------------------------
(* What the helpers should do.                                                *)

RECURSIVE Joined(_, _)
Joined(pieces, delim) ==
    CASE pieces = <<>> -> <<>>
      [] Len(pieces) = 1 -> pieces[1]
      [] OTHER -> pieces[1] \o delim \o Joined(Tail(pieces), delim)

\* Splitting loses nothing but one delimiter at the end, and leaves no delimiter
\* in a piece.
SplitKeeps(s, delim) ==
    LET pieces == StringSplit(s, delim) IN
    /\ Joined(pieces, delim) = s \/ Joined(pieces, delim) \o delim = s
    /\ \A i \in DOMAIN pieces : Matches(pieces[i], delim) = {}

\* Replacing is splitting and joining, however the delimiter overlaps itself.
ReplaceKeeps(s, src, des) ==
    LET closed == Append(s, "end") IN
    Append(StringReplace(s, src, des), "end") = Joined(StringSplit(closed, src), des)

\* A text ends with another that is not longer exactly when it begins with it
\* read backwards; a longer tail ends the process.
EndsKeep(s, tail) ==
    Len(tail) <= Len(s) =>
        StringEndWith(s, tail) = StringStartWith(Reverse(s), Reverse(tail))

\* What trimming leaves is the text without the blanks around it.
TrimKeeps(s) ==
    TrimString(s) # Dies =>
        \E i, j \in 0..Len(s) :
            LET blanks(n) == [k \in 1..n |-> " "] IN
            /\ s = blanks(i) \o TrimString(s) \o blanks(j)
            /\ TrimString(s) # NoText => Head(TrimString(s)) # " " /\ Last(TrimString(s)) # " "

\* An address and the method behind it make up the text.
AddressKeeps(url) ==
    LET pair == GetIpaddrMethod(url) IN
    /\ pair # <<NoText, NoText>> =>
          pair[1] \o pair[2] = url /\ Head(pair[2]) = "/" /\ "/" \notin Range(pair[1])
    /\ pair = <<NoText, NoText>> => "/" \notin Range(url)
===============================================================================
