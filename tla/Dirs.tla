--------------------------------- MODULE Dirs ---------------------------------
(* The ordered listings of src/src/utils/dir.cpp and what removeSubOldDirs    *)
(* keeps of a directory.  A name is a sequence of characters.                 *)
EXTENDS Integers, Sequences, FiniteSets, SequencesExt

CONSTANT MaxInt     \* the largest int

ASSUME DirsAssumption == MaxInt \in Nat

Digit == [c \in {"0", "1"} |-> IF c = "0" THEN 0 ELSE 1]

\* The value of the digits that a text begins with.
RECURSIVE Leading(_, _)
Leading(s, n) ==
    IF s = <<>> \/ Head(s) \notin DOMAIN Digit THEN n
    ELSE Leading(Tail(s), 10 * n + Digit[Head(s)])

\* The name up to its last point, unless it begins with that.
Stem(name) ==
    LET points == {i \in 2..Len(name) : name[i] = "."} IN
    IF points = {} THEN name
    ELSE SubSeq(name, 1, (CHOOSE i \in points : \A j \in points : j <= i) - 1)

StartsWithDigit(s) == s # <<>> /\ Head(s) \in DOMAIN Digit

\* A mutation: the whole name is taken for a number, or it has none.
NumWhole(name) ==
    IF Range(name) \subseteq DOMAIN Digit /\ Leading(name, 0) <= MaxInt
    THEN Leading(name, 0) ELSE -1

\* Lines 42-52: std::stoi of the stem; -1 when it throws, as it does for a text
\* without a number and for a number that no int holds.
Num(name) ==
    LET stem == Stem(name)
        negative == stem # <<>> /\ Head(stem) = "-"
        digits == IF negative THEN Tail(stem) ELSE stem
    IN  CASE ~StartsWithDigit(digits) -> -1
          [] StartsWithDigit(digits) /\ Leading(digits, 0) > MaxInt -> -1
          [] OTHER -> IF negative THEN -Leading(digits, 0) ELSE Leading(digits, 0)

\* Lines 53-57.
Before(lhs, rhs, maxFirst) == IF Num(lhs) > Num(rhs) THEN maxFirst ELSE ~maxFirst

\* std::sort: some order in which nobody comes after one it must precede; any
\* order at all when two names precede each other, as equal numbers do unless
\* the largest is first.
Listings(names, maxFirst) ==
    LET orders == SetToSeqs(names)
        clash == \E a, b \in names :
                    a # b /\ Before(a, b, maxFirst) /\ Before(b, a, maxFirst)
    IN  {o \in orders : clash \/ \A i, j \in DOMAIN o :
                                    i < j => ~Before(o[j], o[i], maxFirst)}

\* Lines 214-232: the listings by date go by name too.
GetDirsByName(names) == Listings(names, TRUE)
GetDirsByLastDate(names, newFirst) == Listings(names, newFirst)

\* Lines 277-292: what may be left of the names.
RemoveSubOldDirs(names, keepCount) ==
    {IF Cardinality(names) > keepCount THEN {dirs[i] : i \in {j \in DOMAIN dirs : j <= keepCount}}
     ELSE names : dirs \in GetDirsByName(names)}
------------------------------------------------------------------------------
\* The number that a name stands for, of any size.
Meant(name) == Leading(Stem(name), 0)
Sound(name) == StartsWithDigit(Stem(name)) /\ Meant(name) <= MaxInt

\* As long as the number of every name is an int, what is kept is the given
\* number of names and none that is removed has a larger number; one whose
\* number no int holds is removed before all of them.
KeepsTheHighest(names, keepCount) ==
    \A left \in RemoveSubOldDirs(names, keepCount) :
        /\ Cardinality(left) = IF Cardinality(names) > keepCount THEN keepCount
                               ELSE Cardinality(names)
        /\ \A kept \in left, gone \in names \ left :
              Sound(gone) => Sound(kept) /\ Meant(kept) >= Meant(gone)
===============================================================================
