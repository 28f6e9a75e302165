---------------------------- MODULE VariantOrder -----------------------------
(* The comparison of Variants (src/src/base/variant.cpp): of pointers, of     *)
(* types, of values.                                                          *)
(*                                                                            *)
(* Three Variants of a program are taken one after the other from Stock, a    *)
(* memory of values built from the bottom up: comparing values that hold      *)
(* themselves does not return.  Atoms are numbers, in the order of what they  *)
(* stand for; two of them stand for the doubles that are none.                *)
EXTENDS Variant, Relation

CONSTANTS
    Stock,      \* what may be compared: a sequence of values, elements first
    Precision,  \* VARIANT_DOUBLE_PRECISION
    Inf, NaN    \* the doubles of these names

ASSUME OrderAssumption ==
    /\ Precision \in Nat \ {0} /\ Inf \in Nat /\ NaN \in Nat
    /\ \A r \in DOMAIN Stock :
          /\ Range(Stock[r].elems) \subseteq 1..r - 1
          /\ Stock[r].atom \in Int
          /\ \/ Stock[r].atom < Inf
             \/ Stock[r].type = "double" /\ Stock[r].atom \in {Inf, NaN}

VARIABLE compared   \* the Variants taken, as places in Stock

Abs(n) == IF n < 0 THEN -n ELSE n
Places(v) == SetToSortSeq(DOMAIN v.elems, <)

\* VariantDouble::isEqual: the difference of two infinities is not a number.
DoubleEqual(m, n) == {m, n} \intersect {Inf, NaN} = {} /\ Abs(m - n) < Precision

\* A mutation: a double is smaller when it is so by more than the precision.
DoubleLessByPrecision(m, n) == NaN \notin {m, n} /\ m <= n - Precision

\* VariantDouble::isLess: what is not a number is neither smaller nor larger.
DoubleLess(m, n) == NaN \notin {m, n} /\ m < n

RECURSIVE Equal(_, _), Less(_, _), Before(_, _)
Equal(a, b) ==
    LET v == Stock[a]  w == Stock[b] IN
    CASE a = b -> TRUE
      [] a # b /\ v.type # w.type -> FALSE
      [] a # b /\ v.type = w.type /\ v.type = "double" -> DoubleEqual(v.atom, w.atom)
      [] OTHER -> /\ v.atom = w.atom
                  /\ DOMAIN v.elems = DOMAIN w.elems
                  /\ \A i \in DOMAIN v.elems : Equal(v.elems[i], w.elems[i])

\* The order of vectors and of maps: by the first elements that differ, names
\* before values; or by length.
Before(v, w) ==
    LET p == Places(v)  q == Places(w)
        pairLess(f, g, i, j) == i < j \/ (i = j /\ Less(f.elems[i], g.elems[j]))
    IN  \E n \in 1..Len(q) :
          /\ n <= Len(p) + 1
          /\ n <= Len(p) => pairLess(v, w, p[n], q[n])
          /\ \A k \in 1..n - 1 : ~pairLess(v, w, p[k], q[k]) /\ ~pairLess(w, v, q[k], p[k])

Less(a, b) ==
    LET v == Stock[a]  w == Stock[b] IN
    CASE a = b -> FALSE
      [] a # b /\ v.type # w.type -> TypeId[v.type] < TypeId[w.type]
      [] a # b /\ v.type = w.type /\ v.type \in {"list", "map"} -> Before(v, w)
      [] a # b /\ v.type = w.type /\ v.type = "double" -> DoubleLess(v.atom, w.atom)
      [] OTHER -> v.atom < w.atom
------------------------------------------------------------------------------
(* What is compared: three values in the order of their places, since the     *)
(* properties ask for all arrangements of them.                               *)

OrderInit == Init /\ compared = <<>>

Take ==
    /\ \A x \in Vars : var[x] = NullRef    \* comparing writes no variable
    /\ Len(compared) < 3
    /\ \E r \in DOMAIN Stock :
          /\ \A i \in DOMAIN compared : compared[i] <= r
          /\ compared' = Append(compared, r)
    /\ UNCHANGED vars

OrderNext == Take \/ (compared = <<>> /\ Next /\ UNCHANGED compared)

OrderSpec == OrderInit /\ [][OrderNext]_<<vars, compared>>
------------------------------------------------------------------------------
(* Properties.                                                                *)

\* The values compared with each other, in tables.
Smaller == [a, b \in DOMAIN Stock |-> Less(a, b)]
Neither == [a, b \in DOMAIN Stock |-> ~Smaller[a, b] /\ ~Smaller[b, a]]
Same == [a, b \in DOMAIN Stock |-> Equal(a, b)]

\* The doubles in a value, at any depth.
Doubles[r \in DOMAIN Stock] ==
    IF Stock[r].type = "double" THEN {Stock[r].atom}
    ELSE UNION {Doubles[e] : e \in Range(Stock[r].elems)}
Numbers == {r \in DOMAIN Stock : NaN \notin Doubles[r]}
Finite == {r \in Numbers : Inf \notin Doubles[r]}
Exact == {r \in DOMAIN Stock : Doubles[r] = {}}

\* What sorting and the standard containers ask of <, on any three values: no
\* two of them are smaller than each other; without NaN < is an order and so is
\* being neither smaller nor larger, also where == takes two doubles for one;
\* of finite values those are equal, and without doubles only those.  A NaN in
\* a list breaks it: [NaN,2] < [1,3] < [2,1] < [NaN,2].
OrderIsStrictWeak ==
    LET all == Range(compared) IN
    /\ IsAsymmetric(Smaller, all)
    /\ IsTransitive(Smaller, all \intersect Numbers)
    /\ IsTransitive(Neither, all \intersect Numbers)
    /\ \A a, b \in all \intersect Finite : Neither[a, b] => Same[a, b]
    /\ \A a, b \in all \intersect Exact : Same[a, b] => Neither[a, b]
===============================================================================
