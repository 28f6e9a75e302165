------------------------------- MODULE Variant -------------------------------
(* mifsa::Variant (src/src/base/variant.cpp:563 on, and variant.h): variables *)
(* that point to shared values, and the operators that write through them.    *)
(* VariantOrder has their comparison.                                         *)
(*                                                                            *)
(* A Variant is a shared pointer.  Copies share their value; a scalar never   *)
(* changes, but operator[] writes into the list or map that it points to.     *)
(* Names in a map are numbers here, as indexes of a list are.                 *)
EXTENDS Integers, Sequences, FiniteSets, SequencesExt

CONSTANTS
    Vars,       \* the variables of the program
    Refs,       \* the values in memory
    NullRef,    \* VariantGlobal::nullValue()
    Top,        \* in a slot: none of Refs
    Scalars,    \* pairs of a type and a number
    MaxSize     \* bound on indexes and names

ASSUME VariantAssumption ==
    /\ IsFiniteSet(Refs) /\ Cardinality(Refs) > 3
    /\ NullRef \in Refs /\ Top \notin Refs
    /\ Scalars \subseteq {"bool", "int", "double", "string"} \X Int
    /\ MaxSize \in Nat

VARIABLES
    var,     \* the value of each variable
    heap     \* what each value is

vars == <<var, heap>>

Value(type, atom) == [type |-> type, atom |-> atom, elems |-> <<>>]
NullValue == Value("null", 0)
TypeId == [t \in {"null", "bool", "int", "double", "string", "list", "map"} |->
             CASE t = "null" -> 0 [] t = "bool" -> 1 [] t = "int" -> 2
               [] t = "double" -> 3 [] t = "string" -> 4 [] t = "list" -> 5
               [] t = "map" -> 6]

Values ==
    [type : DOMAIN TypeId, atom : Int,
     elems : UNION {[D -> Refs] : D \in SUBSET (1..MaxSize)}]

TypeOK == var \in [Vars -> Refs] /\ heap \in [Refs -> Values]

Init ==
    /\ var = [x \in Vars |-> NullRef]
    /\ heap = [r \in Refs |-> NullValue]

\* The values that can be reached from some of them: what is in every set that
\* holds those, and with a value its elements.
Elements(h) == UNION {Range(h[r].elems) : r \in Refs}
Closed(h, T) == \A r \in T : Range(h[r].elems) \subseteq T
ReachIn(h, S) ==
    LET more == Elements(h) \ S
        closed == {T \in SUBSET more : Closed(h, S \union T)}
    IN  S \union {r \in more : \A T \in closed : r \in T}

Reach(x) == ReachIn(heap, {var[x]})
------------------------------------------------------------------------------
(* A statement works on memory m, a record of var and heap, and on slots: the *)
(* places of a variable, or of an element of a value.                         *)

SlotOf(x) == [ref |-> Top, at |-> x]
Deref(m, slot) ==
    IF slot.ref = Top THEN m.var[slot.at] ELSE m.heap[slot.ref].elems[slot.at]
Put(m, slot, r) ==
    IF slot.ref = Top THEN [m EXCEPT !.var[slot.at] = r]
    ELSE [m EXCEPT !.heap[slot.ref].elems[slot.at] = r]

Free(m) == Refs \ ReachIn(m.heap, {NullRef} \union Range(m.var))

\* A new value, in a slot.
Make(m, slot, value) ==
    LET r == CHOOSE r \in Free(m) : TRUE IN
    Put([m EXCEPT !.heap[r] = value], slot, r)

\* A mutation: the value in the slot becomes another, for all who share it.
BecomeInPlace(m, slot, type) == [m EXCEPT !.heap[Deref(m, slot)] = Value(type, 0)]

\* What is no list, or no map, is replaced by a new one in this slot alone.
Become(m, slot, type) == Make(m, slot, Value(type, 0))

\* getSubValue (lines 1235-1275), and the slot of the element.
SubValue(m, slot, type, i) ==
    LET m1 == IF m.heap[Deref(m, slot)].type = type THEN m ELSE Become(m, slot, type)
        r == Deref(m1, slot)
        old == m1.heap[r].elems
        places == DOMAIN old \union IF type = "list" THEN 1..i ELSE {i}
    IN  [memory |-> [m1 EXCEPT !.heap[r].elems =
                        [j \in places |-> IF j \in DOMAIN old THEN old[j] ELSE NullRef]],
         slot |-> [ref |-> r, at |-> i]]

\* The slot of x[i] or of x[i][j].
Steps == {"list", "map"} \X (1..MaxSize)
Walk(m, x, path) ==
    LET w == SubValue(m, SlotOf(x), path[1][1], path[1][2]) IN
    IF Len(path) = 1 THEN w ELSE SubValue(w.memory, w.slot, path[2][1], path[2][2])

\* The end of a statement: values that nobody points to are deleted.
End(m) ==
    LET free == Free(m) IN
    /\ Cardinality(free) >= 3    \* the bound
    /\ var' = m.var
    /\ heap' = [r \in Refs |-> IF r \in free THEN NullValue ELSE m.heap[r]]

Memory == [var |-> var, heap |-> heap]

Copy(x, y) == x # y /\ End(Put(Memory, SlotOf(x), var[y]))
Reset(x) == End(Put(Memory, SlotOf(x), NullRef))
SetScalar(x, s) == End(Make(Memory, SlotOf(x), Value(s[1], s[2])))

\* x[..] = y: the pointer of y is copied when the element is there, so that y
\* may be x itself, and hold the element that it is put into.
SetElement(x, path, y) ==
    \E w \in {Walk(Memory, x, path)} : End(Put(w.memory, w.slot, w.memory.var[y]))

SetElementScalar(x, path, s) ==
    \E w \in {Walk(Memory, x, path)} : End(Make(w.memory, w.slot, Value(s[1], s[2])))

\* y = x[i] of a constant x: null, and nothing made, where there is no element.
Read(y, x, step) ==
    LET from == heap[var[x]] IN
    End(Put(Memory, SlotOf(y), IF from.type = step[1] /\ step[2] \in DOMAIN from.elems
                               THEN from.elems[step[2]] ELSE NullRef))

\* VariantMap(x), then insert or remove, and back into x: a copy of the map, or
\* an empty one, with the same elements.
Entries(x) == IF heap[var[x]].type = "map" THEN heap[var[x]].elems ELSE <<>>
InsertKey(x, i, y) ==
    End(Make(Memory, SlotOf(x), [Value("map", 0) EXCEPT !.elems =
            [j \in DOMAIN Entries(x) \union {i} |-> IF j = i THEN var[y] ELSE Entries(x)[j]]]))
RemoveKey(x, i) ==
    End(Make(Memory, SlotOf(x), [Value("map", 0) EXCEPT !.elems =
            [j \in DOMAIN Entries(x) \ {i} |-> Entries(x)[j]]]))

Paths == {<<p>> : p \in Steps} \union {<<p, q>> : p, q \in Steps}

Next ==
    \E x \in Vars :
        \/ Reset(x)
        \/ \E s \in Scalars :
              SetScalar(x, s) \/ \E path \in Paths : SetElementScalar(x, path, s)
        \/ \E y \in Vars :
              \/ Copy(x, y)
              \/ \E path \in Paths : SetElement(x, path, y)
              \/ \E p \in Steps : Read(y, x, p)
              \/ \E i \in 1..MaxSize : InsertKey(x, i, y)
        \/ \E i \in 1..MaxSize : RemoveKey(x, i)

Spec == Init /\ [][Next]_vars
------------------------------------------------------------------------------
(* Properties.                                                                *)

Containers(x) == {r \in Reach(x) : heap[r].type \in {"list", "map"}}

\* A statement writes one variable, and changes nothing that another one shows
\* unless both share a list or a map: neither the values that all nulls and all
\* copies of a scalar share, nor a copy of what operator[] made a container.
OthersKeepTheirValue ==
    [][\E z \in Vars : \A x \in Vars \ {z} :
          \/ var'[x] = var[x] /\ \A r \in Reach(x) : heap'[r] = heap[r]
          \/ Containers(x) \intersect Containers(z) # {}]_vars
===============================================================================
