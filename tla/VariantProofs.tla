---------------------------- MODULE VariantProofs -----------------------------
(* What a statement on one Variant does to the others, for any number of      *)
(* variables, values and elements, whatever they share.                       *)
EXTENDS Variant, FiniteSetTheorems, TLAPS

Memories == [var : [Vars -> Refs], heap : [Refs -> Values]]

Live(m) == ReachIn(m.heap, {NullRef} \union Range(m.var))

\* A slot of the program: of a variable, or of a value that it can reach.
InUse(m, s) ==
    \/ s.ref = Top /\ s.at \in Vars
    \/ s.ref \in Live(m) /\ s.at \in DOMAIN m.heap[s.ref].elems

\* A statement may go on, and make k values more.
Ready(m, k) ==
    m \in Memories /\ m.heap[NullRef] = NullValue /\ Cardinality(Free(m)) >= k

Container == {"list", "map"}
------------------------------------------------------------------------------
(* What can be reached.                                                       *)

LEMMA ElementsAreRefs ==
    ASSUME NEW h \in [Refs -> Values], NEW r \in Refs
    PROVE  /\ DOMAIN h[r].elems \in SUBSET (1..MaxSize)
           /\ \A i \in DOMAIN h[r].elems : h[r].elems[i] \in Refs
           /\ Range(h[r].elems) \in SUBSET Refs
<1> DEFINE Functions == UNION {[D -> Refs] : D \in SUBSET (1..MaxSize)}
<1>0. h[r].elems \in Functions
  <2> HIDE DEF Functions
  <2>1. Values = [type : DOMAIN TypeId, atom : Int, elems : Functions]
    BY DEF Values, Functions
  <2> QED
    BY <2>1
<1>1. PICK D \in SUBSET (1..MaxSize) : h[r].elems \in [D -> Refs]
  BY <1>0
<1> QED
  BY <1>1 DEF Range

\* A set is closed if the elements of its values are in it.
LEMMA ClosedMeans ==
    ASSUME NEW h \in [Refs -> Values], NEW L \in SUBSET Refs
    PROVE  Closed(h, L) <=> \A r \in L : \A i \in DOMAIN h[r].elems : h[r].elems[i] \in L
BY DEF Closed, Range

\* What is reached is closed, and is in every closed set that the search starts in.
LEMMA Reached ==
    ASSUME NEW h \in [Refs -> Values], NEW S \in SUBSET Refs
    PROVE  /\ ReachIn(h, S) \in SUBSET Refs
           /\ S \subseteq ReachIn(h, S)
           /\ Closed(h, ReachIn(h, S))
<1> DEFINE more == Elements(h) \ S
           closed == {T \in SUBSET more : Closed(h, S \union T)}
           found == {r \in more : \A T \in closed : r \in T}
<1>1. ReachIn(h, S) = S \union found
  BY DEF ReachIn
<1>2. Elements(h) \in SUBSET Refs
  BY ElementsAreRefs DEF Elements
<1>3. Closed(h, S \union found)
  <2> SUFFICES ASSUME NEW r \in S \union found, NEW e \in Range(h[r].elems), e \notin S
               PROVE  e \in found
    BY DEF Closed
  <2>1. r \in Refs
    BY <1>2
  <2>2. e \in more
    BY <2>1 DEF Elements
  <2>3. ASSUME NEW T \in closed PROVE e \in T
    <3>1. r \in S \union T /\ Closed(h, S \union T)
      OBVIOUS
    <3>2. Range(h[r].elems) \subseteq S \union T
      BY <3>1 DEF Closed
    <3> QED
      BY <3>2
  <2> QED
    BY <2>2, <2>3
<1> QED
  BY <1>1, <1>2, <1>3

LEMMA Least ==
    ASSUME NEW h \in [Refs -> Values], NEW S \in SUBSET Refs,
           NEW L \in SUBSET Refs, S \subseteq L, Closed(h, L)
    PROVE  ReachIn(h, S) \subseteq L
<1> DEFINE more == Elements(h) \ S
           T == L \intersect more
<1>1. Closed(h, S \union T)
  <2> SUFFICES ASSUME NEW r \in S \union T, NEW e \in Range(h[r].elems)
               PROVE  e \in S \union T
    BY DEF Closed
  <2>1. r \in L /\ r \in Refs
    OBVIOUS
  <2>2. e \in L
    BY <2>1 DEF Closed
  <2>3. e \in Elements(h)
    BY <2>1 DEF Elements
  <2> QED
    BY <2>2, <2>3
<1>2. T \in SUBSET more
  OBVIOUS
<1> QED
  BY <1>1, <1>2 DEF ReachIn

\* What is in use is closed and holds null and the variables, and nothing smaller
\* does and is.
LEMMA LiveIs ==
    ASSUME NEW m \in Memories
    PROVE  /\ Live(m) \in SUBSET Refs /\ Free(m) = Refs \ Live(m)
           /\ NullRef \in Live(m) /\ \A x \in Vars : m.var[x] \in Live(m)
           /\ Closed(m.heap, Live(m))
           /\ \A L \in SUBSET Refs :
                 /\ NullRef \in L /\ \A x \in Vars : m.var[x] \in L
                 /\ Closed(m.heap, L)
                 => Live(m) \subseteq L
<1> DEFINE roots == {NullRef} \union Range(m.var)
<1>1. m.heap \in [Refs -> Values] /\ m.var \in [Vars -> Refs]
  BY DEF Memories
<1>2. /\ roots \in SUBSET Refs /\ NullRef \in roots
      /\ \A x \in Vars : m.var[x] \in roots
      /\ \A r \in roots : r = NullRef \/ \E x \in Vars : r = m.var[x]
  BY <1>1, VariantAssumption DEF Range
<1> HIDE DEF roots
<1>3. Live(m) = ReachIn(m.heap, roots) /\ Free(m) = Refs \ Live(m)
  BY DEF Live, Free, roots
<1>4. /\ Live(m) \in SUBSET Refs /\ roots \subseteq Live(m)
      /\ Closed(m.heap, Live(m))
  BY <1>1, <1>2, <1>3, Reached
<1>5. ASSUME NEW L \in SUBSET Refs, roots \subseteq L, Closed(m.heap, L)
      PROVE  Live(m) \subseteq L
  BY <1>1, <1>2, <1>3, <1>5, Least
<1> QED
  BY <1>2, <1>3, <1>4, <1>5
------------------------------------------------------------------------------
(* What is written.                                                           *)

LEMMA ValueIsTyped ==
    ASSUME NEW type \in DOMAIN TypeId, NEW atom \in Int
    PROVE  /\ Value(type, atom) \in Values /\ Value(type, atom).type = type
           /\ DOMAIN Value(type, atom).elems = {}
<1>1. <<>> \in [{} -> Refs] /\ {} \in SUBSET (1..MaxSize) /\ DOMAIN <<>> = {}
  OBVIOUS
<1>2. <<>> \in UNION {[D -> Refs] : D \in SUBSET (1..MaxSize)}
  BY <1>1
<1> QED
  BY <1>1, <1>2 DEF Value, Values

LEMMA HeapIsTyped ==
    ASSUME NEW h \in [Refs -> Values], NEW r \in Refs, NEW v \in Values
    PROVE  [h EXCEPT ![r] = v] \in [Refs -> Values]
OBVIOUS

\* A value whose elements are replaced.
LEMMA ElementsReplaced ==
    ASSUME NEW v \in Values, NEW D \in SUBSET (1..MaxSize), NEW f \in [D -> Refs]
    PROVE  /\ [v EXCEPT !.elems = f] \in Values
           /\ [v EXCEPT !.elems = f].type = v.type
           /\ [v EXCEPT !.elems = f].elems = f
<1> DEFINE Functions == UNION {[E -> Refs] : E \in SUBSET (1..MaxSize)}
<1>1. f \in Functions
  OBVIOUS
<1>2. Values = [type : DOMAIN TypeId, atom : Int, elems : Functions]
  BY DEF Values
<1> HIDE DEF Functions
<1> QED
  BY <1>1, <1>2

\* Writing a reference into a slot changes nothing else.
LEMMA PutProperties ==
    ASSUME NEW m \in Memories, NEW s, NEW r \in Refs,
           \/ s.ref = Top /\ s.at \in Vars
           \/ s.ref \in Refs /\ s.at \in DOMAIN m.heap[s.ref].elems
    PROVE  LET n == Put(m, s, r) IN
           /\ n \in Memories /\ Deref(n, s) = r
           /\ \A x \in Vars : n.var[x] \in {m.var[x], r} /\ (x # s.at => n.var[x] = m.var[x])
           /\ s.ref # Top => n.var = m.var
           /\ \A q \in Refs :
                 /\ q # s.ref => n.heap[q] = m.heap[q]
                 /\ n.heap[q].type = m.heap[q].type
                 /\ DOMAIN n.heap[q].elems = DOMAIN m.heap[q].elems
                 /\ \A i \in DOMAIN m.heap[q].elems : n.heap[q].elems[i] \in {m.heap[q].elems[i], r}
<1> DEFINE n == Put(m, s, r)
<1>1. /\ m.heap \in [Refs -> Values] /\ m.var \in [Vars -> Refs]
      /\ m = [var |-> m.var, heap |-> m.heap]
  BY DEF Memories
<1>2. CASE s.ref = Top
  <2>1. n = [m EXCEPT !.var[s.at] = r]
    BY <1>2 DEF Put
  <2>2. n.heap = m.heap /\ n.var = [m.var EXCEPT ![s.at] = r] /\ n = [var |-> n.var, heap |-> n.heap]
    BY <1>1, <2>1
  <2>3. s.at \in Vars
    BY <1>2, VariantAssumption
  <2>4. n \in Memories
    BY <1>1, <2>2 DEF Memories
  <2>5. Deref(n, s) = r
    BY <1>1, <1>2, <2>2, <2>3 DEF Deref
  <2> HIDE DEF n
  <2>6. \A x \in Vars : n.var[x] \in {m.var[x], r} /\ (x # s.at => n.var[x] = m.var[x])
    BY <1>1, <2>2
  <2> QED
    BY <1>2, <2>2, <2>4, <2>5, <2>6 DEF n
<1>3. CASE s.ref # Top
  <2> DEFINE old == m.heap[s.ref]
             f == [old.elems EXCEPT ![s.at] = r]
             new == [old EXCEPT !.elems = f]
  <2>1. s.ref \in Refs /\ s.at \in DOMAIN old.elems /\ old \in Values
    BY <1>1, <1>3
  <2>2. /\ DOMAIN old.elems \in SUBSET (1..MaxSize)
        /\ \A i \in DOMAIN old.elems : old.elems[i] \in Refs
    BY <1>1, <2>1, ElementsAreRefs
  <2>3. /\ DOMAIN f = DOMAIN old.elems /\ f[s.at] = r
        /\ \A i \in DOMAIN old.elems : f[i] \in {old.elems[i], r}
        /\ f \in [DOMAIN old.elems -> Refs]
    BY <2>1, <2>2
  <2>4. new \in Values /\ new.type = old.type /\ new.elems = f
    <3>1. \A E \in SUBSET (1..MaxSize) : \A g \in [E -> Refs] :
             /\ [old EXCEPT !.elems = g] \in Values
             /\ [old EXCEPT !.elems = g].type = old.type
             /\ [old EXCEPT !.elems = g].elems = g
      BY <2>1, ElementsReplaced
    <3> HIDE DEF f, old
    <3> QED
      BY <2>2, <2>3, <3>1, Zenon
  <2>5. n = [m EXCEPT !.heap = [m.heap EXCEPT ![s.ref] = new]]
    BY <1>1, <1>3, <2>1 DEF Put
  <2> HIDE DEF new, f
  <2>6. /\ n.var = m.var /\ n.heap = [m.heap EXCEPT ![s.ref] = new]
        /\ n = [var |-> n.var, heap |-> n.heap]
    BY <1>1, <2>5
  <2>7. n \in Memories
    BY <1>1, <2>4, <2>6 DEF Memories
  <2>8. Deref(n, s) = r
    BY <1>1, <1>3, <2>1, <2>3, <2>4, <2>6 DEF Deref
  <2>9. ASSUME NEW q \in Refs
        PROVE  /\ q # s.ref => n.heap[q] = m.heap[q]
               /\ n.heap[q].type = m.heap[q].type
               /\ DOMAIN n.heap[q].elems = DOMAIN m.heap[q].elems
               /\ \A i \in DOMAIN m.heap[q].elems : n.heap[q].elems[i] \in {m.heap[q].elems[i], r}
    <3> HIDE DEF n
    <3>1. CASE q = s.ref
      BY <1>1, <2>3, <2>4, <2>6, <3>1
    <3>2. CASE q # s.ref
      BY <1>1, <2>6, <3>2
    <3> QED
      BY <3>1, <3>2
  <2>10. n.var = m.var
    BY <2>6
  <2> HIDE DEF n
  <2> QED
    BY <1>3, <2>7, <2>8, <2>9, <2>10 DEF n
<1> QED
  BY <1>2, <1>3

\* A value in use cannot be the one that is made.
LEMMA RoomForOne ==
    ASSUME NEW m, NEW k \in Nat, Ready(m, k + 1)
    PROVE  (CHOOSE r \in Free(m) : TRUE) \in Free(m)
<1>1. Free(m) # {}
  BY FS_EmptySet DEF Ready
<1> QED
  BY <1>1

\* What stays in use when an element of one value is replaced: that value itself.
LEMMA HolderStaysInUse ==
    ASSUME NEW m \in Memories, NEW n \in Memories, NEW p \in Live(m),
           n.var = m.var,
           \A q \in Live(m) : q # p => n.heap[q] = m.heap[q]
    PROVE  p \in Live(n)
<1> SUFFICES ASSUME p \notin Live(n) PROVE FALSE
  OBVIOUS
<1> DEFINE L == Live(n) \intersect Live(m)
<1>0. m.heap \in [Refs -> Values] /\ n.heap \in [Refs -> Values]
  BY DEF Memories
<1>1. /\ Live(m) \in SUBSET Refs /\ NullRef \in Live(m) /\ \A x \in Vars : m.var[x] \in Live(m)
      /\ Live(n) \in SUBSET Refs /\ NullRef \in Live(n) /\ \A x \in Vars : n.var[x] \in Live(n)
      /\ Closed(m.heap, Live(m)) /\ Closed(n.heap, Live(n))
  BY LiveIs
<1>2. Closed(m.heap, L)
  <2> SUFFICES ASSUME NEW q \in L, NEW i \in DOMAIN m.heap[q].elems
               PROVE  m.heap[q].elems[i] \in L
    BY <1>0, <1>1, ClosedMeans
  <2>1. n.heap[q] = m.heap[q]
    OBVIOUS
  <2>2. m.heap[q].elems[i] \in Live(m)
    BY <1>0, <1>1, ClosedMeans
  <2>3. n.heap[q].elems[i] \in Live(n)
    BY <1>0, <1>1, <2>1, ClosedMeans
  <2> QED
    BY <2>1, <2>2, <2>3
<1>3. Live(m) \subseteq L
  BY <1>1, <1>2, LiveIs
<1> QED
  BY <1>3

\* What a new value r in slot s of m changes: the slot, and nothing else.
Made(m, n, s, r, value) ==
    /\ Deref(n, s) = r /\ n.heap[r] = value /\ r \in Live(n)
    /\ \A x \in Vars : n.var[x] \in {m.var[x], r} /\ (x # s.at => n.var[x] = m.var[x])
    /\ s.ref # Top => n.var = m.var
    /\ \A q \in Refs \ {r} :
          /\ q # s.ref => n.heap[q] = m.heap[q]
          /\ n.heap[q].type = m.heap[q].type
          /\ DOMAIN n.heap[q].elems = DOMAIN m.heap[q].elems
          /\ \A i \in DOMAIN m.heap[q].elems :
                n.heap[q].elems[i] \in {m.heap[q].elems[i], r}

\* A new value in a slot: what was in use, or free, is so as far as one value more
\* allows, and nothing else is written.
LEMMA MakeProperties ==
    ASSUME NEW m, NEW s, NEW value \in Values, NEW k \in Nat,
           Ready(m, k + 1), InUse(m, s), Range(value.elems) \subseteq Live(m)
    PROVE  LET n == Make(m, s, value) IN
           /\ Ready(n, k) /\ InUse(n, s)
           /\ \E r \in Free(m) : Made(m, n, s, r, value)
<1> DEFINE r == CHOOSE r \in Free(m) : TRUE
           m1 == [m EXCEPT !.heap[r] = value]
           n == Put(m1, s, r)
<1>0. n = Make(m, s, value)
  BY DEF Make
<1>1. m \in Memories /\ m.heap[NullRef] = NullValue /\ Cardinality(Free(m)) >= k + 1
  BY DEF Ready
<1>2. r \in Free(m)
  BY RoomForOne
<1> HIDE DEF r
<1>3. /\ Live(m) \in SUBSET Refs /\ Free(m) = Refs \ Live(m) /\ NullRef \in Live(m)
      /\ \A x \in Vars : m.var[x] \in Live(m)
      /\ Closed(m.heap, Live(m))
  BY <1>1, LiveIs
<1>4. r \in Refs /\ r \notin Live(m) /\ r # NullRef
  BY <1>2, <1>3
<1>5. /\ m1 \in Memories /\ m1.var = m.var /\ m1.heap[r] = value
      /\ \A q \in Refs \ {r} : m1.heap[q] = m.heap[q]
  <2>1. m.heap \in [Refs -> Values] /\ m.var \in [Vars -> Refs] /\ m = [var |-> m.var, heap |-> m.heap]
    BY <1>1 DEF Memories
  <2>2. m1 = [var |-> m.var, heap |-> [m.heap EXCEPT ![r] = value]]
    BY <2>1
  <2> HIDE DEF m1
  <2> QED
    BY <1>4, <2>1, <2>2 DEF Memories
<1>6. s.ref # r /\ (s.ref # Top => s.ref \in Live(m) /\ s.at \in DOMAIN m.heap[s.ref].elems)
      /\ (s.ref = Top => s.at \in Vars)
  BY <1>3, <1>4, VariantAssumption DEF InUse
<1>7. \/ s.ref = Top /\ s.at \in Vars
      \/ s.ref \in Refs /\ s.at \in DOMAIN m1.heap[s.ref].elems
  BY <1>3, <1>5, <1>6
<1> HIDE DEF m1
<1>8. /\ n \in Memories /\ Deref(n, s) = r
      /\ \A x \in Vars : n.var[x] \in {m1.var[x], r} /\ (x # s.at => n.var[x] = m1.var[x])
      /\ s.ref # Top => n.var = m1.var
      /\ \A q \in Refs :
            /\ q # s.ref => n.heap[q] = m1.heap[q]
            /\ n.heap[q].type = m1.heap[q].type
            /\ DOMAIN n.heap[q].elems = DOMAIN m1.heap[q].elems
            /\ \A i \in DOMAIN m1.heap[q].elems : n.heap[q].elems[i] \in {m1.heap[q].elems[i], r}
  BY <1>4, <1>5, <1>7, PutProperties
<1> HIDE DEF n
<1>9. /\ n.heap[r] = value
      /\ \A q \in Refs \ {r} :
            /\ q # s.ref => n.heap[q] = m.heap[q]
            /\ n.heap[q].type = m.heap[q].type
            /\ DOMAIN n.heap[q].elems = DOMAIN m.heap[q].elems
            /\ \A i \in DOMAIN m.heap[q].elems : n.heap[q].elems[i] \in {m.heap[q].elems[i], r}
  BY <1>4, <1>5, <1>6, <1>8
<1>10. m.heap \in [Refs -> Values] /\ n.heap \in [Refs -> Values]
  BY <1>1, <1>8 DEF Memories
\* Nothing but the new value comes into use.
<1>11. Live(n) \subseteq Live(m) \union {r}
  <2> DEFINE L == Live(m) \union {r}
  <2>1. L \in SUBSET Refs /\ NullRef \in L /\ \A x \in Vars : n.var[x] \in L
    BY <1>3, <1>4, <1>5, <1>8
  <2>2. Closed(n.heap, L)
    <3> SUFFICES ASSUME NEW q \in L, NEW i \in DOMAIN n.heap[q].elems
                 PROVE  n.heap[q].elems[i] \in L
      BY <1>10, <2>1, ClosedMeans
    <3>1. CASE q = r
      BY <1>9, <3>1 DEF Range
    <3>2. CASE q # r
      <4>1. q \in Live(m) /\ q \in Refs \ {r}
        BY <1>3, <3>2
      <4>2. /\ i \in DOMAIN m.heap[q].elems
            /\ n.heap[q].elems[i] \in {m.heap[q].elems[i], r}
        BY <1>9, <4>1
      <4>3. m.heap[q].elems[i] \in Live(m)
        BY <1>3, <1>10, <4>1, <4>2, ClosedMeans
      <4> QED
        BY <4>2, <4>3
    <3> QED
      BY <3>1, <3>2
  <2> HIDE DEF L
  <2>3. Live(n) \subseteq L
    BY <1>8, <2>1, <2>2, LiveIs
  <2> QED
    BY <2>3 DEF L
<1>12. Cardinality(Free(n)) >= k
  <2>1. Free(m) \ {r} \subseteq Free(n) /\ Free(n) \subseteq Refs /\ Free(m) \subseteq Refs
    BY <1>3, <1>8, <1>11, LiveIs
  <2>2. IsFiniteSet(Free(n)) /\ IsFiniteSet(Free(m))
    BY <2>1, FS_Subset, VariantAssumption
  <2>3. Cardinality(Free(m) \ {r}) = Cardinality(Free(m)) - 1
    BY <1>2, <2>2, FS_RemoveElement
  <2>4. Cardinality(Free(m) \ {r}) <= Cardinality(Free(n))
    BY <2>1, <2>2, FS_Subset
  <2>5. Cardinality(Free(m)) \in Nat /\ Cardinality(Free(n)) \in Nat
    BY <2>2, FS_CardinalityType
  <2> QED
    BY <1>1, <2>3, <2>4, <2>5
<1>13. n.heap[NullRef] = NullValue
  <2>1. s.ref # NullRef
    <3>1. DOMAIN m.heap[NullRef].elems = {}
      BY <1>1, ValueIsTyped DEF NullValue, TypeId
    <3>2. NullRef # Top
      BY VariantAssumption
    <3> QED
      BY <1>6, <3>1, <3>2
  <2> QED
    BY <1>1, <1>3, <1>4, <1>9, <2>1
<1>14. InUse(n, s)
  <2>1. CASE s.ref = Top
    BY <1>6, <2>1 DEF InUse
  <2>2. CASE s.ref # Top
    <3>1. s.ref \in Live(m) /\ s.at \in DOMAIN n.heap[s.ref].elems
      BY <1>3, <1>6, <1>9, <2>2
    <3>2. \A q \in Live(m) : q # s.ref => n.heap[q] = m.heap[q]
      BY <1>3, <1>4, <1>9
    <3>3. s.ref \in Live(n)
      BY <1>1, <1>5, <1>8, <2>2, <3>1, <3>2, HolderStaysInUse
    <3> QED
      BY <3>1, <3>3 DEF InUse
  <2> QED
    BY <2>1, <2>2
<1>15. r \in Live(n)
  <2>0. (\A x \in Vars : n.var[x] \in Live(n)) /\ Closed(n.heap, Live(n)) /\ Live(n) \in SUBSET Refs
    BY <1>8, LiveIs
  <2>1. CASE s.ref = Top
    BY <1>6, <1>8, <2>0, <2>1 DEF Deref
  <2>2. CASE s.ref # Top
    <3>1. s.ref \in Live(n) /\ s.at \in DOMAIN n.heap[s.ref].elems
      BY <1>14, <2>2 DEF InUse
    <3>2. n.heap[s.ref].elems[s.at] \in Live(n)
      BY <1>10, <2>0, <3>1, ClosedMeans
    <3> QED
      BY <1>8, <2>2, <3>2 DEF Deref
  <2> QED
    BY <2>1, <2>2
<1>16. Ready(n, k)
  BY <1>8, <1>12, <1>13 DEF Ready
<1>17. /\ \A x \in Vars : n.var[x] \in {m.var[x], r} /\ (x # s.at => n.var[x] = m.var[x])
       /\ s.ref # Top => n.var = m.var
  BY <1>5, <1>8
<1>18. Made(m, n, s, r, value)
  BY <1>8, <1>9, <1>15, <1>17 DEF Made
<1> QED
  BY <1>0, <1>2, <1>14, <1>16, <1>18
------------------------------------------------------------------------------
(* A statement on x.                                                          *)

\* The values that y shows are as they were before the statement.
Kept(m, y) == m.var[y] = var[y] /\ \A r \in Reach(y) : m.heap[r] = heap[r]

\* T holds what x shows now, no container that y shows, and the slot.
Owns(m, s, x, y, T) ==
    /\ Closed(m.heap, T) /\ m.var[x] \in T
    /\ \A r \in T \intersect Reach(y) : heap[r].type \notin Container
    /\ (s.ref = Top /\ s.at = x) \/ s.ref \in T \ Reach(y)

Disjoint(x, y) == Containers(y) \intersect Containers(x) = {}

\* The statement has come to slot s.
Walking(m, s, x, k) ==
    /\ Ready(m, k) /\ InUse(m, s)
    /\ s.ref = Top => s.at = x
    /\ \A y \in Vars \ {x} : Disjoint(x, y) =>
          Kept(m, y) /\ \E T \in SUBSET Refs : Owns(m, s, x, y, T)

\* The statement has written what it writes.
Done(m, x) ==
    /\ m \in Memories /\ m.heap[NullRef] = NullValue
    /\ \A y \in Vars \ {x} : Disjoint(x, y) => Kept(m, y)

Inv == Ready(Memory, 3)

LEMMA ReachIs ==
    ASSUME TypeOK, NEW x \in Vars
    PROVE  /\ Reach(x) \in SUBSET Refs /\ var[x] \in Reach(x) /\ Closed(heap, Reach(x))
           /\ \A L \in SUBSET Refs : var[x] \in L /\ Closed(heap, L) => Reach(x) \subseteq L
<1>1. heap \in [Refs -> Values] /\ {var[x]} \in SUBSET Refs
  BY DEF TypeOK
<1>2. ReachIn(heap, {var[x]}) = Reach(x)
  BY DEF Reach
<1>3. /\ Reach(x) \in SUBSET Refs /\ {var[x]} \subseteq Reach(x) /\ Closed(heap, Reach(x))
  BY <1>1, <1>2, Reached
<1>4. ASSUME NEW L \in SUBSET Refs, var[x] \in L, Closed(heap, L) PROVE Reach(x) \subseteq L
  <2>1. {var[x]} \subseteq L
    BY <1>4
  <2> QED
    BY <1>1, <1>2, <1>4, <2>1, Least
<1> QED
  BY <1>3, <1>4

\* What y shows is in use as long as it is kept.
LEMMA KeptIsLive ==
    ASSUME TypeOK, NEW m \in Memories, NEW y \in Vars, Kept(m, y)
    PROVE  Reach(y) \subseteq Live(m)
<1> DEFINE L == Reach(y) \intersect Live(m)
<1>1. m.heap \in [Refs -> Values] /\ heap \in [Refs -> Values]
  BY DEF Memories, TypeOK
<1>2. /\ Live(m) \in SUBSET Refs /\ m.var[y] \in Live(m) /\ Closed(m.heap, Live(m))
      /\ Reach(y) \in SUBSET Refs /\ var[y] \in Reach(y) /\ Closed(heap, Reach(y))
  BY LiveIs, ReachIs
<1>3. L \in SUBSET Refs /\ var[y] \in L
  BY <1>2 DEF Kept
<1>4. Closed(heap, L)
  <2> SUFFICES ASSUME NEW q \in L, NEW i \in DOMAIN heap[q].elems PROVE heap[q].elems[i] \in L
    BY <1>1, <1>3, ClosedMeans
  <2>1. m.heap[q] = heap[q]
    BY DEF Kept
  <2>2. heap[q].elems[i] \in Reach(y)
    BY <1>1, <1>2, ClosedMeans
  <2>3. m.heap[q].elems[i] \in Live(m)
    BY <1>1, <1>2, <2>1, ClosedMeans
  <2> QED
    BY <2>1, <2>2, <2>3
<1>5. Reach(y) \subseteq L
  BY <1>3, <1>4, ReachIs
<1> QED
  BY <1>5

LEMMA Starts ==
    ASSUME Inv, NEW x \in Vars PROVE TypeOK /\ Walking(Memory, SlotOf(x), x, 3)
<1> DEFINE s == SlotOf(x)
<1>0. Memory.var = var /\ Memory.heap = heap /\ s.ref = Top /\ s.at = x
  BY DEF Memory, SlotOf
<1>1. Memory \in Memories /\ TypeOK
  BY <1>0 DEF Inv, Ready, Memories, TypeOK
<1>2. InUse(Memory, s)
  BY <1>0 DEF InUse
<1>3. ASSUME NEW y \in Vars \ {x}, Disjoint(x, y)
      PROVE  Kept(Memory, y) /\ \E T \in SUBSET Refs : Owns(Memory, s, x, y, T)
  <2>1. Kept(Memory, y)
    BY <1>0 DEF Kept
  <2>2. Reach(x) \in SUBSET Refs /\ var[x] \in Reach(x) /\ Closed(heap, Reach(x))
    BY <1>1, ReachIs
  <2>3. \A r \in Reach(x) \intersect Reach(y) : heap[r].type \notin Container
    BY <1>3 DEF Disjoint, Containers, Container
  <2> HIDE DEF s
  <2>4. Owns(Memory, s, x, y, Reach(x))
    BY <1>0, <2>2, <2>3 DEF Owns
  <2> QED
    BY <2>1, <2>2, <2>4
<1> QED
  BY <1>0, <1>1, <1>2, <1>3 DEF Inv, Walking

\* A slot that x owns is not one of y, and may be written.
LEMMA SlotIsFree ==
    ASSUME TypeOK, NEW m, NEW s, NEW x \in Vars, NEW k \in Nat, Walking(m, s, x, k),
           NEW y \in Vars \ {x}, Disjoint(x, y)
    PROVE  s.ref \notin Reach(y) /\ (s.ref = Top => s.at # y)
<1>1. PICK T \in SUBSET Refs : Owns(m, s, x, y, T)
  BY DEF Walking
<1>2. Top \notin Reach(y)
  BY ReachIs, VariantAssumption
<1> QED
  BY <1>1, <1>2 DEF Owns, Walking

LEMMA PutDone ==
    ASSUME TypeOK, NEW m, NEW s, NEW x \in Vars, NEW k \in Nat, Walking(m, s, x, k), NEW r \in Refs
    PROVE  Done(Put(m, s, r), x)
<1> DEFINE n == Put(m, s, r)
<1>1. m \in Memories /\ m.heap[NullRef] = NullValue /\ InUse(m, s)
  BY DEF Walking, Ready
<1>2. \/ s.ref = Top /\ s.at \in Vars
      \/ s.ref \in Refs /\ s.at \in DOMAIN m.heap[s.ref].elems
  BY <1>1, LiveIs DEF InUse
<1>3. /\ n \in Memories
      /\ \A y \in Vars : y # s.at => n.var[y] = m.var[y]
      /\ s.ref # Top => n.var = m.var
      /\ \A q \in Refs : q # s.ref => n.heap[q] = m.heap[q]
  BY <1>1, <1>2, PutProperties
<1> HIDE DEF n
<1>4. n.heap[NullRef] = NullValue
  <2>1. DOMAIN m.heap[NullRef].elems = {}
    BY <1>1, ValueIsTyped DEF NullValue, TypeId
  <2>2. s.ref # NullRef
    BY <1>2, <2>1, VariantAssumption
  <2> QED
    BY <1>1, <1>3, <2>2, VariantAssumption
<1>5. ASSUME NEW y \in Vars \ {x}, Disjoint(x, y) PROVE Kept(n, y)
  <2>1. Kept(m, y)
    BY <1>5 DEF Walking
  <2>2. s.ref \notin Reach(y) /\ (s.ref = Top => s.at # y)
    BY <1>5, SlotIsFree
  <2>3. Reach(y) \in SUBSET Refs
    BY ReachIs
  <2> QED
    BY <1>3, <2>1, <2>2, <2>3 DEF Kept
<1> QED
  BY <1>3, <1>4, <1>5 DEF Done, n

LEMMA MakeDone ==
    ASSUME TypeOK, NEW m, NEW s, NEW x \in Vars, NEW k \in Nat, Walking(m, s, x, k + 1),
           NEW value \in Values, Range(value.elems) \subseteq Live(m)
    PROVE  Done(Make(m, s, value), x)
<1> DEFINE n == Make(m, s, value)
<1>1. Ready(m, k + 1) /\ InUse(m, s) /\ m \in Memories
  BY DEF Walking, Ready
<1>2. PICK r \in Free(m) : Ready(n, k) /\ Made(m, n, s, r, value)
  BY <1>1, MakeProperties
<1> HIDE DEF n
<1>3. n \in Memories /\ n.heap[NullRef] = NullValue
  BY <1>2 DEF Ready
<1>4. ASSUME NEW y \in Vars \ {x}, Disjoint(x, y) PROVE Kept(n, y)
  <2>1. Kept(m, y)
    BY <1>4 DEF Walking
  <2>2. s.ref \notin Reach(y) /\ (s.ref = Top => s.at # y)
    BY <1>4, SlotIsFree
  <2>3. Reach(y) \in SUBSET Refs /\ Reach(y) \subseteq Live(m) /\ Free(m) = Refs \ Live(m)
    BY <1>1, <2>1, ReachIs, KeptIsLive, LiveIs
  <2> QED
    BY <1>2, <2>1, <2>2, <2>3 DEF Kept, Made
<1> QED
  BY <1>3, <1>4 DEF Done, n

\* The value in the slot is in use, and x owns it.
LEMMA DerefOwned ==
    ASSUME TypeOK, NEW m, NEW s, NEW x \in Vars, NEW k \in Nat, Walking(m, s, x, k)
    PROVE  /\ Deref(m, s) \in Live(m)
           /\ \A y \in Vars, T \in SUBSET Refs : Owns(m, s, x, y, T) => Deref(m, s) \in T
<1>1. m \in Memories /\ InUse(m, s) /\ (s.ref = Top => s.at = x)
  BY DEF Walking, Ready
<1>2. m.heap \in [Refs -> Values] /\ Top \notin Refs
  BY <1>1, VariantAssumption DEF Memories
<1>3. /\ Live(m) \in SUBSET Refs /\ m.var[x] \in Live(m) /\ Closed(m.heap, Live(m))
  BY <1>1, LiveIs
<1>4. Deref(m, s) \in Live(m)
  <2>1. CASE s.ref = Top
    BY <1>1, <1>3, <2>1 DEF Deref
  <2>2. CASE s.ref # Top
    <3>1. s.ref \in Live(m) /\ s.at \in DOMAIN m.heap[s.ref].elems
      BY <1>1, <2>2 DEF InUse
    <3>2. m.heap[s.ref].elems[s.at] \in Live(m)
      BY <1>2, <1>3, <3>1, ClosedMeans
    <3> QED
      BY <2>2, <3>2 DEF Deref
  <2> QED
    BY <2>1, <2>2
<1>5. ASSUME NEW y \in Vars, NEW T \in SUBSET Refs, Owns(m, s, x, y, T)
      PROVE  Deref(m, s) \in T
  <2>1. CASE s.ref = Top
    BY <1>1, <1>5, <2>1 DEF Deref, Owns
  <2>2. CASE s.ref # Top
    <3>1. s.ref \in T /\ s.at \in DOMAIN m.heap[s.ref].elems /\ Closed(m.heap, T)
      BY <1>1, <1>5, <2>2 DEF InUse, Owns
    <3>2. m.heap[s.ref].elems[s.at] \in T
      BY <1>2, <3>1, ClosedMeans
    <3> QED
      BY <2>2, <3>2 DEF Deref
  <2> QED
    BY <2>1, <2>2
<1> QED
  BY <1>4, <1>5

\* What is no list, or no map, becomes one in the slot, and x owns it.
LEMMA BecomeWalks ==
    ASSUME TypeOK, NEW m, NEW s, NEW x \in Vars, NEW k \in Nat, Walking(m, s, x, k + 1),
           NEW type \in Container
    PROVE  LET n == Become(m, s, type) IN
           Walking(n, s, x, k) /\ n.heap[Deref(n, s)].type = type
<1> DEFINE value == Value(type, 0)
           n == Make(m, s, value)
<1>0. n = Become(m, s, type)
  BY DEF Become
<1>1. /\ Ready(m, k + 1) /\ InUse(m, s) /\ m \in Memories
      /\ s.ref = Top => s.at = x
  BY DEF Walking, Ready
<1>2. value \in Values /\ value.type = type /\ DOMAIN value.elems = {}
  <2>1. type \in DOMAIN TypeId /\ 0 \in Int
    BY DEF Container, TypeId
  <2> QED
    BY <2>1, ValueIsTyped
<1>3. Range(value.elems) \subseteq Live(m)
  BY <1>2 DEF Range
<1> HIDE DEF value
<1>4. PICK r \in Free(m) : Ready(n, k) /\ InUse(n, s) /\ Made(m, n, s, r, value)
  BY <1>1, <1>2, <1>3, MakeProperties
<1>5. Done(n, x)
  BY <1>2, <1>3, MakeDone
<1> HIDE DEF n
<1>9. /\ Deref(n, s) = r /\ n.heap[r] = value
      /\ n.var[x] \in {m.var[x], r}
      /\ \A q \in Refs \ {r} :
            /\ DOMAIN n.heap[q].elems = DOMAIN m.heap[q].elems
            /\ \A i \in DOMAIN m.heap[q].elems :
                  n.heap[q].elems[i] \in {m.heap[q].elems[i], r}
  BY <1>4 DEF Made
<1>6. n \in Memories /\ n.heap \in [Refs -> Values] /\ m.heap \in [Refs -> Values]
  BY <1>1, <1>4 DEF Ready, Memories
<1>7. ASSUME NEW y \in Vars \ {x}, Disjoint(x, y)
      PROVE  Kept(n, y) /\ \E T \in SUBSET Refs : Owns(n, s, x, y, T)
  <2>1. PICK T \in SUBSET Refs : Owns(m, s, x, y, T)
    BY <1>7 DEF Walking
  <2>2. Kept(m, y) /\ Kept(n, y)
    BY <1>5, <1>7 DEF Walking, Done
  <2> DEFINE T2 == T \union {r}
  <2>3. r \in Refs /\ r \notin Reach(y)
    BY <1>1, <2>2, KeptIsLive, LiveIs
  <2>4. Closed(n.heap, T2)
    <3> SUFFICES ASSUME NEW q \in T2, NEW i \in DOMAIN n.heap[q].elems
                 PROVE  n.heap[q].elems[i] \in T2
      BY <1>6, <2>3, ClosedMeans
    <3>1. CASE q = r
      BY <1>2, <1>9, <3>1
    <3>2. CASE q # r
      <4>1. q \in T /\ q \in Refs \ {r}
        BY <3>2
      <4>2. /\ i \in DOMAIN m.heap[q].elems
            /\ n.heap[q].elems[i] \in {m.heap[q].elems[i], r}
        BY <1>9, <4>1
      <4>3. m.heap[q].elems[i] \in T
        BY <1>6, <2>1, <4>1, <4>2, ClosedMeans DEF Owns
      <4> QED
        BY <4>2, <4>3
    <3> QED
      BY <3>1, <3>2
  <2>5. n.var[x] \in T2
    BY <1>9, <2>1 DEF Owns
  <2>6. \A q \in T2 \intersect Reach(y) : heap[q].type \notin Container
    BY <2>1, <2>3 DEF Owns
  <2>7. (s.ref = Top /\ s.at = x) \/ s.ref \in T2 \ Reach(y)
    BY <2>1 DEF Owns
  <2>8. T2 \in SUBSET Refs
    BY <2>3
  <2> HIDE DEF T2
  <2>9. Owns(n, s, x, y, T2)
    BY <2>4, <2>5, <2>6, <2>7 DEF Owns
  <2> QED
    BY <2>2, <2>8, <2>9
<1>8. Walking(n, s, x, k)
  BY <1>1, <1>4, <1>7 DEF Walking
<1> QED
  BY <1>0, <1>2, <1>8, <1>9

\* A list or a map of x gets elements, and one of its places is the next slot.
LEMMA ElementsWalk ==
    ASSUME TypeOK, NEW m, NEW s, NEW x \in Vars, NEW k \in Nat, Walking(m, s, x, k),
           NEW r, r = Deref(m, s), m.heap[r].type \in Container,
           NEW D \in SUBSET (1..MaxSize), NEW f \in [D -> Refs], NEW i \in D,
           \A j \in D : f[j] = NullRef \/ (j \in DOMAIN m.heap[r].elems /\ f[j] = m.heap[r].elems[j])
    PROVE  Walking([m EXCEPT !.heap[r].elems = f], [ref |-> r, at |-> i], x, k)
<1> DEFINE n == [m EXCEPT !.heap[r].elems = f]
           s2 == [ref |-> r, at |-> i]
           new == [m.heap[r] EXCEPT !.elems = f]
<1>0. s2.ref = r /\ s2.at = i
  OBVIOUS
<1>1. m \in Memories /\ m.heap[NullRef] = NullValue /\ Cardinality(Free(m)) >= k
  BY DEF Walking, Ready
<1>2. /\ m.heap \in [Refs -> Values] /\ m.var \in [Vars -> Refs]
      /\ m = [var |-> m.var, heap |-> m.heap]
  BY <1>1 DEF Memories
<1>3. /\ Live(m) \in SUBSET Refs /\ Free(m) = Refs \ Live(m) /\ NullRef \in Live(m)
      /\ \A z \in Vars : m.var[z] \in Live(m)
      /\ Closed(m.heap, Live(m))
  BY <1>1, LiveIs
<1>4. /\ NullValue.type = "null" /\ DOMAIN NullValue.elems = {}
      /\ "null" \notin Container /\ Top \notin Refs
  BY VariantAssumption DEF NullValue, Value, Container
<1>5. r \in Live(m) /\ r \in Refs /\ r # NullRef /\ r # Top
  BY <1>1, <1>3, <1>4, DerefOwned
<1>6. new \in Values /\ new.elems = f
  <2> DEFINE v == m.heap[r]
  <2>1. v \in Values
    BY <1>2, <1>5
  <2> HIDE DEF v
  <2>2. \A E \in SUBSET (1..MaxSize) : \A g \in [E -> Refs] :
           [v EXCEPT !.elems = g] \in Values /\ [v EXCEPT !.elems = g].elems = g
    BY <2>1, ElementsReplaced
  <2>3. [v EXCEPT !.elems = f] \in Values /\ [v EXCEPT !.elems = f].elems = f
    BY <2>2, Zenon
  <2> QED
    BY <2>3 DEF v
<1>7. n = [m EXCEPT !.heap = [m.heap EXCEPT ![r] = new]]
  BY <1>2, <1>5
<1> HIDE DEF new, s2
<1>8. /\ n.var = m.var /\ n.heap = [m.heap EXCEPT ![r] = new]
      /\ n = [var |-> n.var, heap |-> n.heap]
  BY <1>2, <1>7
<1>9. n \in Memories /\ n.heap \in [Refs -> Values]
  <2> HIDE DEF n
  <2>1. n.heap = [m.heap EXCEPT ![r] = new] /\ n.var = m.var
    BY <1>8
  <2>2. m.heap \in [Refs -> Values] /\ m.var \in [Vars -> Refs] /\ new \in Values
    BY <1>2, <1>6
  <2>3. n.heap \in [Refs -> Values] /\ n.var \in [Vars -> Refs]
    <3>1. [m.heap EXCEPT ![r] = new] \in [Refs -> Values]
      BY <1>5, <2>2, HeapIsTyped
    <3> QED
      BY <2>1, <2>2, <3>1
  <2> QED
    BY <1>8, <2>3 DEF Memories
<1>10. n.heap[r].elems = f /\ \A q \in Refs \ {r} : n.heap[q] = m.heap[q]
  BY <1>2, <1>5, <1>6, <1>8
<1> HIDE DEF n
<1>11. n.heap[NullRef] = NullValue
  BY <1>1, <1>3, <1>5, <1>10
\* A set that is closed, and holds null, stays closed.
<1>12. ASSUME NEW T \in SUBSET Refs, Closed(m.heap, T)
       PROVE  Closed(n.heap, T \union {NullRef})
  <2> SUFFICES ASSUME NEW q \in T \union {NullRef}, NEW j \in DOMAIN n.heap[q].elems
               PROVE  n.heap[q].elems[j] \in T \union {NullRef}
    BY <1>3, <1>9, ClosedMeans
  <2>1. CASE q = NullRef
    BY <1>4, <1>11, <2>1
  <2>2. CASE q = r /\ q # NullRef
    <3>1. j \in D /\ n.heap[q].elems[j] = f[j] /\ r \in T
      BY <1>10, <2>2
    <3>2. CASE f[j] = NullRef
      BY <3>1, <3>2
    <3>3. CASE j \in DOMAIN m.heap[r].elems /\ f[j] = m.heap[r].elems[j]
      <4>1. m.heap[r].elems[j] \in T
        BY <1>2, <1>12, <3>1, <3>3, ClosedMeans
      <4> QED
        BY <3>1, <3>3, <4>1
    <3> QED
      BY <3>1, <3>2, <3>3
  <2>3. CASE q # r /\ q # NullRef
    <3>1. q \in T /\ n.heap[q] = m.heap[q]
      BY <1>10, <2>3
    <3>2. m.heap[q].elems[j] \in T
      BY <1>2, <1>12, <3>1, ClosedMeans
    <3> QED
      BY <3>1, <3>2
  <2> QED
    BY <2>1, <2>2, <2>3
<1>13. Cardinality(Free(n)) >= k
  <2>1. Live(m) \union {NullRef} = Live(m) /\ \A z \in Vars : n.var[z] \in Live(m)
    BY <1>3, <1>8
  <2>2. Closed(n.heap, Live(m))
    BY <1>3, <1>12, <2>1
  <2>3. Live(n) \subseteq Live(m) /\ Free(n) = Refs \ Live(n)
    BY <1>3, <1>9, <2>1, <2>2, LiveIs
  <2>4. Free(m) \subseteq Free(n) /\ Free(n) \subseteq Refs /\ Free(m) \subseteq Refs
    BY <1>3, <2>3
  <2>5. IsFiniteSet(Free(n)) /\ IsFiniteSet(Free(m))
    BY <2>4, FS_Subset, VariantAssumption
  <2>6. /\ Cardinality(Free(m)) <= Cardinality(Free(n))
        /\ Cardinality(Free(m)) \in Nat /\ Cardinality(Free(n)) \in Nat
    BY <2>4, <2>5, FS_Subset, FS_CardinalityType
  <2> QED
    BY <1>1, <2>6
<1>14. InUse(n, s2)
  <2>1. \A q \in Live(m) : q # r => n.heap[q] = m.heap[q]
    BY <1>3, <1>10
  <2>2. n.var = m.var
    BY <1>8
  <2>3. r \in Live(n)
    BY <1>1, <1>5, <1>9, <2>1, <2>2, HolderStaysInUse
  <2> QED
    BY <1>0, <1>10, <2>3 DEF InUse
<1>15. ASSUME NEW y \in Vars \ {x}, Disjoint(x, y)
       PROVE  Kept(n, y) /\ \E T \in SUBSET Refs : Owns(n, s2, x, y, T)
  <2>1. PICK T \in SUBSET Refs : Owns(m, s, x, y, T)
    BY <1>15 DEF Walking
  <2>2. Kept(m, y) /\ Reach(y) \in SUBSET Refs
    BY <1>15, ReachIs DEF Walking
  <2>3. r \in T
    BY <2>1, DerefOwned
  <2>4. r \notin Reach(y)
    BY <2>1, <2>2, <2>3 DEF Owns, Kept
  <2>5. Kept(n, y)
    BY <1>8, <1>10, <2>2, <2>4 DEF Kept
  <2> DEFINE T2 == T \union {NullRef}
  <2>6. Closed(n.heap, T2) /\ n.var[x] \in T2 /\ T2 \in SUBSET Refs
    BY <1>3, <1>8, <1>12, <2>1 DEF Owns
  <2>7. NullRef \in Reach(y) => heap[NullRef].type \notin Container
    BY <1>1, <1>4, <2>2 DEF Kept
  <2>8. \A q \in T2 \intersect Reach(y) : heap[q].type \notin Container
    BY <2>1, <2>7 DEF Owns
  <2>9. s2.ref \in T2 \ Reach(y)
    BY <1>0, <2>3, <2>4
  <2> HIDE DEF T2
  <2>10. Owns(n, s2, x, y, T2)
    BY <2>6, <2>8, <2>9 DEF Owns
  <2> QED
    BY <2>5, <2>6, <2>10
<1>16. Walking(n, s2, x, k)
  BY <1>0, <1>5, <1>9, <1>11, <1>13, <1>14, <1>15 DEF Walking, Ready
<1> QED
  BY <1>16 DEF n, s2

\* What may make a value more may make one less.
LEMMA FewerWalks ==
    ASSUME NEW m, NEW s, NEW x \in Vars, NEW k \in Nat, Walking(m, s, x, k + 1)
    PROVE  Walking(m, s, x, k)
<1>1. m \in Memories
  BY DEF Walking, Ready
<1>2. Free(m) \subseteq Refs
  BY <1>1, LiveIs
<1>3. Cardinality(Free(m)) \in Nat
  BY <1>2, FS_Subset, FS_CardinalityType, VariantAssumption
<1>4. Ready(m, k)
  BY <1>3 DEF Walking, Ready
<1> QED
  BY <1>4 DEF Walking

\* getSubValue: one value is made at most, and x owns the place of the element.
LEMMA SubValueWalks ==
    ASSUME TypeOK, NEW m, NEW s, NEW x \in Vars, NEW k \in Nat, Walking(m, s, x, k + 1),
           NEW type \in Container, NEW i \in 1..MaxSize
    PROVE  LET w == SubValue(m, s, type, i) IN Walking(w.memory, w.slot, x, k)
<1> DEFINE m1 == IF m.heap[Deref(m, s)].type = type THEN m ELSE Become(m, s, type)
           r == Deref(m1, s)
           old == m1.heap[r].elems
           places == DOMAIN old \union IF type = "list" THEN 1..i ELSE {i}
           f == [j \in places |-> IF j \in DOMAIN old THEN old[j] ELSE NullRef]
           w == SubValue(m, s, type, i)
<1>1. w.memory = [m1 EXCEPT !.heap[r].elems = f] /\ w.slot = [ref |-> r, at |-> i]
  BY DEF SubValue
<1>2. Walking(m1, s, x, k) /\ m1.heap[r].type = type
  <2>1. CASE m.heap[Deref(m, s)].type = type
    BY <2>1, FewerWalks
  <2>2. CASE m.heap[Deref(m, s)].type # type
    BY <2>2, BecomeWalks
  <2> QED
    BY <2>1, <2>2
<1> HIDE DEF m1
<1>3. m1.heap \in [Refs -> Values] /\ r \in Refs
  BY <1>2, DerefOwned, LiveIs DEF Walking, Ready, Memories
<1> HIDE DEF r
<1>4. /\ DOMAIN old \in SUBSET (1..MaxSize)
      /\ \A j \in DOMAIN old : old[j] \in Refs
  BY <1>3, ElementsAreRefs
<1> HIDE DEF old
<1>5. places \in SUBSET (1..MaxSize) /\ i \in places
  <2>1. MaxSize \in Nat
    BY VariantAssumption
  <2> QED
    BY <1>4, <2>1
<1>6. /\ f \in [places -> Refs]
      /\ \A j \in places : f[j] = NullRef \/ (j \in DOMAIN old /\ f[j] = old[j])
  <2> HIDE DEF places
  <2> QED
    BY <1>4, VariantAssumption
<1> HIDE DEF places, f
<1>7. \A j \in places : f[j] = NullRef \/ (j \in DOMAIN m1.heap[r].elems /\ f[j] = m1.heap[r].elems[j])
  BY <1>6 DEF old
<1>8. Walking([m1 EXCEPT !.heap[r].elems = f], [ref |-> r, at |-> i], x, k)
  BY <1>2, <1>5, <1>6, <1>7, ElementsWalk DEF r
<1> QED
  BY <1>1, <1>8

LEMMA WalkWalks ==
    ASSUME Inv, NEW x \in Vars, NEW path \in Paths
    PROVE  LET w == Walk(Memory, x, path) IN Walking(w.memory, w.slot, x, 1)
<1> DEFINE w1 == SubValue(Memory, SlotOf(x), path[1][1], path[1][2])
           w2 == SubValue(w1.memory, w1.slot, path[2][1], path[2][2])
<1>1. TypeOK /\ Walking(Memory, SlotOf(x), x, (1 + 1) + 1)
  BY Starts
<1>2. \A p \in Steps : p[1] \in Container /\ p[2] \in 1..MaxSize
  BY DEF Steps, Container
<1>3. path[1] \in Steps
  BY DEF Paths
<1>4. Walking(w1.memory, w1.slot, x, 1 + 1)
  <2>1. path[1][1] \in Container /\ path[1][2] \in 1..MaxSize /\ 1 + 1 \in Nat
    BY <1>2, <1>3
  <2> QED
    BY <1>1, <2>1, SubValueWalks
<1> HIDE DEF w1
<1>5. CASE Len(path) = 1
  <2>1. Walking(w1.memory, w1.slot, x, 1)
    BY <1>4, FewerWalks
  <2> QED
    BY <1>5, <2>1 DEF Walk, w1
<1>6. CASE Len(path) # 1
  <2>1. path[2] \in Steps
    BY <1>6 DEF Paths
  <2>2. Walking(w2.memory, w2.slot, x, 1)
    BY <1>1, <1>2, <1>4, <2>1, SubValueWalks
  <2> QED
    BY <1>6, <2>2 DEF Walk, w1
<1> QED
  BY <1>5, <1>6
------------------------------------------------------------------------------
(* A whole statement.                                                         *)

\* The end of a statement deletes what is not in use, and leaves the rest.
LEMMA EndProperties ==
    ASSUME TypeOK, NEW m, NEW x \in Vars, Done(m, x), End(m)
    PROVE  /\ Inv'
           /\ \A y \in Vars \ {x} : Disjoint(x, y) =>
                 var'[y] = var[y] /\ \A r \in Reach(y) : heap'[r] = heap[r]
<1> DEFINE n == [var |-> var', heap |-> heap']
<1>1. m \in Memories /\ m.heap[NullRef] = NullValue /\ Cardinality(Free(m)) >= 3
  BY DEF Done, End
<1>2. m.heap \in [Refs -> Values] /\ m.var \in [Vars -> Refs]
  BY <1>1 DEF Memories
<1>3. /\ Live(m) \in SUBSET Refs /\ Free(m) = Refs \ Live(m)
      /\ NullRef \in Live(m) /\ \A y \in Vars : m.var[y] \in Live(m)
      /\ Closed(m.heap, Live(m))
  BY <1>1, LiveIs
<1>4. var' = m.var /\ heap' = [r \in Refs |-> IF r \in Free(m) THEN NullValue ELSE m.heap[r]]
  BY DEF End
<1>5. NullValue \in Values
  <2>1. "null" \in DOMAIN TypeId /\ 0 \in Int
    BY DEF TypeId
  <2> QED
    BY <2>1, ValueIsTyped DEF NullValue
<1>6. n \in Memories /\ n.heap = heap' /\ n.var = var' /\ heap' \in [Refs -> Values]
  BY <1>2, <1>4, <1>5 DEF Memories
<1>7. \A r \in Live(m) : heap'[r] = m.heap[r]
  BY <1>3, <1>4
<1> HIDE DEF n
<1>8. Closed(heap', Live(m))
  <2> SUFFICES ASSUME NEW q \in Live(m), NEW i \in DOMAIN heap'[q].elems
               PROVE  heap'[q].elems[i] \in Live(m)
    BY <1>3, <1>6, ClosedMeans
  <2> QED
    BY <1>2, <1>3, <1>7, ClosedMeans
<1>9. Live(n) \subseteq Live(m) /\ Free(n) = Refs \ Live(n)
  BY <1>3, <1>4, <1>6, <1>8, LiveIs
<1>10. Cardinality(Free(n)) >= 3
  <2>1. Free(m) \subseteq Free(n) /\ Free(n) \subseteq Refs /\ Free(m) \subseteq Refs
    BY <1>3, <1>9
  <2>2. IsFiniteSet(Free(n)) /\ IsFiniteSet(Free(m))
    BY <2>1, FS_Subset, VariantAssumption
  <2>3. /\ Cardinality(Free(m)) <= Cardinality(Free(n))
        /\ Cardinality(Free(m)) \in Nat /\ Cardinality(Free(n)) \in Nat
    BY <2>1, <2>2, FS_Subset, FS_CardinalityType
  <2> QED
    BY <1>1, <2>3
<1>11. Ready(n, 3)
  BY <1>1, <1>3, <1>6, <1>7, <1>10 DEF Ready
<1>12. Inv'
  BY <1>11 DEF Inv, n, Memory
<1>13. ASSUME NEW y \in Vars \ {x}, Disjoint(x, y)
       PROVE  var'[y] = var[y] /\ \A r \in Reach(y) : heap'[r] = heap[r]
  <2>1. Kept(m, y)
    BY <1>13 DEF Done
  <2>2. Reach(y) \subseteq Live(m)
    BY <1>1, <2>1, KeptIsLive
  <2> QED
    BY <1>4, <1>7, <2>1, <2>2 DEF Kept
<1> QED
  BY <1>12, <1>13

LEMMA EntriesAreLive ==
    ASSUME Inv, NEW x \in Vars
    PROVE  /\ DOMAIN Entries(x) \in SUBSET (1..MaxSize)
           /\ \A j \in DOMAIN Entries(x) : Entries(x)[j] \in Live(Memory)
<1>1. Memory \in Memories /\ Memory.heap = heap /\ Memory.var = var
  BY DEF Inv, Ready, Memory
<1>2. heap \in [Refs -> Values]
  BY <1>1 DEF Memories
<1>3. var[x] \in Live(Memory) /\ var[x] \in Refs /\ Closed(heap, Live(Memory)) /\ Live(Memory) \in SUBSET Refs
  BY <1>1, LiveIs
<1>4. /\ DOMAIN heap[var[x]].elems \in SUBSET (1..MaxSize)
      /\ \A j \in DOMAIN heap[var[x]].elems : heap[var[x]].elems[j] \in Live(Memory)
  BY <1>2, <1>3, ElementsAreRefs, ClosedMeans
<1> QED
  BY <1>4 DEF Entries

\* A map whose entries are in use is put into x.
LEMMA MapDone ==
    ASSUME Inv, NEW x \in Vars, NEW D \in SUBSET (1..MaxSize),
           NEW f, f = [j \in D |-> f[j]], \A j \in D : f[j] \in Live(Memory)
    PROVE  Done(Make(Memory, SlotOf(x), [Value("map", 0) EXCEPT !.elems = f]), x)
<1> DEFINE v == Value("map", 0)
           value == [v EXCEPT !.elems = f]
<1>1. TypeOK /\ Walking(Memory, SlotOf(x), x, 2 + 1) /\ Memory \in Memories
  BY Starts DEF Inv, Ready
<1>2. Live(Memory) \in SUBSET Refs
  BY <1>1, LiveIs
<1>3. f \in [D -> Refs] /\ DOMAIN f = D
  BY <1>2
<1>4. v \in Values
  <2>1. "map" \in DOMAIN TypeId /\ 0 \in Int
    BY DEF TypeId
  <2> QED
    BY <2>1, ValueIsTyped
<1> HIDE DEF v
<1>5. value \in Values /\ value.elems = f
  <2>1. \A E \in SUBSET (1..MaxSize) : \A g \in [E -> Refs] :
           [v EXCEPT !.elems = g] \in Values /\ [v EXCEPT !.elems = g].elems = g
    BY <1>4, ElementsReplaced
  <2> QED
    BY <1>3, <2>1, Zenon
<1> HIDE DEF value
<1>6. Range(value.elems) \subseteq Live(Memory)
  BY <1>3, <1>5 DEF Range
<1>7. Done(Make(Memory, SlotOf(x), value), x)
  BY <1>1, <1>5, <1>6, MakeDone
<1> QED
  BY <1>7 DEF value, v

\* A scalar is put into a slot.
LEMMA ScalarDone ==
    ASSUME TypeOK, NEW m, NEW s, NEW x \in Vars, NEW k \in Nat, Walking(m, s, x, k + 1),
           NEW scalar \in Scalars
    PROVE  Done(Make(m, s, Value(scalar[1], scalar[2])), x)
<1> DEFINE value == Value(scalar[1], scalar[2])
<1>1. scalar[1] \in DOMAIN TypeId /\ scalar[2] \in Int
  BY VariantAssumption DEF TypeId
<1>2. value \in Values /\ DOMAIN value.elems = {}
  BY <1>1, ValueIsTyped
<1> HIDE DEF value
<1>3. Range(value.elems) \subseteq Live(m)
  BY <1>2 DEF Range
<1>4. Done(Make(m, s, value), x)
  BY <1>2, <1>3, MakeDone
<1> QED
  BY <1>4 DEF value

\* A statement writes one variable, and what it shows.
LEMMA Statement ==
    ASSUME Inv, Next
    PROVE  \E x \in Vars : \E m : Done(m, x) /\ End(m)
<1>1. \A x \in Vars : TypeOK /\ Walking(Memory, SlotOf(x), x, 2 + 1)
  BY Starts
<1>2. Vars # {}
  BY DEF Next
<1>3. /\ TypeOK /\ Memory.var = var
      /\ NullRef \in Refs /\ \A x \in Vars : var[x] \in Refs
  BY <1>1, <1>2, VariantAssumption DEF Memory, TypeOK
<1>4. ASSUME NEW x \in Vars, NEW r \in Refs, End(Put(Memory, SlotOf(x), r))
      PROVE  \E z \in Vars : \E m : Done(m, z) /\ End(m)
  <2>1. Done(Put(Memory, SlotOf(x), r), x)
    BY <1>1, PutDone
  <2> QED
    BY <1>4, <2>1
<1>5. ASSUME NEW x \in Vars, Reset(x) PROVE \E z \in Vars : \E m : Done(m, z) /\ End(m)
  BY <1>3, <1>4, <1>5 DEF Reset
<1>6. ASSUME NEW x \in Vars, NEW y \in Vars, Copy(x, y)
      PROVE  \E z \in Vars : \E m : Done(m, z) /\ End(m)
  BY <1>3, <1>4, <1>6 DEF Copy
<1>7. ASSUME NEW x \in Vars, NEW y \in Vars, NEW p \in Steps, Read(y, x, p)
      PROVE  \E z \in Vars : \E m : Done(m, z) /\ End(m)
  <2> DEFINE from == heap[var[x]]
             r == IF from.type = p[1] /\ p[2] \in DOMAIN from.elems THEN from.elems[p[2]] ELSE NullRef
  <2>1. heap \in [Refs -> Values] /\ var[x] \in Refs
    BY <1>3 DEF TypeOK
  <2>2. \A i \in DOMAIN from.elems : from.elems[i] \in Refs
    BY <2>1, ElementsAreRefs
  <2>3. End(Put(Memory, SlotOf(y), r))
    BY <1>7 DEF Read
  <2> HIDE DEF from
  <2>4. r \in Refs
    BY <1>3, <2>2
  <2> HIDE DEF r
  <2> QED
    BY <1>4, <2>3, <2>4
<1>8. ASSUME NEW x \in Vars, NEW s \in Scalars, SetScalar(x, s)
      PROVE  \E z \in Vars : \E m : Done(m, z) /\ End(m)
  <2>1. Done(Make(Memory, SlotOf(x), Value(s[1], s[2])), x)
    BY <1>1, ScalarDone
  <2> QED
    BY <1>8, <2>1 DEF SetScalar
<1>9. ASSUME NEW x \in Vars, NEW path \in Paths, NEW y \in Vars, SetElement(x, path, y)
      PROVE  \E z \in Vars : \E m : Done(m, z) /\ End(m)
  <2>1. PICK w \in {Walk(Memory, x, path)} : End(Put(w.memory, w.slot, w.memory.var[y]))
    BY <1>9 DEF SetElement
  <2>2. Walking(w.memory, w.slot, x, 1)
    BY <2>1, WalkWalks
  <2>3. w.memory.var[y] \in Refs
    BY <2>2 DEF Walking, Ready, Memories
  <2>4. Done(Put(w.memory, w.slot, w.memory.var[y]), x)
    BY <1>3, <2>2, <2>3, PutDone
  <2> QED
    BY <2>1, <2>4
<1>10. ASSUME NEW x \in Vars, NEW path \in Paths, NEW s \in Scalars, SetElementScalar(x, path, s)
       PROVE  \E z \in Vars : \E m : Done(m, z) /\ End(m)
  <2>1. PICK w \in {Walk(Memory, x, path)} : End(Make(w.memory, w.slot, Value(s[1], s[2])))
    BY <1>10 DEF SetElementScalar
  <2>2. Walking(w.memory, w.slot, x, 0 + 1)
    BY <2>1, WalkWalks
  <2>3. Done(Make(w.memory, w.slot, Value(s[1], s[2])), x)
    BY <1>3, <2>2, ScalarDone
  <2> QED
    BY <2>1, <2>3
<1>11. ASSUME NEW x \in Vars, NEW y \in Vars, NEW i \in 1..MaxSize, InsertKey(x, i, y)
       PROVE  \E z \in Vars : \E m : Done(m, z) /\ End(m)
  <2> DEFINE D == DOMAIN Entries(x) \union {i}
             f == [j \in D |-> IF j = i THEN var[y] ELSE Entries(x)[j]]
  <2>1. End(Make(Memory, SlotOf(x), [Value("map", 0) EXCEPT !.elems = f]))
    BY <1>11 DEF InsertKey
  <2>2. D \in SUBSET (1..MaxSize)
    BY EntriesAreLive
  <2>3. var[y] \in Live(Memory)
    BY <1>3, LiveIs DEF Inv, Ready
  <2>4. f = [j \in D |-> f[j]] /\ \A j \in D : f[j] \in Live(Memory)
    BY <2>3, EntriesAreLive
  <2> HIDE DEF D, f
  <2>5. Done(Make(Memory, SlotOf(x), [Value("map", 0) EXCEPT !.elems = f]), x)
    BY <2>2, <2>4, MapDone
  <2> QED
    BY <2>1, <2>5
<1>12. ASSUME NEW x \in Vars, NEW i \in 1..MaxSize, RemoveKey(x, i)
       PROVE  \E z \in Vars : \E m : Done(m, z) /\ End(m)
  <2> DEFINE D == DOMAIN Entries(x) \ {i}
             f == [j \in D |-> Entries(x)[j]]
  <2>1. End(Make(Memory, SlotOf(x), [Value("map", 0) EXCEPT !.elems = f]))
    BY <1>12 DEF RemoveKey
  <2>2. D \in SUBSET (1..MaxSize)
    BY EntriesAreLive
  <2>3. f = [j \in D |-> f[j]] /\ \A j \in D : f[j] \in Live(Memory)
    BY EntriesAreLive
  <2> HIDE DEF D, f
  <2>4. Done(Make(Memory, SlotOf(x), [Value("map", 0) EXCEPT !.elems = f]), x)
    BY <2>2, <2>3, MapDone
  <2> QED
    BY <2>1, <2>4
<1> QED
  BY <1>5, <1>6, <1>7, <1>8, <1>9, <1>10, <1>11, <1>12 DEF Next
------------------------------------------------------------------------------
(* The program.                                                               *)

LEMMA InitInv == Init => Inv
<1> SUFFICES ASSUME Init PROVE Inv
  OBVIOUS
<1> DEFINE m == Memory
<1>1. m.var = [x \in Vars |-> NullRef] /\ m.heap = [r \in Refs |-> NullValue]
  BY DEF Init, Memory
<1>2. NullValue \in Values /\ DOMAIN NullValue.elems = {}
  <2>1. "null" \in DOMAIN TypeId /\ 0 \in Int
    BY DEF TypeId
  <2> QED
    BY <2>1, ValueIsTyped DEF NullValue
<1>3. m \in Memories /\ m.heap[NullRef] = NullValue /\ m.heap \in [Refs -> Values]
  BY <1>1, <1>2, VariantAssumption DEF Memories, Memory
<1> HIDE DEF m
<1>4. {NullRef} \in SUBSET Refs
  BY VariantAssumption
<1>5. Closed(m.heap, {NullRef})
  BY <1>2, <1>3, <1>4, ClosedMeans
<1>6. \A x \in Vars : m.var[x] \in {NullRef}
  BY <1>1
<1>7. Live(m) \subseteq {NullRef} /\ Free(m) = Refs \ Live(m)
  BY <1>3, <1>4, <1>5, <1>6, LiveIs
<1>8. Cardinality(Free(m)) >= 3
  <2>1. Refs \ {NullRef} \subseteq Free(m) /\ Free(m) \subseteq Refs
    BY <1>7
  <2>2. IsFiniteSet(Free(m)) /\ Cardinality(Refs \ {NullRef}) = Cardinality(Refs) - 1
    BY <2>1, FS_Subset, FS_RemoveElement, VariantAssumption
  <2>3. /\ Cardinality(Refs \ {NullRef}) <= Cardinality(Free(m))
        /\ Cardinality(Free(m)) \in Nat /\ Cardinality(Refs) \in Nat
    BY <2>1, <2>2, FS_Subset, FS_CardinalityType, VariantAssumption
  <2> QED
    BY <2>2, <2>3, VariantAssumption
<1> QED
  BY <1>3, <1>8 DEF Inv, Ready, m

\* What a step leaves alone, and what it keeps.
Keeps ==
    \E z \in Vars : \A x \in Vars \ {z} :
       \/ var'[x] = var[x] /\ \A r \in Reach(x) : heap'[r] = heap[r]
       \/ Containers(x) \intersect Containers(z) # {}

LEMMA NextKeeps == Inv /\ Next => Inv' /\ Keeps
<1> SUFFICES ASSUME Inv, Next PROVE Inv' /\ Keeps
  OBVIOUS
<1>1. PICK z \in Vars : \E m : Done(m, z) /\ End(m)
  BY Statement
<1>2. PICK m : Done(m, z) /\ End(m)
  BY <1>1
<1>3. TypeOK
  BY Starts
<1>4. /\ Inv'
      /\ \A y \in Vars \ {z} : Disjoint(z, y) =>
            var'[y] = var[y] /\ \A r \in Reach(y) : heap'[r] = heap[r]
  BY <1>2, <1>3, EndProperties
<1> QED
  BY <1>4 DEF Keeps, Disjoint

LEMMA Invariance == Spec => []Inv
<1>1. Inv /\ [Next]_vars => Inv'
  <2>1. Inv /\ UNCHANGED vars => Inv'
    BY DEF Inv, Ready, Memories, Free, ReachIn, Elements, Closed, Range, Memory, vars
  <2> QED
    BY <2>1, NextKeeps
<1> QED
  BY <1>1, InitInv, PTL DEF Spec

\* Variables and elements are references to values, and elements have places
\* within the bound, after any statements (the assignments and operator[] of
\* variant.cpp).
THEOREM TypeCorrect == Spec => []TypeOK
<1>1. Inv => TypeOK
  BY DEF Inv, Ready, Memories, Memory, TypeOK
<1> QED
  BY <1>1, Invariance, PTL

\* The value that every null shares (VariantGlobal::nullValue) stays null: what
\* getSubValue makes a list or a map of is a slot, never that value.
THEOREM NullStaysNull == Spec => [](heap[NullRef] = NullValue)
<1>1. Inv => heap[NullRef] = NullValue
  BY DEF Inv, Ready, Memory
<1> QED
  BY <1>1, Invariance, PTL

\* operator[], assignment, insert and remove on one Variant change nothing that
\* another shows, unless both share a list or a map.
THEOREM OthersAreKept == Spec => OthersKeepTheirValue
<1>1. Inv /\ [Next]_vars => [Keeps]_vars
  BY NextKeeps
<1> QED
  BY <1>1, Invariance, PTL DEF Spec, OthersKeepTheirValue, Keeps
===============================================================================
