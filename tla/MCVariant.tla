------------------------------ MODULE MCVariant ------------------------------
EXTENDS VariantOrder

ScalarsDef == {<<"int", 1>>}

Container(type, elems) == [Value(type, 0) EXCEPT !.elems = elems]
List(elems) == Container("list", elems)
Lists(s) == [i \in DOMAIN s |-> List(<<s[i]>>)]
Maps(k, s) == [i \in DOMAIN s |-> Container("map", [j \in {k} |-> s[i]])]
Pairs(type, s, t) == [n \in 1..Len(s) * Len(t) |->
    Container(type, <<s[1 + ((n - 1) \div Len(t))], t[1 + ((n - 1) % Len(t))]>>)]

\* Doubles that are equal two by two and not all three, and what is no number;
\* equal values in places of their own.
Atoms == <<NullValue, Value("int", 1), Value("int", 1), Value("string", 1),
           Value("double", 0), Value("double", 1), Value("double", 2),
           Value("double", Inf), Value("double", NaN), Value("double", NaN)>>

\* Lists and maps of them, and lists that hold lists and maps.
Shallow == Atoms \o <<List(<<>>), Container("map", <<>>)>>
                 \o Lists(<<2, 5, 9>>) \o Pairs("list", <<2, 3, 5, 6, 7, 9>>, <<2, 5, 6, 7>>)
                 \o Maps(1, <<2, 5, 9>>) \o Maps(2, <<2, 5>>)
                 \o Pairs("map", <<2, 5, 6, 9>>, <<2, 5, 6>>)
StockDef == Shallow \o Lists(<<11, 14, 15, 44>>) \o Pairs("list", <<12, 13, 16, 24, 40, 45>>, <<5, 6>>)
===============================================================================
