------------------------------- MODULE MCHpack -------------------------------
EXTENDS HpackProperties

Field(name, value) == [name |-> name, value |-> value]

s1 == Field("s", 1)
s2 == Field("s", 2)
a1 == Field("a", 1)
a2 == Field("a", 2)
b1 == Field("b", 1)
k1 == Field("k", 1)
p1 == Field("p", 1)

MCFields == {s1, s2, a1, a2, b1, k1, p1}
MCRoom   == [f \in MCFields |-> IF f \in {a2, s2} THEN 3 ELSE 2]
MCNever  == {k1}
MCStatic == <<s1, Field("k", 0)>>
MCHash   == [n \in {"s", "k", "a", "b", "p"} |-> IF n \in {"s", "k"} THEN 2 ELSE 1]
MCBlocks == {<<a1, k1>>, <<a2, b1>>, <<s1, s2, p1>>}
MCAsks   == {<<3>>, <<6, 2, 5>>}
=============================================================================
