----------------------------- MODULE MCRenderer -----------------------------
(* Small instances of Renderer for TLC. *)
EXTENDS Renderer

CONSTANTS a, b, c

\* Keys: "x" and "y" have plain values, "m" a map, "l" a list; "one" and "two" are
\* names of generators.  What a matrix groups is not a list to repeat over: its type
\* is []map[string]any, and repeat takes an []any apart and nothing else.
MCMapKeys == {"m", "one", "two"}
MCListKeys == {"l"}

X(v) == [x |-> v]
Y(v) == [y |-> v]
XY == [x |-> a, y |-> b]
WithMap == [x |-> c, m |-> [k |-> a]]
WithList(list) == [x |-> a, l |-> list]

List(elements) ==
  [matrix |-> FALSE, fails |-> FALSE, elements |-> elements, nested |-> <<>>, single |-> FALSE]
Off == [List(<<>>) EXCEPT !.fails = TRUE]
Nested(name, elements) == [name |-> name, fails |-> FALSE, elements |-> elements]
NestedOff == [name |-> Unnamed, fails |-> TRUE, elements |-> <<>>]
Matrix(nests, isSingle) ==
  [matrix |-> TRUE, fails |-> FALSE, elements |-> <<>>, nested |-> nests, single |-> isSingle]

Template(repeat, key) == [repeat |-> repeat, key |-> key]

\* Generators of a matrix: elements that are the same once merged, that have the
\* same keys, that are nothing, that have a map, and with or without a name.
Nests == {Nested(Unnamed, <<X(a), X(b), X(a)>>), Nested(Unnamed, <<XY, Y(a)>>),
          Nested(Unnamed, <<>>), Nested("one", <<X(a), X(b)>>), Nested("two", <<WithList(<<a>>)>>)}

Matrices ==
  {Matrix(<<n>>, isSingle) : n \in Nests \cup {NestedOff}, isSingle \in BOOLEAN}
  \cup {Matrix(<<n, m>>, isSingle) : n, m \in {k \in Nests : k.name = Unnamed}, isSingle \in BOOLEAN}
  \cup {Matrix(<<n, m, o>>, isSingle) :
          n \in Nests, m \in {Nested(Unnamed, <<WithMap>>), NestedOff, Nested("two", <<X(c), X(a)>>)},
          o \in {k \in Nests : k.name # "two"}, isSingle \in BOOLEAN}

Lists == {List(<<WithList(<<a, b>>), WithList(<<>>), WithList(<<c>>)>>), List(<<WithList(<<>>), X(a)>>),
          List(<<[x |-> Null, l |-> <<c>>]>>), List(<<>>), Off}

TemplateLists == {<<>>, <<Template(NoKey, "x")>>, <<Template("l", "x"), Template(NoKey, NoKey)>>,
                  <<Template(NoKey, NoKey), Template("x", "x"), Template("Matrix", NoKey)>>}

MCSets ==
  {[generators |-> gs, templates |-> ts] :
     gs \in {<<g>> : g \in {m \in Matrices : Unshared(m)}}
            \cup {<<l, m>> : l \in Lists, m \in {Matrix(<<Nested(Unnamed, <<XY, Y(a)>>)>>, FALSE),
                                               Matrix(<<Nested("one", <<X(a)>>)>>, TRUE)} \cup Lists},
     ts \in TemplateLists}

\* None of these specs makes a matrix write into a map of its generators.
ASSUME SharesNothing == NoneShared
=============================================================================
