---------------------------- MODULE SetRendering ----------------------------
(***************************************************************************)
(* What rendering a set promises: in one step, an error, or the resources  *)
(* of every template for every element, in order.  The elements of a       *)
(* matrix are the combinations of one element of each of its generators.   *)
(***************************************************************************)
EXTENDS Integers, SequencesExt

CONSTANTS ListKeys, Unnamed, NoKey, Null, Sets

VARIABLES set, outcome

vars == <<set, outcome>>

-----------------------------------------------------------------------------
(* The elements of a matrix. *)

Under(name, element) == IF name = Unnamed THEN element ELSE [key \in {name} |-> element]

\* One element of each generator.
Vectors(gs) ==
  {v \in [DOMAIN gs -> UNION {DOMAIN gs[j].elements : j \in DOMAIN gs}] :
     \A j \in DOMAIN gs : v[j] \in DOMAIN gs[j].elements}

Precedes(v, w) ==
  \E j \in DOMAIN v : v[j] < w[j] /\ \A i \in DOMAIN v : i < j => v[i] = w[i]

\* The last generator that has a key gives its value.
Combination(gs, v) ==
  LET chosen == [j \in DOMAIN gs |-> Under(gs[j].name, gs[j].elements[v[j]])]
      having(key) == {j \in DOMAIN gs : key \in DOMAIN chosen[j]}
  IN [key \in UNION {DOMAIN chosen[j] : j \in DOMAIN gs} |-> chosen[Max(having(key))][key]]

\* Each combination once, where it comes first.
Firsts(gs) ==
  {v \in Vectors(gs) :
     ~\E w \in Vectors(gs) : Precedes(w, v) /\ Combination(gs, w) = Combination(gs, v)}

Product(gs) ==
  LET firsts == Firsts(gs)
      nth(i) == CHOOSE v \in firsts : Cardinality({w \in firsts : Precedes(w, v)}) = i - 1
  IN [i \in 1 .. Cardinality(firsts) |-> Combination(gs, nth(i))]

Group(name) == IF name = Unnamed THEN "Matrix" ELSE name

Grouped(gs) ==
  [key \in {Group(gs[j].name) : j \in DOMAIN gs} |->
     FlattenSeq([j \in DOMAIN gs |-> IF Group(gs[j].name) = key THEN gs[j].elements ELSE <<>>])]

\* A generator without elements is left out of its matrix.
Counted(gs) == FlattenSeq([j \in DOMAIN gs |-> IF gs[j].elements = <<>> THEN <<>> ELSE <<gs[j]>>])

MatrixElements(matrix) ==
  LET gs == Counted(matrix.nested)
  IN IF gs = <<>> THEN <<>> ELSE IF matrix.single THEN <<Grouped(gs)>> ELSE Product(gs)

-----------------------------------------------------------------------------
(* The resources of a set. *)

Elements(s) ==
  FlattenSeq([i \in DOMAIN s.generators |->
                IF s.generators[i].matrix THEN MatrixElements(s.generators[i])
                ELSE s.generators[i].elements])

CannotGenerate(s) ==
  \E i \in DOMAIN s.generators :
    \/ s.generators[i].fails
    \/ s.generators[i].matrix
       /\ \E j \in DOMAIN s.generators[i].nested : s.generators[i].nested[j].fails

\* What a template is repeated over, when it is.
Items(t, element) ==
  IF element[t.repeat] = Null THEN <<>>
  ELSE IF t.repeat \in ListKeys THEN element[t.repeat] ELSE <<element[t.repeat]>>

\* What each resource of a template is rendered from, but for its ElementIndex.
Resources(t, element) ==
  LET resource(i, value) == [template |-> t, element |-> element, repeat |-> i, value |-> value]
  IN IF t.repeat = NoKey THEN <<resource(0, NoKey)>>
     ELSE [i \in DOMAIN Items(t, element) |-> resource(i, Items(t, element)[i])]

\* A template needs what it repeats over, and what it refers to if it is rendered.
CannotRender(t, element) ==
  \/ t.repeat # NoKey /\ t.repeat \notin DOMAIN element
  \/ t.key # NoKey /\ t.key \notin DOMAIN element /\ Resources(t, element) # <<>>

Pending == [is |-> "pending", resources |-> <<>>]
Failed == [is |-> "failed", resources |-> <<>>]

OfElement(s, element) == [j \in 1 .. Len(s.templates) |-> Resources(s.templates[j], element)]

Rendering(s) ==
  LET elements == Elements(s)
  IN IF \E i \in DOMAIN elements, t \in Range(s.templates) : CannotRender(t, elements[i])
     THEN Failed
     ELSE [is |-> "rendered",
           resources |-> FlattenSeq([i \in DOMAIN elements |-> FlattenSeq(OfElement(s, elements[i]))])]

Result == [s \in Sets |-> IF CannotGenerate(s) THEN Failed ELSE Rendering(s)]

-----------------------------------------------------------------------------
Init == set \in Sets /\ outcome = Pending

Render ==
  /\ outcome = Pending
  /\ outcome' = Result[set]
  /\ UNCHANGED set

Spec == Init /\ [][Render]_vars
=============================================================================
