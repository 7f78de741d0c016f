-------------------------- MODULE MatrixGenerator --------------------------
(***************************************************************************)
(* The matrix generator: Generate, generate, cartesian, nextIndex and      *)
(* singleElement of pkg/generators/matrix/matrix.go.                       *)
(*                                                                         *)
(* An element is a function from keys to values.  A value that is a map is *)
(* shared by everything it is assigned to, as in Go: merging two elements  *)
(* that have a map under the same key writes into the map of the first,    *)
(* wherever else it is used (mergo.Merge, external).  The results are      *)
(* therefore kept as the indexes they were merged at, and Element reads    *)
(* them from the slices as they are.                                       *)
(***************************************************************************)
EXTENDS Integers, SequencesExt

CONSTANTS
  MapKeys,  \* the keys whose values are maps; the names of generators are some
  Unnamed   \* the name of a generator that has none

VARIABLES
  nested,     \* the generators still to be asked: [name, fails, elements]
  single,     \* SingleElement
  generated,  \* what the ones asked have generated, unless it is nothing
  slices,     \* what is combined
  indexes,    \* the item of each slice that is combined next, from 0
  results,    \* the indexes that gave the results so far
  phase

matrixVars == <<nested, single, generated, slices, indexes, results, phase>>


-----------------------------------------------------------------------------
(* Merging. *)

Item(s, ix, j) == s[j][ix[j] + 1]

\* The slices that have a key, in the items at some indexes.
Holders(s, ix, key) == {j \in DOMAIN s : key \in DOMAIN Item(s, ix, j)}
KeysAt(s, ix) == UNION {DOMAIN Item(s, ix, j) : j \in DOMAIN s}

\* Maps under one key, merged: the last one that has an inner key gives its value.
Overlay(s, ix, key) ==
  LET maps == [j \in Holders(s, ix, key) |-> Item(s, ix, j)[key]]
      having(inner) == {j \in DOMAIN maps : inner \in DOMAIN maps[j]}
  IN [inner \in UNION {DOMAIN maps[j] : j \in DOMAIN maps} |-> maps[Max(having(inner))][inner]]

\* The slices after the items at some indexes are merged.
Merged(s, ix) ==
  [j \in DOMAIN s |->
    [s[j] EXCEPT ![ix[j] + 1] =
      [key \in DOMAIN @ |-> IF key \in MapKeys /\ j = Min(Holders(s, ix, key))
                            THEN Overlay(s, ix, key) ELSE @[key]]]]

\* The element merged at some indexes, as it reads now.
Element(s, ix) ==
  [key \in KeysAt(s, ix) |->
    LET holders == Holders(s, ix, key)
    IN Item(s, ix, IF key \in MapKeys THEN Min(holders) ELSE Max(holders))[key]]

\* Mutation: every index is reset when it comes to its end.
NextIndexReset(s, ix) ==
  LET room == {j \in DOMAIN ix : ix[j] + 1 < Len(s[j])}
      at == IF room = {} THEN 0 ELSE Max(room)
  IN [j \in DOMAIN ix |-> IF j < at THEN ix[j] ELSE IF j = at THEN ix[j] + 1 ELSE 0]

\* The last index that has room for another, or the first one, goes on, and
\* those after it start again.
NextIndex(s, ix) ==
  LET at == Max({j \in DOMAIN ix : j = 1 \/ ix[j] + 1 < Len(s[j])})
  IN [j \in DOMAIN ix |-> IF j < at THEN ix[j] ELSE IF j = at THEN ix[j] + 1 ELSE 0]

-----------------------------------------------------------------------------
(* The steps of Generate. *)

Start(matrix) ==
  /\ phase = "idle"
  /\ nested' = matrix.nested /\ single' = matrix.single
  /\ generated' = <<>> /\ slices' = <<>> /\ indexes' = <<>> /\ results' = <<>>
  /\ phase' = "generate"

\* A generator that fails or is not enabled.
AskFails ==
  /\ phase = "generate" /\ nested # <<>> /\ Head(nested).fails
  /\ phase' = "failed"
  /\ UNCHANGED <<nested, single, generated, slices, indexes, results>>

\* Mutation: generators without elements are combined too.
AskKeepsEmpty ==
  /\ phase = "generate" /\ nested # <<>> /\ ~Head(nested).fails
  /\ nested' = Tail(nested)
  /\ generated' = Append(generated, Head(nested))
  /\ UNCHANGED <<single, slices, indexes, results, phase>>

Ask ==
  /\ phase = "generate" /\ nested # <<>> /\ ~Head(nested).fails
  /\ nested' = Tail(nested)
  /\ generated' = IF Head(nested).elements = <<>> THEN generated
                  ELSE Append(generated, Head(nested))
  /\ UNCHANGED <<single, slices, indexes, results, phase>>

\* The elements of a generator with a name are put under its name.
Prefixed(g) ==
  IF g.name = Unnamed THEN g.elements
  ELSE [i \in DOMAIN g.elements |-> [key \in {g.name} |-> g.elements[i]]]

\* The elements of each generator, grouped under its name and those of the ones
\* without a name under "Matrix".
SingleElement ==
  LET group(name) ==
        FlattenSeq([i \in DOMAIN generated |->
                      IF generated[i].name = name THEN generated[i].elements ELSE <<>>])
      names == {generated[i].name : i \in DOMAIN generated}
  IN [key \in (names \ {Unnamed}) \cup (IF Unnamed \in names THEN {"Matrix"} ELSE {}) |->
        IF key = "Matrix" /\ Unnamed \in names THEN group(Unnamed) ELSE group(key)]

\* What Generate returns when it is done.
Returned ==
  IF generated = <<>> THEN <<>>
  ELSE IF single THEN <<SingleElement>>
  ELSE [i \in DOMAIN results |-> Element(slices, results[i])]

\* A single element is made at once, as is nothing of nothing.
Gather ==
  /\ phase = "generate" /\ nested = <<>>
  /\ single \/ generated = <<>>
  /\ phase' = "done"
  /\ UNCHANGED <<nested, single, generated, slices, indexes, results>>

BeginProduct ==
  /\ phase = "generate" /\ nested = <<>>
  /\ ~single /\ generated # <<>>
  /\ slices' = [j \in DOMAIN generated |-> Prefixed(generated[j])]
  /\ indexes' = [j \in DOMAIN generated |-> 0]
  /\ phase' = "product"
  /\ UNCHANGED <<nested, single, generated, results>>

\* Mutation: an element is compared with the one before it only.
AlreadyExistsLast(s, ix) == results # <<>> /\ Element(s, Last(results)) = Element(s, ix)

AlreadyExists(s, ix) == \E i \in DOMAIN results : Element(s, results[i]) = Element(s, ix)

Combine ==
  /\ phase = "product" /\ indexes[1] < Len(slices[1])
  /\ slices' = Merged(slices, indexes)
  /\ results' = IF AlreadyExists(slices', indexes) THEN results ELSE Append(results, indexes)
  /\ indexes' = NextIndex(slices, indexes)
  /\ UNCHANGED <<nested, single, generated, phase>>

EndProduct ==
  /\ phase = "product" /\ indexes[1] >= Len(slices[1])
  /\ phase' = "done"
  /\ UNCHANGED <<nested, single, generated, slices, indexes, results>>

MatrixStep == AskFails \/ Ask \/ Gather \/ BeginProduct \/ Combine \/ EndProduct
=============================================================================
