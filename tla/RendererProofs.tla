--------------------------- MODULE RendererProofs ---------------------------
(***************************************************************************)
(* What holds of rendering for every spec: the types of its variables,     *)
(* that the indexes of a matrix stay in range and go on, and that what     *)
(* Render returns is what SetRendering promises.                           *)
(***************************************************************************)
EXTENDS Renderer, SequenceLemmas, FiniteSetTheorems

-----------------------------------------------------------------------------
(* TypeOK is inductive. *)

LEMMA InitType == Init => TypeOK
<1> SUFFICES ASSUME Init PROVE TypeOK
  OBVIOUS
<1>1. set.generators \in Seq(Range(set.generators))
  BY SetsAssumption DEF Init
<1>2. <<>> \in Seq(Nestable(set)) /\ <<>> \in Seq({n \in Nestable(set) : n.elements # <<>>})
  BY EmptySeq
<1>3. /\ set \in Sets /\ generators \in Seq(Range(set.generators))
      /\ single \in BOOLEAN /\ nested \in Seq(Nestable(set))
  BY <1>1, <1>2 DEF Init
<1>4. generated \in Seq({n \in Nestable(set) : n.elements # <<>>})
  BY <1>2 DEF Init
<1>5. QED  BY <1>3, <1>4 DEF Init, TypeOK

\* What is asked next has its type, and leaves a list of its type.
LEMMA HeadType ==
  ASSUME NEW S, NEW s \in Seq(S), s # <<>>
  PROVE  Head(s) \in S /\ Tail(s) \in Seq(S)
  BY HeadTailProperties

\* A step of the matrix keeps the types.
LEMMA MatrixType == TypeOK /\ InMatrix => TypeOK'
<1> SUFFICES ASSUME TypeOK, InMatrix PROVE TypeOK'
  OBVIOUS
<1>1. CASE AskFails
  BY <1>1 DEF AskFails, InMatrix, renderVars, TypeOK
<1>2. CASE Ask
  <2>1. Head(nested) \in Nestable(set) /\ nested' \in Seq(Nestable(set))
    BY <1>2, HeadType DEF Ask, TypeOK
  <2>2. generated' \in Seq({n \in Nestable(set) : n.elements # <<>>})
    BY <1>2, <2>1, AppendProperties DEF Ask, TypeOK
  <2>3. QED  BY <1>2, <2>1, <2>2 DEF Ask, InMatrix, renderVars, TypeOK
<1>3. CASE Gather
  BY <1>3 DEF Gather, InMatrix, renderVars, TypeOK
<1>4. CASE BeginProduct
  BY <1>4 DEF BeginProduct, InMatrix, renderVars, TypeOK
<1>5. CASE Combine
  BY <1>5 DEF Combine, InMatrix, renderVars, TypeOK
<1>6. CASE EndProduct
  BY <1>6 DEF EndProduct, InMatrix, renderVars, TypeOK
<1>7. QED  BY <1>1, <1>2, <1>3, <1>4, <1>5, <1>6 DEF InMatrix, MatrixStep

\* A matrix starts with the nested generators of the spec.
LEMMA StartType ==
  ASSUME TypeOK, CallMatrix
  PROVE  nested' \in Seq(Nestable(set)) /\ single' \in BOOLEAN
<1>1. Head(generators) \in Range(set.generators)
  BY HeadType DEF CallMatrix, TypeOK
<1>2. /\ Head(generators).nested \in Seq(Range(Head(generators).nested))
      /\ Head(generators).single \in BOOLEAN
  BY <1>1, SetsAssumption DEF TypeOK
<1>3. Range(Head(generators).nested) \subseteq Nestable(set)
  BY <1>1 DEF Nestable
<1>4. QED  BY <1>2, <1>3, SeqMonotonic DEF CallMatrix, Start

LEMMA NextType == TypeOK /\ [Next]_vars => TypeOK'
<1> SUFFICES ASSUME TypeOK, [Next]_vars PROVE TypeOK'
  OBVIOUS
<1>1. CASE Generate
  BY <1>1, HeadType DEF Generate, matrixVars, TypeOK
<1>2. CASE GenerateFails
  BY <1>2 DEF GenerateFails, matrixVars, TypeOK
<1>3. CASE NextGenerator
  BY <1>3 DEF NextGenerator, matrixVars, TypeOK
<1>4. CASE Finish
  BY <1>4 DEF Finish, matrixVars, TypeOK
<1>5. CASE CallMatrix
  <2>1. generated' \in Seq({n \in Nestable(set) : n.elements # <<>>})
    BY <1>5 DEF CallMatrix, Start
  <2>2. generators' \in Seq(Range(set.generators))
    BY <1>5, HeadType DEF CallMatrix, TypeOK
  <2>3. QED  BY <1>5, <2>1, <2>2, StartType DEF CallMatrix, Start, TypeOK
<1>6. CASE InMatrix
  BY <1>6, MatrixType
<1>7. CASE MatrixReturns
  BY <1>7 DEF MatrixReturns, TypeOK
<1>8. CASE MatrixFails
  BY <1>8 DEF MatrixFails, matrixVars, TypeOK
<1>9. CASE RenderTemplate
  BY <1>9 DEF RenderTemplate, matrixVars, TypeOK
<1>10. CASE TemplateFails
  BY <1>10 DEF TemplateFails, matrixVars, TypeOK
<1>11. CASE NextElement
  BY <1>11 DEF NextElement, matrixVars, TypeOK
<1>12. CASE UNCHANGED vars
  BY <1>12 DEF vars, matrixVars, renderVars, TypeOK
<1>13. QED
  BY <1>1, <1>2, <1>3, <1>4, <1>5, <1>6, <1>7, <1>8, <1>9, <1>10, <1>11, <1>12 DEF Next

\* Every variable keeps its type: what a matrix has generated is of its own nested
\* generators, none of them without elements (generate in matrix.go).
THEOREM RendererTypeCorrect == Spec => []TypeOK
  BY InitType, NextType, PTL DEF Spec

-----------------------------------------------------------------------------
(* The indexes of a matrix. *)

\* The indexes that are next: after the one that goes on there is no room.
LEMMA NextIndexLast ==
  ASSUME NEW n \in Nat \ {0}, NEW ix, DOMAIN ix = 1 .. n, NEW s
  PROVE  \E at \in 1 .. n :
           /\ at = 1 \/ ix[at] + 1 < Len(s[at])
           /\ \A j \in 1 .. n : at < j => ~(ix[j] + 1 < Len(s[j]))
           /\ NextIndex(s, ix) =
                [j \in 1 .. n |-> IF j < at THEN ix[j] ELSE IF j = at THEN ix[j] + 1 ELSE 0]
<1> DEFINE Room == {j \in DOMAIN ix : j = 1 \/ ix[j] + 1 < Len(s[j])}
<1>1. Room \subseteq 1 .. n /\ Room # {}
  BY 1 \in 1 .. n
<1>2. Max(Room) \in Room /\ \A j \in Room : j <= Max(Room)
  BY <1>1, LastOf
<1>3. NextIndex(s, ix) =
        [j \in 1 .. n |-> IF j < Max(Room) THEN ix[j] ELSE IF j = Max(Room) THEN ix[j] + 1 ELSE 0]
  BY DEF NextIndex
<1>4. Max(Room) \in 1 .. n /\ (Max(Room) = 1 \/ ix[Max(Room)] + 1 < Len(s[Max(Room)]))
  BY <1>1, <1>2
<1>5. ASSUME NEW j \in 1 .. n, Max(Room) < j PROVE ~(ix[j] + 1 < Len(s[j]))
  <2>1. j \in Room => j <= Max(Room)
    BY <1>2, Zenon
  <2>2. j \notin Room
    <3> HIDE DEF Room
    <3> QED BY <1>4, <1>5, <2>1
  <2> QED BY <2>2
<1> HIDE DEF Room
<1> QED BY <1>3, <1>4, <1>5

\* Merging leaves the slices and their lengths as they are.
LEMMA MergedShape ==
  ASSUME NEW s, NEW ix, \A j \in DOMAIN s : s[j] \in Seq(Range(s[j]))
  PROVE  /\ DOMAIN Merged(s, ix) = DOMAIN s
         /\ \A j \in DOMAIN s : /\ Merged(s, ix)[j] \in Seq(Range(Merged(s, ix)[j]))
                               /\ Len(Merged(s, ix)[j]) = Len(s[j])
<1>1. DOMAIN Merged(s, ix) = DOMAIN s
  BY DEF Merged
<1>2. ASSUME NEW j \in DOMAIN s
      PROVE  /\ Merged(s, ix)[j] \in Seq(Range(Merged(s, ix)[j]))
             /\ Len(Merged(s, ix)[j]) = Len(s[j])
  <2>1. s[j] \in [1 .. Len(s[j]) -> Range(s[j])] /\ Len(s[j]) \in Nat
    BY LenProperties
  <2>2. PICK item : Merged(s, ix)[j] = [s[j] EXCEPT ![ix[j] + 1] = item]
    BY DEF Merged
  <2>3. Merged(s, ix)[j] = [i \in 1 .. Len(s[j]) |-> Merged(s, ix)[j][i]]
    BY <2>1, <2>2
  <2>4. QED  BY <2>1, <2>3, FunctionIsSequence
<1>3. QED  BY <1>1, <1>2

\* Putting elements under a name leaves their number as it is.
LEMMA PrefixedShape ==
  ASSUME NEW g, g.elements \in Seq(Range(g.elements))
  PROVE  /\ Prefixed(g) \in Seq(Range(Prefixed(g)))
         /\ Len(Prefixed(g)) = Len(g.elements)
<1>1. CASE g.name = Unnamed
  BY <1>1 DEF Prefixed
<1>2. CASE g.name # Unnamed
  <2>1. Len(g.elements) \in Nat /\ DOMAIN g.elements = 1 .. Len(g.elements)
    BY LenProperties
  <2>2. Prefixed(g) = [i \in 1 .. Len(g.elements) |-> Prefixed(g)[i]]
    BY <1>2, <2>1 DEF Prefixed
  <2>3. QED  BY <2>1, <2>2, FunctionIsSequence
<1>3. QED  BY <1>1, <1>2

\* What is combined when the indexes are all 0.
LEMMA BeginInRange == TypeOK /\ BeginProduct => IndexesInRange'
<1> SUFFICES ASSUME TypeOK, BeginProduct PROVE IndexesInRange'
  OBVIOUS
<1>1. ASSUME NEW j \in DOMAIN generated
      PROVE  /\ generated[j].elements \in Seq(Range(generated[j].elements))
             /\ generated[j].elements # <<>>
  <2>1. generated[j] \in Nestable(set) /\ generated[j].elements # <<>>
    <3>1. j \in 1 .. Len(generated)
      BY LenProperties DEF TypeOK
    <3>2. QED  BY <3>1, ElementOfSeq DEF TypeOK
  <2>2. QED  BY <2>1, SetsAssumption DEF Nestable, TypeOK
<1>2. ASSUME NEW j \in DOMAIN generated
      PROVE  /\ slices'[j] \in Seq(Range(slices'[j]))
             /\ Len(slices'[j]) \in Nat \ {0} /\ indexes'[j] = 0
  <2>1. Len(generated[j].elements) \in Nat \ {0}
    BY <1>1, EmptySeq
  <2>2. slices'[j] = Prefixed(generated[j]) /\ indexes'[j] = 0
    BY DEF BeginProduct
  <2>3. QED  BY <1>1, <2>1, <2>2, PrefixedShape
<1>3. /\ generated' # <<>> /\ DOMAIN slices' = DOMAIN generated'
      /\ DOMAIN indexes' = DOMAIN generated' /\ generated' = generated
  BY DEF BeginProduct
<1>4. QED  BY <1>2, <1>3 DEF IndexesInRange

\* The indexes of a product, while its slices are read.
LEMMA IndexesOf ==
  ASSUME TypeOK, IndexesInRange, phase = "product"
  PROVE  \E n \in Nat \ {0} :
           /\ DOMAIN slices = 1 .. n /\ DOMAIN indexes = 1 .. n /\ DOMAIN generated = 1 .. n
           /\ \A j \in 1 .. n : Len(slices[j]) \in Nat /\ indexes[j] \in Nat
<1>1. Len(generated) \in Nat \ {0} /\ DOMAIN generated = 1 .. Len(generated)
  BY LenProperties, EmptySeq DEF TypeOK, IndexesInRange
<1>2. \A j \in DOMAIN slices : Len(slices[j]) \in Nat
  BY LenProperties DEF IndexesInRange
<1>3. DOMAIN slices = 1 .. Len(generated) /\ DOMAIN indexes = 1 .. Len(generated)
  BY <1>1 DEF IndexesInRange
<1>4. \A j \in 1 .. Len(generated) : Len(slices[j]) \in Nat /\ indexes[j] \in Nat
  BY <1>2, <1>3 DEF IndexesInRange
<1>5. QED  BY <1>1, <1>3, <1>4

\* A step of the product keeps the indexes in range, and goes on to a later one.
LEMMA CombineInRange ==
  TypeOK /\ IndexesInRange /\ Combine => IndexesInRange' /\ Later(indexes, indexes')
<1> SUFFICES ASSUME TypeOK, IndexesInRange, Combine
             PROVE  IndexesInRange' /\ Later(indexes, indexes')
  OBVIOUS
<1>1. phase = "product" /\ indexes[1] < Len(slices[1])
  BY DEF Combine
<1>2. PICK n \in Nat \ {0} :
        /\ DOMAIN slices = 1 .. n /\ DOMAIN indexes = 1 .. n /\ DOMAIN generated = 1 .. n
        /\ \A j \in 1 .. n : Len(slices[j]) \in Nat /\ indexes[j] \in Nat
  BY <1>1, IndexesOf
<1>3. PICK at \in 1 .. n :
        /\ at = 1 \/ indexes[at] + 1 < Len(slices[at])
        /\ indexes' = [j \in 1 .. n |-> IF j < at THEN indexes[j]
                                        ELSE IF j = at THEN indexes[j] + 1 ELSE 0]
  <2>1. indexes' = NextIndex(slices, indexes)
    BY DEF Combine
  <2>2. DOMAIN indexes = 1 .. n
    BY <1>2
  <2>3. \E at \in 1 .. n :
          /\ at = 1 \/ indexes[at] + 1 < Len(slices[at])
          /\ \A j \in 1 .. n : at < j => ~(indexes[j] + 1 < Len(slices[j]))
          /\ NextIndex(slices, indexes) =
               [j \in 1 .. n |-> IF j < at THEN indexes[j]
                                 ELSE IF j = at THEN indexes[j] + 1 ELSE 0]
    BY <2>2, NextIndexLast, SMTT(40)
  <2>4. QED  BY <2>1, <2>3, Zenon
<1>4. /\ DOMAIN slices' = 1 .. n
      /\ \A j \in 1 .. n : slices'[j] \in Seq(Range(slices'[j])) /\ Len(slices'[j]) = Len(slices[j])
  BY <1>1, <1>2, MergedShape DEF Combine, IndexesInRange
<1>5. ASSUME NEW j \in 1 .. n PROVE indexes'[j] \in 0 .. Len(slices[j])
  <2>1. indexes[j] \in 0 .. Len(slices[j]) /\ Len(slices[j]) \in Nat
    BY <1>1, <1>2 DEF IndexesInRange
  <2>2. CASE j < at
    BY <1>3, <2>1, <2>2
  <2>3. CASE j = at
    <3>1. indexes'[j] = indexes[j] + 1 /\ indexes[j] < Len(slices[j])
      <4>1. CASE at = 1  BY <1>1, <1>3, <2>1, <2>3, <4>1
      <4>2. CASE indexes[at] + 1 < Len(slices[at])  BY <1>3, <2>1, <2>3, <4>2
      <4>3. QED  BY <1>3, <4>1, <4>2
    <3>2. QED  BY <2>1, <3>1
  <2>4. CASE at < j
    BY <1>3, <2>1, <2>4
  <2>5. QED  BY <1>3, <2>2, <2>3, <2>4
<1>6. ASSUME NEW j \in 1 .. n, j # 1 PROVE indexes'[j] < Len(slices[j])
  <2>1. indexes[j] \in Nat /\ indexes[j] < Len(slices[j]) /\ Len(slices[j]) \in Nat
    BY <1>1, <1>2, <1>6 DEF IndexesInRange
  <2>2. QED  BY <1>3, <1>6, <2>1
<1>7. generated' = generated /\ generated # <<>> /\ phase' = "product"
  BY <1>1 DEF Combine, IndexesInRange
<1>8. IndexesInRange'
  BY <1>2, <1>3, <1>4, <1>5, <1>6, <1>7 DEF IndexesInRange
<1>9. Later(indexes, indexes')
  <2>1. at \in DOMAIN indexes /\ indexes[at] < indexes'[at]
    BY <1>2, <1>3
  <2>2. \A i \in 1 .. at - 1 : indexes[i] = indexes'[i]
    BY <1>2, <1>3
  <2>3. QED  BY <2>1, <2>2 DEF Later
<1>10. QED  BY <1>8, <1>9

\* Whatever else changes the state of the matrix is not about its product.
LEMMA ProductSteps ==
  ASSUME [Next]_vars, phase' = "product"
  PROVE  UNCHANGED matrixVars \/ (InMatrix /\ (BeginProduct \/ Combine \/ Ask))
<1>1. CASE InMatrix
  BY <1>1 DEF InMatrix, MatrixStep, AskFails, Gather, EndProduct
<1>2. CASE Generate \/ GenerateFails \/ NextGenerator \/ Finish
  BY <1>2 DEF Generate, GenerateFails, NextGenerator, Finish
<1>3. CASE RenderTemplate \/ TemplateFails \/ NextElement \/ MatrixFails
  BY <1>3 DEF RenderTemplate, TemplateFails, NextElement, MatrixFails
<1>4. CASE CallMatrix \/ MatrixReturns
  BY <1>4 DEF CallMatrix, Start, MatrixReturns
<1>5. CASE UNCHANGED vars
  BY <1>5 DEF vars
<1>6. QED  BY <1>1, <1>2, <1>3, <1>4, <1>5 DEF Next

LEMMA NextInRange == TypeOK /\ IndexesInRange /\ [Next]_vars => IndexesInRange'
<1> SUFFICES ASSUME TypeOK, IndexesInRange, [Next]_vars, phase' = "product" PROVE IndexesInRange'
  BY DEF IndexesInRange
<1>1. CASE UNCHANGED matrixVars
  BY <1>1 DEF matrixVars, IndexesInRange
<1>2. CASE Ask
  BY <1>2 DEF Ask
<1>3. QED  BY <1>1, <1>2, BeginInRange, CombineInRange, ProductSteps

\* No item of a slice is read that is not there (cartesian and nextIndex).
THEOREM IndexesSafe == Spec => []IndexesInRange
<1>1. Init => IndexesInRange
  BY DEF Init, IndexesInRange
<1>2. QED  BY <1>1, NextInRange, RendererTypeCorrect, PTL DEF Spec

\* Every step of a product goes on to a later combination (nextIndex), so that none
\* is made twice.
THEOREM IndexesGoOn == Spec => IndexesAdvance
<1>1. TypeOK /\ IndexesInRange /\ [Next]_vars
        => [phase = "product" /\ phase' = "product" => Later(indexes, indexes')]_matrixVars
  <2> SUFFICES ASSUME TypeOK, IndexesInRange, [Next]_vars, phase = "product", phase' = "product",
                      ~UNCHANGED matrixVars
               PROVE  Later(indexes, indexes')
    OBVIOUS
  <2>1. Combine
    BY ProductSteps DEF Ask, BeginProduct
  <2>2. QED  BY <2>1, CombineInRange
<1>2. QED  BY <1>1, RendererTypeCorrect, IndexesSafe, PTL DEF Spec, IndexesAdvance

-----------------------------------------------------------------------------
(* The operators of the abstract specification that it shares with this one. *)

LEMMA SameOperators ==
  /\ \A s : Promise!FlattenSeq(s) = FlattenSeq(s)
  /\ \A S : Promise!Max(S) = Max(S)
  /\ \A S : Promise!Cardinality(S) = Cardinality(S)
  /\ \A f : Promise!Range(f) = Range(f)
<1>1. \A s : Promise!FlattenSeq(s) = FlattenSeq(s)
  BY DEF Promise!FlattenSeq, FlattenSeq
<1>2. \A S : Promise!Max(S) = Max(S)
  BY DEF Promise!Max, Max
<1>3. \A S : Promise!Cardinality(S) = Cardinality(S)
  BY DEF Promise!Cardinality, Cardinality, Promise!IsFiniteSet, IsFiniteSet
<1>4. \A f : Promise!Range(f) = Range(f)
  BY DEF Promise!Range, Range
<1> QED BY <1>1, <1>2, <1>3, <1>4

-----------------------------------------------------------------------------
(* The combinations of a matrix, in order. *)

\* Vectors of the same numbers are ordered.
IsVector(v, n) == DOMAIN v = 1 .. n /\ \A j \in 1 .. n : v[j] \in Nat

Before(v, w, n) == \E j \in 1 .. n : v[j] < w[j] /\ \A i \in 1 .. n : i < j => v[i] = w[i]

LEMMA PrecedesIsBefore ==
  ASSUME NEW n \in Nat, NEW v, NEW w, IsVector(v, n)
  PROVE  Promise!Precedes(v, w) <=> Before(v, w, n)
<1>1. DOMAIN v = 1 .. n
  BY DEF IsVector
<1>2. Promise!Precedes(v, w) <=>
        \E j \in DOMAIN v : v[j] < w[j] /\ \A i \in DOMAIN v : i < j => v[i] = w[i]
  BY Zenon DEF Promise!Precedes
<1> QED BY <1>1, <1>2 DEF Before

LEMMA BeforeOnce ==
  ASSUME NEW n \in Nat, NEW v, NEW w, IsVector(v, n), IsVector(w, n), Before(v, w, n)
  PROVE  ~Before(w, v, n) /\ v # w
<1>1. PICK j \in 1 .. n : v[j] < w[j] /\ \A i \in 1 .. n : i < j => v[i] = w[i]
  BY DEF Before
<1>2. v # w
  BY <1>1 DEF IsVector
<1>3. ASSUME NEW k \in 1 .. n, w[k] < v[k], \A i \in 1 .. n : i < k => w[i] = v[i]
      PROVE  FALSE
  <2>1. CASE k < j
    BY <1>1, <1>3, <2>1 DEF IsVector
  <2>2. CASE j < k
    BY <1>1, <1>3, <2>2 DEF IsVector
  <2>3. CASE j = k
    BY <1>1, <1>3, <2>3 DEF IsVector
  <2> QED BY <2>1, <2>2, <2>3
<1> QED BY <1>2, <1>3 DEF Before

LEMMA BeforeAll ==
  ASSUME NEW n \in Nat, NEW v, NEW w, NEW x, IsVector(v, n), IsVector(w, n), IsVector(x, n),
         Before(v, w, n), Before(w, x, n)
  PROVE  Before(v, x, n)
<1>1. PICK j \in 1 .. n : v[j] < w[j] /\ \A i \in 1 .. n : i < j => v[i] = w[i]
  BY DEF Before
<1>2. PICK k \in 1 .. n : w[k] < x[k] /\ \A i \in 1 .. n : i < k => w[i] = x[i]
  BY DEF Before
<1>3. CASE j <= k
  <2>1. v[j] < x[j] /\ \A i \in 1 .. n : i < j => v[i] = x[i]
    BY <1>1, <1>2, <1>3 DEF IsVector
  <2> QED BY <2>1 DEF Before
<1>4. CASE k < j
  <2>1. v[k] < x[k] /\ \A i \in 1 .. n : i < k => v[i] = x[i]
    BY <1>1, <1>2, <1>4 DEF IsVector
  <2> QED BY <2>1 DEF Before
<1> QED BY <1>3, <1>4

LEMMA PrecedesOnce ==
  ASSUME NEW n \in Nat, NEW v, NEW w, IsVector(v, n), IsVector(w, n), Promise!Precedes(v, w)
  PROVE  ~Promise!Precedes(w, v) /\ v # w
BY PrecedesIsBefore, BeforeOnce, Zenon

\* As many different things as there are numbers.
LEMMA CountOf ==
  ASSUME NEW k \in Nat, NEW r, \A i, j \in 1 .. k : r[i] = r[j] => i = j
  PROVE  Cardinality({r[i] : i \in 1 .. k}) = k
<1> DEFINE S == {r[i] : i \in 1 .. k}
           f == [i \in 1 .. k |-> r[i]]
<1>1. f \in Bijection(1 .. k, S)
  BY DEF Bijection, Injection, Surjection, IsInjective
<1>2. ExistsBijection(1 .. k, S)
  BY <1>1 DEF ExistsBijection
<1> QED BY <1>2, FS_CountingElements

\* A list of vectors that goes up, has no combination twice and one for each vector, at or
\* before it, is the list of those where a combination comes first.
Enumerates(r, m, gs, n) ==
  /\ \A i \in 1 .. m : r[i] \in Promise!Vectors(gs)
  /\ \A i, k \in 1 .. m : i < k => Promise!Precedes(r[i], r[k])
  /\ \A i, k \in 1 .. m : i # k => Promise!Combination(gs, r[i]) # Promise!Combination(gs, r[k])
  /\ \A v \in Promise!Vectors(gs) :
       \E i \in 1 .. m : /\ Promise!Combination(gs, r[i]) = Promise!Combination(gs, v)
                         /\ r[i] = v \/ Promise!Precedes(r[i], v)

LEMMA FirstsAre ==
  ASSUME NEW n \in Nat, NEW m \in Nat, NEW gs, NEW r, Enumerates(r, m, gs, n),
         \A v \in Promise!Vectors(gs) : IsVector(v, n)
  PROVE  Promise!Firsts(gs) = {r[i] : i \in 1 .. m}
<1>1. ASSUME NEW i \in 1 .. m PROVE r[i] \in Promise!Firsts(gs)
  <2>1. r[i] \in Promise!Vectors(gs)
    BY DEF Enumerates
  <2>2. ASSUME NEW w \in Promise!Vectors(gs), Promise!Precedes(w, r[i]),
               Promise!Combination(gs, w) = Promise!Combination(gs, r[i])
        PROVE  FALSE
    <3>1. PICK k \in 1 .. m : /\ Promise!Combination(gs, r[k]) = Promise!Combination(gs, w)
                              /\ r[k] = w \/ Promise!Precedes(r[k], w)
      BY DEF Enumerates
    <3>2. k = i
      BY <2>2, <3>1 DEF Enumerates
    <3> QED BY <2>1, <2>2, <3>1, <3>2, PrecedesOnce
  <2> QED BY <2>1, <2>2, Zenon DEF Promise!Firsts
<1>2. ASSUME NEW v \in Promise!Firsts(gs) PROVE \E i \in 1 .. m : r[i] = v
  <2>1. v \in Promise!Vectors(gs)
    BY DEF Promise!Firsts
  <2>2. PICK i \in 1 .. m : /\ Promise!Combination(gs, r[i]) = Promise!Combination(gs, v)
                            /\ r[i] = v \/ Promise!Precedes(r[i], v)
    BY <2>1 DEF Enumerates
  <2>3. r[i] \in Promise!Vectors(gs)
    BY DEF Enumerates
  <2> QED BY <2>2, <2>3, Zenon DEF Promise!Firsts
<1> QED BY <1>1, <1>2

LEMMA ProductIs ==
  ASSUME NEW n \in Nat, NEW m \in Nat, NEW gs, NEW r, Enumerates(r, m, gs, n),
         \A v \in Promise!Vectors(gs) : IsVector(v, n)
  PROVE  Promise!Product(gs) = [i \in 1 .. m |-> Promise!Combination(gs, r[i])]
<1> DEFINE F == Promise!Firsts(gs)
           Earlier(v) == {w \in F : Promise!Precedes(w, v)}
<1>1. F = {r[i] : i \in 1 .. m}
  BY FirstsAre
<1>2. ASSUME NEW i \in 1 .. m, NEW k \in 1 .. m PROVE Promise!Precedes(r[k], r[i]) <=> k < i
  <2>1. r[i] \in Promise!Vectors(gs) /\ r[k] \in Promise!Vectors(gs)
    BY DEF Enumerates
  <2>2. IsVector(r[i], n) /\ IsVector(r[k], n)
    BY <2>1
  <2>3. k < i => Promise!Precedes(r[k], r[i])
    BY DEF Enumerates
  <2>4. i < k => ~Promise!Precedes(r[k], r[i])
    <3>1. i < k => Promise!Precedes(r[i], r[k])
      BY DEF Enumerates
    <3> QED BY <2>2, <3>1, PrecedesOnce
  <2>5. i = k => ~Promise!Precedes(r[k], r[i])
    BY <2>2, PrecedesOnce
  <2> QED BY <2>3, <2>4, <2>5
<1>3. \A i, k \in 1 .. m : r[i] = r[k] => i = k
  BY DEF Enumerates
<1>4. Cardinality(F) = m
  BY <1>1, <1>3, CountOf
<1>5. ASSUME NEW i \in 1 .. m PROVE Cardinality(Earlier(r[i])) = i - 1
  <2>1. Earlier(r[i]) = {r[k] : k \in 1 .. i - 1}
    BY <1>1, <1>2
  <2>2. i - 1 \in Nat /\ \A k, j \in 1 .. i - 1 : r[k] = r[j] => k = j
    BY <1>3
  <2> QED BY <2>1, <2>2, CountOf
<1> HIDE DEF F, Earlier
<1>6. ASSUME NEW i \in 1 .. m PROVE (CHOOSE v \in F : Cardinality(Earlier(v)) = i - 1) = r[i]
  <2>1. \A v \in F : Cardinality(Earlier(v)) = i - 1 => v = r[i]
    BY <1>1, <1>5
  <2>2. r[i] \in F /\ Cardinality(Earlier(r[i])) = i - 1
    BY <1>1, <1>5
  <2> QED BY <2>1, <2>2
<1>7. Promise!Product(gs) =
        [i \in 1 .. Cardinality(F) |->
           Promise!Combination(gs, CHOOSE v \in F : Cardinality(Earlier(v)) = i - 1)]
  BY DEF Promise!Product, F, Earlier, Promise!Cardinality, Cardinality,
         Promise!IsFiniteSet, IsFiniteSet
<1> QED BY <1>4, <1>6, <1>7

-----------------------------------------------------------------------------
(* What is merged at some indexes, when no map is shared. *)

\* A nested generator as the schema has it.
Sound(g) ==
  /\ IsList(g.elements) /\ \A i \in 1 .. Len(g.elements) : IsElement(g.elements[i])
  /\ g.name # Unnamed => g.name \in MapKeys \ ListKeys

LEMMA PrefixedItems ==
  ASSUME NEW g, Sound(g)
  PROVE  /\ IsList(Prefixed(g)) /\ Len(Prefixed(g)) = Len(g.elements)
         /\ \A i \in 1 .. Len(g.elements) :
              /\ Prefixed(g)[i] = Promise!Under(g.name, g.elements[i])
              /\ IsElement(Prefixed(g)[i])
<1>1. Len(g.elements) \in Nat /\ DOMAIN g.elements = 1 .. Len(g.elements)
  BY ListLength DEF Sound
<1>2. IsList(Prefixed(g)) /\ Len(Prefixed(g)) = Len(g.elements)
  BY PrefixedShape DEF Sound, IsList
<1>3. ASSUME NEW i \in 1 .. Len(g.elements)
      PROVE  Prefixed(g)[i] = Promise!Under(g.name, g.elements[i]) /\ IsElement(Prefixed(g)[i])
  <2>1. IsElement(g.elements[i])
    BY DEF Sound
  <2>2. CASE g.name = Unnamed
    BY <2>1, <2>2 DEF Prefixed, Promise!Under
  <2>3. CASE g.name # Unnamed
    <3>1. Prefixed(g)[i] = [key \in {g.name} |-> g.elements[i]]
      BY <1>1, <2>3 DEF Prefixed
    <3>2. g.name \notin ListKeys /\ IsMap(g.elements[i])
      BY <2>1, <2>3 DEF Sound, IsElement
    <3> QED BY <2>3, <3>1, <3>2 DEF IsElement, IsMap, Promise!Under
  <2> QED BY <2>2, <2>3
<1> QED BY <1>2, <1>3

\* The generators of a product, and what is combined.
Combines(gs, s, n) ==
  /\ n \in Nat \ {0} /\ IsList(gs) /\ Len(gs) = n
  /\ \A j \in 1 .. n : Sound(gs[j])
  /\ \A i, j \in 1 .. n : i # j => Apart(gs[i], gs[j])
  /\ s = [j \in 1 .. n |-> Prefixed(gs[j])]

At(ix) == [j \in DOMAIN ix |-> ix[j] + 1]

LEMMA VectorsAre ==
  ASSUME NEW gs, NEW n \in Nat, IsList(gs), Len(gs) = n, \A j \in 1 .. n : IsList(gs[j].elements)
  PROVE  \A v : v \in Promise!Vectors(gs) <=>
           v = [j \in 1 .. n |-> v[j]] /\ \A j \in 1 .. n : v[j] \in 1 .. Len(gs[j].elements)
<1>1. DOMAIN gs = 1 .. n /\ \A j \in 1 .. n : DOMAIN gs[j].elements = 1 .. Len(gs[j].elements)
  BY ListLength
<1> DEFINE U == UNION {DOMAIN gs[j].elements : j \in DOMAIN gs}
<1>2. \A j \in 1 .. n : 1 .. Len(gs[j].elements) \subseteq U
  BY <1>1
<1>3. Promise!Vectors(gs) = {v \in [DOMAIN gs -> U] : \A j \in DOMAIN gs : v[j] \in DOMAIN gs[j].elements}
  BY Zenon DEF Promise!Vectors
<1> HIDE DEF U
<1> QED BY <1>1, <1>2, <1>3

\* What is at the indexes of a vector.
LEMMA ItemsAre ==
  ASSUME NEW gs, NEW s, NEW n, Combines(gs, s, n), NEW ix, At(ix) \in Promise!Vectors(gs)
  PROVE  /\ DOMAIN s = 1 .. n /\ DOMAIN ix = 1 .. n
         /\ \A j \in 1 .. n :
              /\ ix[j] + 1 \in 1 .. Len(s[j]) /\ IsList(s[j]) /\ Len(s[j]) = Len(gs[j].elements)
              /\ Item(s, ix, j) = Promise!Under(gs[j].name, gs[j].elements[At(ix)[j]])
              /\ Item(s, ix, j) \in Range(Prefixed(gs[j])) /\ IsElement(Item(s, ix, j))
<1>1. /\ At(ix) = [j \in 1 .. n |-> At(ix)[j]]
      /\ \A j \in 1 .. n : At(ix)[j] \in 1 .. Len(gs[j].elements)
  BY VectorsAre DEF Combines, Sound
<1>2. DOMAIN ix = 1 .. n
  <2>1. DOMAIN At(ix) = DOMAIN ix
    BY DEF At
  <2> QED BY <1>1, <2>1
<1>3. DOMAIN s = 1 .. n
  BY DEF Combines
<1>4. ASSUME NEW j \in 1 .. n
      PROVE  /\ ix[j] + 1 \in 1 .. Len(s[j]) /\ IsList(s[j]) /\ Len(s[j]) = Len(gs[j].elements)
             /\ Item(s, ix, j) = Promise!Under(gs[j].name, gs[j].elements[At(ix)[j]])
             /\ Item(s, ix, j) \in Range(Prefixed(gs[j])) /\ IsElement(Item(s, ix, j))
  <2>1. s[j] = Prefixed(gs[j]) /\ Sound(gs[j])
    BY DEF Combines
  <2>2. At(ix)[j] = ix[j] + 1
    BY <1>2 DEF At
  <2>3. ix[j] + 1 \in 1 .. Len(gs[j].elements)
    BY <1>1, <2>2
  <2>4. /\ IsList(s[j]) /\ Len(s[j]) = Len(gs[j].elements)
        /\ s[j][ix[j] + 1] = Promise!Under(gs[j].name, gs[j].elements[ix[j] + 1])
        /\ IsElement(s[j][ix[j] + 1])
    BY <2>1, <2>3, PrefixedItems
  <2>5. DOMAIN s[j] = 1 .. Len(s[j])
    BY <2>4, ListLength
  <2>6. s[j][ix[j] + 1] \in Range(Prefixed(gs[j]))
    BY <2>1, <2>3, <2>4, <2>5 DEF Range
  <2> QED BY <2>2, <2>3, <2>4, <2>6 DEF Item
<1> QED BY <1>2, <1>3, <1>4

\* One slice has a key whose value is a map.
LEMMA HoldersAre ==
  ASSUME NEW gs, NEW s, NEW n, Combines(gs, s, n), NEW ix, At(ix) \in Promise!Vectors(gs),
         NEW j \in 1 .. n, NEW key \in DOMAIN Item(s, ix, j), key \in MapKeys
  PROVE  Holders(s, ix, key) = {j} /\ Min(Holders(s, ix, key)) = j /\ Max(Holders(s, ix, key)) = j
<1>0. /\ DOMAIN s = 1 .. n /\ DOMAIN ix = 1 .. n
      /\ \A i \in 1 .. n :
           /\ ix[i] + 1 \in 1 .. Len(s[i]) /\ IsList(s[i]) /\ Len(s[i]) = Len(gs[i].elements)
           /\ Item(s, ix, i) = Promise!Under(gs[i].name, gs[i].elements[At(ix)[i]])
           /\ Item(s, ix, i) \in Range(Prefixed(gs[i])) /\ IsElement(Item(s, ix, i))
  BY ItemsAre, Zenon
<1>1. ASSUME NEW i \in 1 .. n, key \in DOMAIN Item(s, ix, i) PROVE i = j
  <2>1. Item(s, ix, i) \in Range(Prefixed(gs[i])) /\ Item(s, ix, j) \in Range(Prefixed(gs[j]))
    BY <1>0
  <2>2. i # j => Apart(gs[i], gs[j])
    BY DEF Combines
  <2> QED BY <1>1, <2>1, <2>2 DEF Apart
<1>2. Holders(s, ix, key) = {j}
  BY <1>1, <1>0 DEF Holders
<1>3. Min({j}) = j /\ Max({j}) = j
  BY DEF Min, Max
<1> QED BY <1>2, <1>3

\* Merging leaves the slices alone.
LEMMA MergedSame ==
  ASSUME NEW gs, NEW s, NEW n, Combines(gs, s, n), NEW ix, At(ix) \in Promise!Vectors(gs)
  PROVE  Merged(s, ix) = s
<1> DEFINE Change(j, item) == [key \in DOMAIN item |->
                                 IF key \in MapKeys /\ j = Min(Holders(s, ix, key))
                                 THEN Overlay(s, ix, key) ELSE item[key]]
<1>1. ASSUME NEW j \in 1 .. n PROVE Change(j, Item(s, ix, j)) = Item(s, ix, j)
  <2>1. IsElement(Item(s, ix, j))
    BY ItemsAre
  <2>2. ASSUME NEW key \in DOMAIN Item(s, ix, j), key \in MapKeys
        PROVE  Overlay(s, ix, key) = Item(s, ix, j)[key]
    <3>1. Holders(s, ix, key) = {j}
      BY <2>2, HoldersAre
    <3>2. IsMap(Item(s, ix, j)[key])
      BY <2>1, <2>2 DEF IsElement
    <3> DEFINE map == Item(s, ix, j)[key]
               maps == [i \in {j} |-> Item(s, ix, i)[key]]
    <3>3. Overlay(s, ix, key) = [inner \in UNION {DOMAIN maps[i] : i \in DOMAIN maps} |->
                                   maps[Max({i \in DOMAIN maps : inner \in DOMAIN maps[i]})][inner]]
      BY <3>1 DEF Overlay
    <3>4. DOMAIN maps = {j} /\ maps[j] = map
      OBVIOUS
    <3> HIDE DEF maps, map
    <3>5. UNION {DOMAIN maps[i] : i \in DOMAIN maps} = DOMAIN map
      BY <3>4
    <3>6. ASSUME NEW inner \in DOMAIN map
          PROVE  Max({i \in DOMAIN maps : inner \in DOMAIN maps[i]}) = j
      <4>1. {i \in DOMAIN maps : inner \in DOMAIN maps[i]} = {j}
        BY <3>4
      <4> QED BY <4>1 DEF Max
    <3>7. Overlay(s, ix, key) = [inner \in DOMAIN map |-> map[inner]]
      BY <3>3, <3>4, <3>5, <3>6
    <3> QED BY <3>2, <3>7 DEF map, IsMap
  <2>3. Change(j, Item(s, ix, j)) = [key \in DOMAIN Item(s, ix, j) |-> Item(s, ix, j)[key]]
    BY <2>2
  <2> QED BY <2>1, <2>3 DEF IsElement, IsMap
<1>2. Merged(s, ix) = [j \in DOMAIN s |-> [s[j] EXCEPT ![ix[j] + 1] = Change(j, s[j][ix[j] + 1])]]
  BY DEF Merged
<1> HIDE DEF Change
<1>3. ASSUME NEW j \in 1 .. n
      PROVE  [s[j] EXCEPT ![ix[j] + 1] = Change(j, s[j][ix[j] + 1])] = s[j]
  <2>1. Change(j, s[j][ix[j] + 1]) = s[j][ix[j] + 1]
    BY <1>1 DEF Item
  <2>2. s[j] = [i \in 1 .. Len(s[j]) |-> s[j][i]]
    BY ItemsAre, ListLength
  <2> QED BY <2>1, <2>2
<1>4. s = [j \in 1 .. n |-> s[j]] /\ DOMAIN s = 1 .. n
  BY ItemsAre DEF Combines
<1> QED BY <1>2, <1>3, <1>4

\* What is merged is the combination of the vector.
LEMMA ElementIs ==
  ASSUME NEW gs, NEW s, NEW n, Combines(gs, s, n), NEW ix, At(ix) \in Promise!Vectors(gs)
  PROVE  Element(s, ix) = Promise!Combination(gs, At(ix))
<1> DEFINE chosen == [j \in DOMAIN gs |-> Promise!Under(gs[j].name, gs[j].elements[At(ix)[j]])]
           having(key) == {j \in DOMAIN gs : key \in DOMAIN chosen[j]}
<1>0. /\ DOMAIN s = 1 .. n /\ DOMAIN ix = 1 .. n
      /\ \A j \in 1 .. n :
           /\ ix[j] + 1 \in 1 .. Len(s[j]) /\ IsList(s[j]) /\ Len(s[j]) = Len(gs[j].elements)
           /\ Item(s, ix, j) = Promise!Under(gs[j].name, gs[j].elements[At(ix)[j]])
           /\ Item(s, ix, j) \in Range(Prefixed(gs[j])) /\ IsElement(Item(s, ix, j))
  BY ItemsAre, Zenon
<1>1. DOMAIN gs = 1 .. n
  BY ListLength DEF Combines
<1>2. \A j \in 1 .. n : chosen[j] = Item(s, ix, j)
  BY <1>1, <1>0
<1>3. Promise!Combination(gs, At(ix)) =
        [key \in UNION {DOMAIN chosen[j] : j \in DOMAIN gs} |-> chosen[Max(having(key))][key]]
  BY DEF Promise!Combination, Promise!Max, Max
<1> HIDE DEF chosen
<1>4. \A key : having(key) = Holders(s, ix, key)
  BY <1>1, <1>2, <1>0 DEF Holders
<1>5. KeysAt(s, ix) = UNION {DOMAIN chosen[j] : j \in DOMAIN gs}
  BY <1>1, <1>2, <1>0 DEF KeysAt
<1>6. ASSUME NEW key \in KeysAt(s, ix)
      PROVE  Item(s, ix, IF key \in MapKeys THEN Min(Holders(s, ix, key)) ELSE Max(Holders(s, ix, key)))[key]
             = chosen[Max(having(key))][key]
  <2>1. PICK j \in 1 .. n : key \in DOMAIN Item(s, ix, j)
    BY <1>6, <1>0 DEF KeysAt
  <2>2. Holders(s, ix, key) \subseteq 1 .. n /\ j \in Holders(s, ix, key)
    BY <2>1, <1>0 DEF Holders
  <2>3. Max(Holders(s, ix, key)) \in 1 .. n
    BY <2>2, LastOf DEF Combines
  <2>4. key \in MapKeys => Min(Holders(s, ix, key)) = Max(Holders(s, ix, key))
    BY <2>1, HoldersAre
  <2> QED BY <1>2, <1>4, <2>3, <2>4
<1>7. Element(s, ix) =
        [key \in KeysAt(s, ix) |->
           Item(s, ix, IF key \in MapKeys THEN Min(Holders(s, ix, key)) ELSE Max(Holders(s, ix, key)))[key]]
  BY DEF Element
<1> QED BY <1>3, <1>5, <1>6, <1>7

-----------------------------------------------------------------------------
(* The combinations that were made before some indexes. *)

\* What is nowhere more is the same or before.
LEMMA LessIsBefore ==
  ASSUME NEW n \in Nat, NEW v, NEW w, IsVector(v, n), IsVector(w, n),
         \A j \in 1 .. n : v[j] <= w[j]
  PROVE  (\A j \in 1 .. n : v[j] = w[j]) \/ Before(v, w, n)
<1> DEFINE T == {j \in 1 .. n : v[j] # w[j]}
<1>1. CASE T = {}
  BY <1>1
<1>2. CASE T # {}
  <2>1. T \subseteq Nat
    OBVIOUS
  <2>2. PICK least \in T : \A i \in T : least <= i
    <3> HIDE DEF T
    <3> QED BY <1>2, <2>1, LeastOf, Zenon
  <2>3. v[least] < w[least]
    BY <2>2 DEF IsVector
  <2>4. \A i \in 1 .. n : i < least => v[i] = w[i]
    BY <2>2
  <2> QED BY <2>2, <2>3, <2>4 DEF Before
<1> QED BY <1>1, <1>2

\* Indexes of slices that all have items: only the first may be at its end.
Indexing(s, ix, n) ==
  /\ DOMAIN ix = 1 .. n
  /\ \A j \in 1 .. n : ix[j] \in 0 .. Len(s[j]) /\ Len(s[j]) \in Nat \ {0}
  /\ \A j \in 1 .. n : j # 1 => ix[j] < Len(s[j])

LEMMA CombinesFacts ==
  ASSUME NEW gs, NEW s, NEW n, Combines(gs, s, n)
  PROVE  /\ n \in Nat \ {0} /\ IsList(gs) /\ Len(gs) = n
         /\ \A j \in 1 .. n : /\ IsList(gs[j].elements) /\ IsList(s[j])
                             /\ Len(s[j]) = Len(gs[j].elements) /\ Len(s[j]) \in Nat
<1>1. n \in Nat \ {0} /\ IsList(gs) /\ Len(gs) = n
  BY DEF Combines
<1>2. ASSUME NEW j \in 1 .. n
      PROVE  /\ IsList(gs[j].elements) /\ IsList(s[j])
             /\ Len(s[j]) = Len(gs[j].elements) /\ Len(s[j]) \in Nat
  <2>1. Sound(gs[j]) /\ s[j] = Prefixed(gs[j])
    BY DEF Combines
  <2>2. IsList(Prefixed(gs[j])) /\ Len(Prefixed(gs[j])) = Len(gs[j].elements)
    BY <2>1, PrefixedItems, Zenon
  <2> QED BY <2>1, <2>2, ListLength DEF Sound
<1> QED BY <1>1, <1>2

\* A vector of the generators, and what is at some indexes.
LEMMA VectorOf ==
  ASSUME NEW gs, NEW s, NEW n, Combines(gs, s, n)
  PROVE  \A v : v \in Promise!Vectors(gs) <=>
           v = [j \in 1 .. n |-> v[j]] /\ \A j \in 1 .. n : v[j] \in 1 .. Len(s[j])
<1>1. /\ n \in Nat /\ IsList(gs) /\ Len(gs) = n
      /\ \A j \in 1 .. n : IsList(gs[j].elements) /\ Len(s[j]) = Len(gs[j].elements)
  BY CombinesFacts
<1>2. \A v : v \in Promise!Vectors(gs) <=>
           v = [j \in 1 .. n |-> v[j]] /\ \A j \in 1 .. n : v[j] \in 1 .. Len(gs[j].elements)
  BY <1>1, VectorsAre
<1> QED BY <1>1, <1>2

LEMMA VectorIsVector ==
  ASSUME NEW gs, NEW s, NEW n, Combines(gs, s, n), NEW v, v \in Promise!Vectors(gs)
  PROVE  IsVector(v, n)
<1>1. v = [j \in 1 .. n |-> v[j]] /\ \A j \in 1 .. n : v[j] \in 1 .. Len(s[j])
  BY VectorOf
<1>2. \A j \in 1 .. n : Len(s[j]) \in Nat
  BY CombinesFacts
<1> QED BY <1>1, <1>2 DEF IsVector

LEMMA AtIs ==
  ASSUME NEW n, NEW ix, DOMAIN ix = 1 .. n
  PROVE  At(ix) = [j \in 1 .. n |-> ix[j] + 1]
BY DEF At

LEMMA AtIsVector ==
  ASSUME NEW n \in Nat, NEW s, NEW ix, Indexing(s, ix, n)
  PROVE  IsVector(At(ix), n)
BY AtIs DEF Indexing, IsVector

\* What was made of the vectors before some indexes: the combinations of them all, each
\* once, where it comes first.
Made(gs, s, n, ix, r) ==
  /\ Combines(gs, s, n) /\ Indexing(s, ix, n) /\ IsList(r)
  /\ \A i \in 1 .. Len(r) : At(r[i]) \in Promise!Vectors(gs) /\ Before(At(r[i]), At(ix), n)
  /\ \A i, k \in 1 .. Len(r) : i < k => Before(At(r[i]), At(r[k]), n)
  /\ \A i, k \in 1 .. Len(r) :
       i # k => Promise!Combination(gs, At(r[i])) # Promise!Combination(gs, At(r[k]))
  /\ \A v \in Promise!Vectors(gs) : Before(v, At(ix), n) =>
       \E i \in 1 .. Len(r) : /\ Promise!Combination(gs, At(r[i])) = Promise!Combination(gs, v)
                              /\ At(r[i]) = v \/ Before(At(r[i]), v, n)

LEMMA ProductBegins ==
  ASSUME NEW gs, NEW s, NEW n, Combines(gs, s, n), \A j \in 1 .. n : gs[j].elements # <<>>,
         NEW ix, ix = [j \in 1 .. n |-> 0]
  PROVE  Made(gs, s, n, ix, <<>>)
<1>1. /\ n \in Nat \ {0} /\ \A j \in 1 .. n : /\ IsList(gs[j].elements) /\ Len(s[j]) \in Nat
                                            /\ Len(s[j]) = Len(gs[j].elements)
  BY CombinesFacts
<1>2. \A j \in 1 .. n : Len(s[j]) # 0
  BY <1>1, ListLength
<1>3. Indexing(s, ix, n)
  BY <1>1, <1>2 DEF Indexing
<1>4. IsList(<<>>) /\ Len(<<>>) = 0
  BY EmptySeq DEF IsList
<1>5. ASSUME NEW v \in Promise!Vectors(gs) PROVE ~Before(v, At(ix), n)
  <2>1. IsVector(v, n) /\ \A j \in 1 .. n : v[j] \in 1 .. Len(s[j])
    BY VectorOf, VectorIsVector
  <2>2. \A j \in 1 .. n : At(ix)[j] = 1
    <3>1. DOMAIN ix = 1 .. n /\ \A j \in 1 .. n : ix[j] = 0
      OBVIOUS
    <3>2. At(ix) = [j \in 1 .. n |-> ix[j] + 1]
      BY <3>1 DEF At
    <3> QED BY <3>1, <3>2
  <2>3. \A j \in 1 .. n : v[j] >= 1
    BY <1>1, <2>1 DEF IsVector
  <2>4. ASSUME NEW j \in 1 .. n PROVE ~(v[j] < At(ix)[j])
    <3>1. v[j] \in Nat /\ v[j] >= 1 /\ At(ix)[j] = 1
      BY <2>1, <2>2, <2>3 DEF IsVector
    <3>2. \A x \in Nat : x >= 1 => ~(x < 1)
      OBVIOUS
    <3> QED BY <3>1, <3>2, Zenon
  <2> QED BY <2>4 DEF Before
<1>6. \A i : i \notin 1 .. Len(<<>>)
  BY <1>4
<1> QED BY <1>3, <1>4, <1>5, <1>6, Zenon DEF Made

LEMMA NextIsIndexing ==
  ASSUME NEW n \in Nat \ {0}, NEW s, NEW ix, Indexing(s, ix, n), ix[1] < Len(s[1])
  PROVE  /\ Indexing(s, NextIndex(s, ix), n)
         /\ Before(At(ix), At(NextIndex(s, ix)), n)
         /\ \A v : /\ IsVector(v, n) /\ v = [j \in 1 .. n |-> v[j]]
                   /\ \A j \in 1 .. n : v[j] \in 1 .. Len(s[j])
                   => (Before(v, At(NextIndex(s, ix)), n) => v = At(ix) \/ Before(v, At(ix), n))
<1>1. /\ DOMAIN ix = 1 .. n
      /\ \A j \in 1 .. n : ix[j] \in Nat /\ Len(s[j]) \in Nat \ {0} /\ ix[j] < Len(s[j])
  BY DEF Indexing
<1> DEFINE next == NextIndex(s, ix)
<1>2. PICK at \in 1 .. n :
        /\ at = 1 \/ ix[at] + 1 < Len(s[at])
        /\ \A j \in 1 .. n : at < j => ~(ix[j] + 1 < Len(s[j]))
        /\ next = [j \in 1 .. n |-> IF j < at THEN ix[j] ELSE IF j = at THEN ix[j] + 1 ELSE 0]
  <2>1. DOMAIN ix = 1 .. n
    BY <1>1
  <2>2. \E at \in 1 .. n :
           /\ at = 1 \/ ix[at] + 1 < Len(s[at])
           /\ \A j \in 1 .. n : at < j => ~(ix[j] + 1 < Len(s[j]))
           /\ NextIndex(s, ix) =
                [j \in 1 .. n |-> IF j < at THEN ix[j] ELSE IF j = at THEN ix[j] + 1 ELSE 0]
    BY <2>1, NextIndexLast, SMTT(40)
  <2> QED BY <2>2, Zenon
<1> HIDE DEF next
<1>3. Indexing(s, next, n)
  BY <1>1, <1>2, SMTT(30) DEF Indexing
<1> DEFINE here == At(ix)
           there == At(next)
<1>4. /\ here = [j \in 1 .. n |-> ix[j] + 1]
      /\ \A j \in 1 .. n : here[j] = ix[j] + 1
      /\ \A j \in 1 .. n : j < at => there[j] = ix[j] + 1
      /\ there[at] = ix[at] + 2
      /\ \A j \in 1 .. n : at < j => there[j] = 1
  <2>1. DOMAIN ix = 1 .. n /\ DOMAIN next = 1 .. n
    BY <1>1, <1>2
  <2>2. here = [j \in 1 .. n |-> ix[j] + 1] /\ there = [j \in 1 .. n |-> next[j] + 1]
    BY <2>1, AtIs, Zenon
  <2> HIDE DEF here, there
  <2> QED BY <1>1, <1>2, <2>2
<1> HIDE DEF here, there
<1>5. IsVector(here, n)
  BY <1>1, <1>4 DEF IsVector
<1>6. Before(here, there, n)
  <2>1. here[at] < there[at] /\ \A i \in 1 .. n : i < at => here[i] = there[i]
    BY <1>1, <1>2, <1>4
  <2> QED BY <2>1 DEF Before
<1>7. ASSUME NEW v, IsVector(v, n), v = [j \in 1 .. n |-> v[j]],
             \A j \in 1 .. n : v[j] \in 1 .. Len(s[j]), Before(v, there, n)
      PROVE  v = here \/ Before(v, here, n)
  <2>1. PICK j \in 1 .. n : v[j] < there[j] /\ \A i \in 1 .. n : i < j => v[i] = there[i]
    BY <1>7 DEF Before
  <2>2. v[j] \in Nat /\ v[j] >= 1
    BY <1>1, <1>7 DEF IsVector
  <2>3. CASE j < at
    <3>1. v[j] < here[j] /\ \A i \in 1 .. n : i < j => v[i] = here[i]
      BY <1>1, <1>2, <1>4, <2>1, <2>3
    <3> QED BY <3>1 DEF Before
  <2>4. CASE at < j
    <3>1. there[j] = 1
      BY <1>2, <1>4, <2>4
    <3> QED BY <2>1, <2>2, <3>1
  <2>5. CASE j = at
    <3>1. v[at] <= here[at] /\ \A i \in 1 .. n : i < at => v[i] = here[i]
      BY <1>1, <1>2, <1>4, <2>1, <2>2, <2>5
    <3>2. ASSUME NEW i \in 1 .. n PROVE v[i] <= here[i]
      <4>1. CASE i < at
        BY <1>5, <3>1, <4>1 DEF IsVector
      <4>2. CASE i = at
        BY <3>1, <4>2
      <4>3. CASE at < i
        <5>1. v[i] \in Nat /\ v[i] <= Len(s[i])
          BY <1>1, <1>7 DEF IsVector
        <5>2. Len(s[i]) <= ix[i] + 1
          BY <1>1, <1>2, <4>3
        <5> QED BY <1>1, <1>4, <5>1, <5>2
      <4> QED BY <4>1, <4>2, <4>3
    <3>3. (\A i \in 1 .. n : v[i] = here[i]) \/ Before(v, here, n)
      BY <1>5, <1>7, <3>2, LessIsBefore
    <3> QED BY <1>4, <1>7, <3>3
  <2> QED BY <2>3, <2>4, <2>5
<1> QED BY <1>3, <1>6, <1>7 DEF next, here, there

\* What is at indexes in range is a vector.
LEMMA HereIsAVector ==
  ASSUME NEW gs, NEW s, NEW n, Combines(gs, s, n), NEW ix, Indexing(s, ix, n), ix[1] < Len(s[1])
  PROVE  At(ix) \in Promise!Vectors(gs)
<1>1. At(ix) = [j \in 1 .. n |-> ix[j] + 1]
  BY AtIs, Zenon DEF Indexing
<1>2. \A j \in 1 .. n : ix[j] + 1 \in 1 .. Len(s[j])
  <2> SUFFICES ASSUME NEW j \in 1 .. n PROVE ix[j] + 1 \in 1 .. Len(s[j])
    OBVIOUS
  <2>1. ix[j] \in Nat /\ Len(s[j]) \in Nat /\ ix[j] < Len(s[j])
    BY DEF Indexing
  <2> QED BY <2>1
<1>3. At(ix) = [j \in 1 .. n |-> At(ix)[j]] /\ \A j \in 1 .. n : At(ix)[j] \in 1 .. Len(s[j])
  <2> HIDE DEF At
  <2> QED BY <1>1, <1>2
<1> QED BY <1>3, VectorOf, Zenon

\* One more combination is made, unless there is one like it.
LEMMA ProductGoesOn ==
  ASSUME NEW gs, NEW s, NEW n, NEW ix, NEW r, Made(gs, s, n, ix, r), ix[1] < Len(s[1]),
         NEW more,
         more = IF \E i \in DOMAIN r : Element(s, r[i]) = Element(s, ix) THEN r ELSE Append(r, ix)
  PROVE  Made(gs, s, n, NextIndex(s, ix), more)
<1> DEFINE next == At(NextIndex(s, ix))
           here == At(ix)
           V == Promise!Vectors(gs)
           C(v) == Promise!Combination(gs, v)
<1>0. Combines(gs, s, n) /\ Indexing(s, ix, n) /\ IsList(r) /\ n \in Nat \ {0} /\ n \in Nat
  BY DEF Made, Combines
<1>1. here \in V
  BY <1>0, HereIsAVector, Zenon
<1>2. /\ Indexing(s, NextIndex(s, ix), n) /\ Before(here, next, n)
      /\ \A v : /\ IsVector(v, n) /\ v = [j \in 1 .. n |-> v[j]]
                /\ \A j \in 1 .. n : v[j] \in 1 .. Len(s[j])
                => (Before(v, next, n) => v = here \/ Before(v, here, n))
  BY <1>0, NextIsIndexing, Zenon
<1>3. \A v \in V : /\ IsVector(v, n) /\ v = [j \in 1 .. n |-> v[j]]
                   /\ \A j \in 1 .. n : v[j] \in 1 .. Len(s[j])
  <2>1. \A v : v \in V <=> v = [j \in 1 .. n |-> v[j]] /\ \A j \in 1 .. n : v[j] \in 1 .. Len(s[j])
    BY <1>0, VectorOf, Zenon
  <2>2. \A v \in V : IsVector(v, n)
    BY <1>0, VectorIsVector, Zenon
  <2> QED BY <2>1, <2>2, Zenon
<1>4. \A v \in V : Before(v, next, n) => v = here \/ Before(v, here, n)
  BY <1>2, <1>3, Zenon
<1>5. IsVector(next, n)
  BY <1>0, <1>2, AtIsVector, Zenon
<1>6. ASSUME NEW v \in V, Before(v, here, n) PROVE Before(v, next, n)
  BY <1>0, <1>1, <1>2, <1>3, <1>5, <1>6, BeforeAll, Zenon
<1>7. /\ \A i \in 1 .. Len(r) : At(r[i]) \in V /\ Before(At(r[i]), here, n)
      /\ \A i, k \in 1 .. Len(r) : i < k => Before(At(r[i]), At(r[k]), n)
      /\ \A i, k \in 1 .. Len(r) : i # k => C(At(r[i])) # C(At(r[k]))
      /\ \A v \in V : Before(v, here, n) =>
           \E i \in 1 .. Len(r) : C(At(r[i])) = C(v) /\ (At(r[i]) = v \/ Before(At(r[i]), v, n))
  <2>1. \A i \in 1 .. Len(r) : At(r[i]) \in V /\ Before(At(r[i]), here, n)
    BY Zenon DEF Made
  <2>2. \A i, k \in 1 .. Len(r) : i < k => Before(At(r[i]), At(r[k]), n)
    BY Zenon DEF Made
  <2>3. \A i, k \in 1 .. Len(r) : i # k => C(At(r[i])) # C(At(r[k]))
    BY Zenon DEF Made
  <2>4. \A v \in V : Before(v, here, n) =>
           \E i \in 1 .. Len(r) : C(At(r[i])) = C(v) /\ (At(r[i]) = v \/ Before(At(r[i]), v, n))
    BY Zenon DEF Made
  <2> QED BY <2>1, <2>2, <2>3, <2>4, Zenon
<1>8. Element(s, ix) = C(here) /\ \A i \in 1 .. Len(r) : Element(s, r[i]) = C(At(r[i]))
  <2>1. Element(s, ix) = C(here)
    BY <1>0, <1>1, ElementIs, Zenon
  <2>2. ASSUME NEW i \in 1 .. Len(r) PROVE Element(s, r[i]) = C(At(r[i]))
    <3>1. At(r[i]) \in V
      BY <1>7, Zenon
    <3> QED BY <1>0, <3>1, ElementIs, Zenon
  <2> QED BY <2>1, <2>2, Zenon
<1>9. Len(r) \in Nat /\ DOMAIN r = 1 .. Len(r)
  BY <1>0, ListLength, Zenon
<1> HIDE DEF next, here, V, C
<1>10. CASE \E i \in 1 .. Len(r) : C(At(r[i])) = C(here)
  <2>1. more = r
    BY <1>8, <1>9, <1>10
  <2>2. \A i \in 1 .. Len(r) : At(r[i]) \in V /\ Before(At(r[i]), next, n)
    BY <1>6, <1>7, Zenon
  <2>3. ASSUME NEW v \in V, Before(v, next, n)
        PROVE  \E i \in 1 .. Len(r) : C(At(r[i])) = C(v) /\ (At(r[i]) = v \/ Before(At(r[i]), v, n))
    BY <1>4, <1>7, <1>10, <2>3, Zenon
  <2>4. \A i \in 1 .. Len(more) : At(more[i]) \in V /\ Before(At(more[i]), next, n)
    BY <2>1, <2>2, Zenon
  <2>5. \A i, k \in 1 .. Len(more) : i < k => Before(At(more[i]), At(more[k]), n)
    BY <2>1, <1>7, Zenon
  <2>6. \A i, k \in 1 .. Len(more) : i # k => C(At(more[i])) # C(At(more[k]))
    BY <2>1, <1>7, Zenon
  <2>7. \A v \in V : Before(v, next, n) => \E i \in 1 .. Len(more) :
           C(At(more[i])) = C(v) /\ (At(more[i]) = v \/ Before(At(more[i]), v, n))
    BY <2>1, <2>3, Zenon
  <2>8. IsList(more)
    BY <1>0, <2>1, Zenon
  <2> QED BY <1>0, <1>2, <2>4, <2>5, <2>6, <2>7, <2>8, Zenon DEF Made, next, V, C
<1>11. CASE ~ \E i \in 1 .. Len(r) : C(At(r[i])) = C(here)
  <2>1. more = Append(r, ix)
    BY <1>8, <1>9, <1>11
  <2>2. /\ IsList(more) /\ Len(more) = Len(r) + 1 /\ At(more[Len(r) + 1]) = here
        /\ \A i \in 1 .. Len(r) : more[i] = r[i]
    <3> DEFINE S == Range(r) \cup {ix}
    <3>1. r \in Seq(S) /\ ix \in S
      BY <1>0, SeqMonotonic DEF IsList
    <3> HIDE DEF S
    <3>2. /\ more \in Seq(S) /\ Len(more) = Len(r) + 1 /\ more[Len(r) + 1] = ix
          /\ \A i \in 1 .. Len(r) : more[i] = r[i]
      BY <2>1, <3>1, AppendProperties
    <3> QED BY <3>2, SequenceOfRange DEF IsList, here
  <2>3. \A i \in 1 .. Len(more) : i \in 1 .. Len(r) \/ i = Len(r) + 1
    BY <1>9, <2>2
  <2>4. \A i \in 1 .. Len(r) : i # Len(r) + 1 /\ i < Len(r) + 1 /\ ~(Len(r) + 1 < i) /\ i \in 1 .. Len(more)
    BY <1>9, <2>2
  <2>5. Len(r) + 1 \in 1 .. Len(more) /\ ~(Len(r) + 1 < Len(r) + 1)
    BY <1>9, <2>2
  <2>6. \A i \in 1 .. Len(more) : At(more[i]) \in V /\ Before(At(more[i]), next, n)
    BY <1>1, <1>2, <1>6, <1>7, <2>2, <2>3, Zenon DEF here, next
  <2>7. ASSUME NEW i \in 1 .. Len(more), NEW k \in 1 .. Len(more), i < k
        PROVE  Before(At(more[i]), At(more[k]), n)
    <3>1. i \in 1 .. Len(r)
      BY <1>9, <2>2, <2>7
    <3>2. CASE k \in 1 .. Len(r)
      BY <1>7, <2>2, <2>7, <3>1, <3>2, Zenon
    <3>3. CASE k = Len(r) + 1
      BY <1>7, <2>2, <3>1, <3>3, Zenon
    <3> QED BY <2>3, <3>2, <3>3, Zenon
  <2>8. ASSUME NEW i \in 1 .. Len(more), NEW k \in 1 .. Len(more), i # k
        PROVE  C(At(more[i])) # C(At(more[k]))
    <3>1. CASE i \in 1 .. Len(r) /\ k \in 1 .. Len(r)
      BY <1>7, <2>2, <2>8, <3>1, Zenon
    <3>2. CASE i \in 1 .. Len(r) /\ k = Len(r) + 1
      BY <1>11, <2>2, <3>2, Zenon
    <3>3. CASE i = Len(r) + 1 /\ k \in 1 .. Len(r)
      BY <1>11, <2>2, <3>3, Zenon
    <3> QED BY <2>3, <2>8, <3>1, <3>2, <3>3, Zenon
  <2>9. ASSUME NEW v \in V, Before(v, next, n)
        PROVE  \E i \in 1 .. Len(more) :
                 C(At(more[i])) = C(v) /\ (At(more[i]) = v \/ Before(At(more[i]), v, n))
    <3>1. CASE v = here
      BY <2>2, <2>5, <3>1, Zenon
    <3>2. CASE v # here
      <4>1. Before(v, here, n)
        BY <1>4, <2>9, <3>2, Zenon
      <4> QED BY <1>7, <2>2, <2>4, <4>1, Zenon
    <3> QED BY <3>1, <3>2
  <2> QED BY <1>0, <1>2, <2>2, <2>6, <2>7, <2>8, <2>9, Zenon DEF Made, next, V, C
<1> QED BY <1>10, <1>11

\* When the first index is at its end the results are the product.
LEMMA ProductEnds ==
  ASSUME NEW gs, NEW s, NEW n, NEW ix, NEW r, Made(gs, s, n, ix, r), ~(ix[1] < Len(s[1]))
  PROVE  [i \in DOMAIN r |-> Element(s, r[i])] = Promise!Product(gs)
<1> DEFINE V == Promise!Vectors(gs)
           vs == [i \in 1 .. Len(r) |-> At(r[i])]
<1>0. Combines(gs, s, n) /\ Indexing(s, ix, n) /\ IsList(r) /\ n \in Nat \ {0} /\ n \in Nat
  BY DEF Made, Combines
<1>1. Len(r) \in Nat /\ DOMAIN r = 1 .. Len(r)
  BY <1>0, ListLength, Zenon
<1>2. ASSUME NEW v \in V PROVE Before(v, At(ix), n)
  <2>1. IsVector(v, n) /\ v[1] \in 1 .. Len(s[1])
    <3>1. 1 \in 1 .. n
      BY <1>0
    <3> QED BY <1>0, <3>1, VectorOf, VectorIsVector, Zenon
  <2>2. 1 \in 1 .. n /\ At(ix)[1] = ix[1] + 1 /\ ix[1] \in Nat /\ Len(s[1]) \in Nat
    <3>1. 1 \in 1 .. n
      BY <1>0
    <3>2. At(ix) = [j \in 1 .. n |-> ix[j] + 1]
      BY <1>0, AtIs, Zenon DEF Indexing
    <3> QED BY <1>0, <3>1, <3>2 DEF Indexing
  <2>3. v[1] < At(ix)[1]
    <3> HIDE DEF At
    <3> QED BY <2>1, <2>2
  <2>4. \A i \in 1 .. n : ~(i < 1)
    OBVIOUS
  <2> QED BY <2>2, <2>3, <2>4, Zenon DEF Before
<1>3. ASSUME NEW v \in V PROVE IsVector(v, n)
  BY <1>0, VectorIsVector, Zenon
<1>4. \A v \in V : \A w : Promise!Precedes(v, w) <=> Before(v, w, n)
  BY <1>0, <1>3, PrecedesIsBefore, Zenon
<1>5. /\ \A i \in 1 .. Len(r) : vs[i] = At(r[i]) /\ vs[i] \in V
      /\ \A i, k \in 1 .. Len(r) : i < k => Before(vs[i], vs[k], n)
      /\ \A i, k \in 1 .. Len(r) : i # k => Promise!Combination(gs, vs[i]) # Promise!Combination(gs, vs[k])
      /\ \A v \in V : \E i \in 1 .. Len(r) :
           /\ Promise!Combination(gs, vs[i]) = Promise!Combination(gs, v)
           /\ vs[i] = v \/ Before(vs[i], v, n)
  <2>1. \A i \in 1 .. Len(r) : vs[i] = At(r[i])
    BY Zenon
  <2>2. /\ \A i \in 1 .. Len(r) : At(r[i]) \in V
        /\ \A i, k \in 1 .. Len(r) : i < k => Before(At(r[i]), At(r[k]), n)
        /\ \A i, k \in 1 .. Len(r) :
             i # k => Promise!Combination(gs, At(r[i])) # Promise!Combination(gs, At(r[k]))
        /\ \A v \in V : Before(v, At(ix), n) =>
             \E i \in 1 .. Len(r) : /\ Promise!Combination(gs, At(r[i])) = Promise!Combination(gs, v)
                                    /\ At(r[i]) = v \/ Before(At(r[i]), v, n)
    BY Zenon DEF Made
  <2> HIDE DEF vs, V
  <2>3. ASSUME NEW i \in 1 .. Len(r), NEW k \in 1 .. Len(r)
        PROVE  /\ i < k => Before(vs[i], vs[k], n)
               /\ i # k => Promise!Combination(gs, vs[i]) # Promise!Combination(gs, vs[k])
    <3>1. vs[i] = At(r[i]) /\ vs[k] = At(r[k])
      BY <2>1, Zenon
    <3>2. /\ i < k => Before(At(r[i]), At(r[k]), n)
          /\ i # k => Promise!Combination(gs, At(r[i])) # Promise!Combination(gs, At(r[k]))
      BY <2>2, Zenon
    <3> QED BY <3>1, <3>2, Zenon
  <2>5. ASSUME NEW v \in V
        PROVE  \E i \in 1 .. Len(r) : /\ Promise!Combination(gs, vs[i]) = Promise!Combination(gs, v)
                                      /\ vs[i] = v \/ Before(vs[i], v, n)
    <3>1. PICK i \in 1 .. Len(r) : /\ Promise!Combination(gs, At(r[i])) = Promise!Combination(gs, v)
                                   /\ At(r[i]) = v \/ Before(At(r[i]), v, n)
      BY <1>2, <2>2, Zenon
    <3>2. vs[i] = At(r[i])
      BY <2>1, Zenon
    <3> QED BY <3>1, <3>2, Zenon
  <2> QED BY <2>1, <2>2, <2>3, <2>5, Zenon
<1> HIDE DEF vs
<1>6. Enumerates(vs, Len(r), gs, n)
  BY <1>4, <1>5, Zenon DEF Enumerates, V
<1>7. Promise!Product(gs) = [i \in 1 .. Len(r) |-> Promise!Combination(gs, vs[i])]
  <2>1. \A v \in Promise!Vectors(gs) : IsVector(v, n)
    BY <1>3, Zenon
  <2> QED BY <1>0, <1>1, <1>6, <2>1, ProductIs
<1>8. \A i \in 1 .. Len(r) : Element(s, r[i]) = Promise!Combination(gs, vs[i])
  <2> SUFFICES ASSUME NEW i \in 1 .. Len(r)
               PROVE  Element(s, r[i]) = Promise!Combination(gs, vs[i])
    BY Zenon
  <2>1. vs[i] = At(r[i]) /\ At(r[i]) \in Promise!Vectors(gs)
    BY <1>5, Zenon
  <2>2. Element(s, r[i]) = Promise!Combination(gs, At(r[i]))
    BY <1>0, <2>1, ElementIs, Zenon
  <2> QED BY <2>1, <2>2, Zenon
<1> QED BY <1>1, <1>7, <1>8

-----------------------------------------------------------------------------
(* The elements of a matrix are a list: there are so many vectors. *)

LEMMA FinitelyManyFunctions ==
  ASSUME NEW S, NEW T, IsFiniteSet(S), IsFiniteSet(T)
  PROVE  IsFiniteSet([S -> T])
<1> DEFINE graph == [f \in [S -> T] |-> {<<x, f[x]>> : x \in S}]
<1>1. graph \in [[S -> T] -> SUBSET (S \X T)]
  OBVIOUS
<1>2. ASSUME NEW f \in [S -> T], NEW h \in [S -> T], graph[f] = graph[h] PROVE f = h
  <2>1. ASSUME NEW x \in S PROVE f[x] = h[x]
    <3>1. <<x, f[x]>> \in graph[h]
      BY <1>2
    <3>2. PICK y \in S : <<x, f[x]>> = <<y, h[y]>>
      BY <3>1
    <3> QED BY <3>2
  <2> QED BY <2>1
<1>3. graph \in Injection([S -> T], SUBSET (S \X T))
  <2> HIDE DEF graph
  <2> QED BY <1>1, <1>2 DEF Injection, IsInjective
<1>4. IsFiniteSet(SUBSET (S \X T))
  BY FS_Product, FS_SUBSET
<1> HIDE DEF graph
<1> QED BY <1>3, <1>4, FS_Injection

LEMMA FirstsAreFinite ==
  ASSUME NEW gs, IsList(gs), \A j \in 1 .. Len(gs) : IsList(gs[j].elements)
  PROVE  Cardinality(Promise!Firsts(gs)) \in Nat
<1> DEFINE D(j) == DOMAIN gs[j].elements
           U == UNION {D(j) : j \in DOMAIN gs}
<1>1. DOMAIN gs = 1 .. Len(gs) /\ Len(gs) \in Nat
  BY ListLength
<1>2. IsFiniteSet(DOMAIN gs)
  BY <1>1, FS_Interval
<1>3. ASSUME NEW j \in DOMAIN gs PROVE IsFiniteSet(D(j))
  <2>1. D(j) = 1 .. Len(gs[j].elements) /\ Len(gs[j].elements) \in Nat
    BY <1>1, ListLength
  <2> QED BY <2>1, FS_Interval
<1>4. IsFiniteSet({D(j) : j \in DOMAIN gs})
  <2> DEFINE f == [j \in DOMAIN gs |-> D(j)]
             T == {D(j) : j \in DOMAIN gs}
  <2>1. f \in Surjection(DOMAIN gs, T)
    <3> HIDE DEF D
    <3> QED BY DEF Surjection
  <2> HIDE DEF f, T
  <2>2. IsFiniteSet(T)
    BY <1>2, <2>1, FS_Surjection
  <2> QED BY <2>2 DEF T
<1>5. IsFiniteSet(U)
  <2> DEFINE T == {D(j) : j \in DOMAIN gs}
  <2>1. \A S \in T : IsFiniteSet(S)
    BY <1>3
  <2> HIDE DEF T
  <2>2. IsFiniteSet(UNION T)
    BY <1>4, <2>1, FS_UNION DEF T
  <2> QED BY <2>2 DEF T
<1>6. Promise!Firsts(gs) \subseteq [DOMAIN gs -> U]
  <2>1. Promise!Vectors(gs) = {v \in [DOMAIN gs -> U] : \A j \in DOMAIN gs : v[j] \in DOMAIN gs[j].elements}
    BY Zenon DEF Promise!Vectors
  <2> HIDE DEF U
  <2>2. Promise!Firsts(gs) \subseteq Promise!Vectors(gs)
    BY Zenon DEF Promise!Firsts
  <2>3. Promise!Vectors(gs) \subseteq [DOMAIN gs -> U]
    BY <2>1, Zenon
  <2> QED BY <2>2, <2>3, Zenon
<1> HIDE DEF U
<1>7. IsFiniteSet([DOMAIN gs -> U])
  BY <1>2, <1>5, FinitelyManyFunctions
<1>8. IsFiniteSet(Promise!Firsts(gs))
  BY <1>6, <1>7, FS_Subset
<1> QED BY <1>8, FS_CardinalityType

\* A nested generator counts unless it has no elements.
Pieces(g) == [j \in DOMAIN g.nested |-> IF g.nested[j].elements = <<>> THEN <<>> ELSE <<g.nested[j]>>]

\* A matrix as the schema has it.
SoundMatrix(g) ==
  /\ IsList(g.nested) /\ g.single \in BOOLEAN
  /\ \A j \in 1 .. Len(g.nested) : Sound(g.nested[j]) /\ g.nested[j].fails \in BOOLEAN

LEMMA PiecesAreLists ==
  ASSUME NEW g, SoundMatrix(g)
  PROVE  /\ \A j \in 1 .. Len(g.nested) : IsList(Pieces(g)[j])
         /\ Promise!Counted(g.nested) = Flattened(Pieces(g), Len(g.nested))
         /\ IsList(Promise!Counted(g.nested))
<1>1. DOMAIN g.nested = 1 .. Len(g.nested) /\ Len(g.nested) \in Nat
  BY ListLength DEF SoundMatrix
<1>2. ASSUME NEW j \in 1 .. Len(g.nested) PROVE IsList(Pieces(g)[j])
  <2>1. \A n : IsList(<<n>>)
    <3> SUFFICES ASSUME NEW n PROVE IsList(<<n>>)
      OBVIOUS
    <3>1. <<n>> = [i \in 1 .. 1 |-> <<n>>[i]]
      OBVIOUS
    <3> QED BY <3>1, ListIsSequence
  <2>2. IsList(<<>>)
    BY EmptySeq DEF IsList
  <2> QED BY <1>1, <2>1, <2>2 DEF Pieces
<1>3. Promise!Counted(g.nested) = Flattened(Pieces(g), Len(g.nested))
  <2>1. Pieces(g) = [i \in 1 .. Len(g.nested) |-> Pieces(g)[i]]
    BY <1>1 DEF Pieces
  <2>2. Promise!Counted(g.nested) = Promise!FlattenSeq(Pieces(g))
    BY DEF Promise!Counted, Pieces
  <2>3. Promise!FlattenSeq(Pieces(g)) = FlattenSeq(Pieces(g))
    BY SameOperators, Zenon
  <2> QED BY <2>1, <2>2, <2>3 DEF Flattened
<1>4. IsList(Flattened(Pieces(g), Len(g.nested)))
  BY <1>1, <1>2, FlattenedIsList
<1> QED BY <1>2, <1>3, <1>4

\* What counts of the first nested generators are some of them.
LEMMA CountedAreNested ==
  ASSUME NEW g, SoundMatrix(g), NEW k \in 0 .. Len(g.nested)
  PROVE  /\ IsList(Flattened(Pieces(g), k))
         /\ \A i \in 1 .. Len(Flattened(Pieces(g), k)) :
              \E m \in 1 .. k : /\ Flattened(Pieces(g), k)[i] = g.nested[m]
                                /\ g.nested[m].elements # <<>>
<1>1. DOMAIN g.nested = 1 .. Len(g.nested) /\ Len(g.nested) \in Nat
  BY ListLength DEF SoundMatrix
<1>2. k \in Nat /\ \A m \in 1 .. k : m \in 1 .. Len(g.nested)
  BY <1>1
<1>3. \A m \in 1 .. k : IsList(Pieces(g)[m])
  BY <1>2, PiecesAreLists, Zenon
<1>4. IsList(Flattened(Pieces(g), k))
  BY <1>2, <1>3, FlattenedIsList, Zenon
<1>5. \A i \in 1 .. Len(Flattened(Pieces(g), k)) :
        \E m \in 1 .. k : \E q \in 1 .. Len(Pieces(g)[m]) : Flattened(Pieces(g), k)[i] = Pieces(g)[m][q]
  BY <1>2, <1>3, FlattenedItems
<1>6. ASSUME NEW i \in 1 .. Len(Flattened(Pieces(g), k))
      PROVE  \E m \in 1 .. k : /\ Flattened(Pieces(g), k)[i] = g.nested[m]
                               /\ g.nested[m].elements # <<>>
  <2>1. PICK m \in 1 .. k : \E q \in 1 .. Len(Pieces(g)[m]) : Flattened(Pieces(g), k)[i] = Pieces(g)[m][q]
    BY <1>5, Zenon
  <2>2. PICK q \in 1 .. Len(Pieces(g)[m]) : Flattened(Pieces(g), k)[i] = Pieces(g)[m][q]
    BY <2>1, Zenon
  <2>3. Pieces(g)[m] = IF g.nested[m].elements = <<>> THEN <<>> ELSE <<g.nested[m]>>
    BY <1>1, <1>2 DEF Pieces
  <2>4. CASE g.nested[m].elements = <<>>
    BY <2>2, <2>3, <2>4
  <2>5. CASE g.nested[m].elements # <<>>
    <3>1. q = 1 /\ Pieces(g)[m][q] = g.nested[m]
      BY <2>2, <2>3, <2>5
    <3> QED BY <2>2, <2>5, <3>1
  <2> QED BY <2>4, <2>5
<1> QED BY <1>4, <1>6

LEMMA NestedLengths ==
  ASSUME NEW g, SoundMatrix(g)
  PROVE  Len(g.nested) \in Nat /\ Len(g.nested) \in 0 .. Len(g.nested) /\ 0 \in 0 .. Len(g.nested)
<1>1. Len(g.nested) \in Nat
  BY ListLength DEF SoundMatrix
<1> QED BY <1>1

LEMMA MatrixElementsAreList ==
  ASSUME NEW g, SoundMatrix(g)
  PROVE  IsList(Promise!MatrixElements(g))
<1> DEFINE gs == Promise!Counted(g.nested)
<1>1. gs = Flattened(Pieces(g), Len(g.nested)) /\ IsList(gs)
  BY PiecesAreLists, Zenon
<1>2. \A j \in 1 .. Len(gs) : IsList(gs[j].elements)
  <2>1. \A j \in 1 .. Len(gs) : \E m \in 1 .. Len(g.nested) :
          gs[j] = g.nested[m] /\ g.nested[m].elements # <<>>
    <3> DEFINE k == Len(g.nested)
               fs == Flattened(Pieces(g), k)
    <3>1. k \in 0 .. Len(g.nested)
      BY NestedLengths
    <3>2. \A j \in 1 .. Len(fs) : \E m \in 1 .. k : fs[j] = g.nested[m] /\ g.nested[m].elements # <<>>
      BY <3>1, CountedAreNested
    <3>3. gs = fs
      BY <1>1
    <3> HIDE DEF gs, fs
    <3> QED BY <3>2, <3>3
  <2>2. \A m \in 1 .. Len(g.nested) : IsList(g.nested[m].elements)
    BY DEF SoundMatrix, Sound
  <2> HIDE DEF gs
  <2> QED BY <2>1, <2>2, Zenon
<1>3. Cardinality(Promise!Firsts(gs)) \in Nat
  BY <1>1, <1>2, FirstsAreFinite, Zenon
<1>4. IsList(Promise!Product(gs))
  <2> DEFINE n == Cardinality(Promise!Firsts(gs))
             p == Promise!Product(gs)
  <2>1. p = [i \in 1 .. n |-> p[i]]
    <3>1. DOMAIN p = 1 .. n
      BY DEF Promise!Product, Promise!Cardinality, Cardinality, Promise!IsFiniteSet, IsFiniteSet
    <3>2. p = [i \in DOMAIN p |-> p[i]]
      BY DEF Promise!Product
    <3> QED BY <3>1, <3>2
  <2> HIDE DEF n, p
  <2>2. n \in Nat
    BY <1>3 DEF n
  <2>3. IsList(p)
    BY <2>1, <2>2, ListIsSequence, Zenon
  <2> QED BY <2>3 DEF p
<1>5. IsList(<<>>)
  BY EmptySeq DEF IsList
<1>6. IsList(<<Promise!Grouped(gs)>>)
  <2> DEFINE one == <<Promise!Grouped(gs)>>
  <2>1. one = [i \in 1 .. 1 |-> one[i]]
    OBVIOUS
  <2> HIDE DEF one
  <2>2. IsList(one)
    BY <2>1, ListIsSequence
  <2> QED BY <2>2 DEF one
<1>7. Promise!MatrixElements(g) =
        IF gs = <<>> THEN <<>> ELSE IF g.single THEN <<Promise!Grouped(gs)>> ELSE Promise!Product(gs)
  BY Zenon DEF Promise!MatrixElements
<1> HIDE DEF gs
<1> QED BY <1>4, <1>5, <1>6, <1>7, Zenon

-----------------------------------------------------------------------------
(* What the matrix generator returns. *)

\* A template can be repeated over what such an element has.
Repeatable(element) ==
  \A key \in DOMAIN element :
    key \in ListKeys => element[key] = Null \/ IsList(element[key])

LEMMA ElementsAreRepeatable ==
  ASSUME NEW element, IsElement(element)
  PROVE  Repeatable(element)
BY DEF IsElement, Repeatable, IsList

\* A combination has the values of elements.
LEMMA CombinationIsRepeatable ==
  ASSUME NEW gs, NEW s, NEW n, Combines(gs, s, n), NEW ix, At(ix) \in Promise!Vectors(gs)
  PROVE  Repeatable(Element(s, ix))
<1>1. /\ DOMAIN s = 1 .. n /\ n \in Nat
      /\ \A j \in 1 .. n : IsElement(Item(s, ix, j))
  <2>1. DOMAIN s = 1 .. n /\ \A j \in 1 .. n : IsElement(Item(s, ix, j))
    BY ItemsAre, Zenon
  <2> QED BY <2>1 DEF Combines
<1>2. ASSUME NEW key \in DOMAIN Element(s, ix), key \in ListKeys
      PROVE  Element(s, ix)[key] = Null \/ IsList(Element(s, ix)[key])
  <2>1. key \in KeysAt(s, ix)
    BY DEF Element
  <2>2. PICK j \in 1 .. n : key \in DOMAIN Item(s, ix, j)
    BY <1>1, <2>1 DEF KeysAt
  <2>3. Holders(s, ix, key) \subseteq 1 .. n /\ Holders(s, ix, key) # {}
    BY <1>1, <2>2 DEF Holders
  <2>4. Max(Holders(s, ix, key)) \in Holders(s, ix, key)
    BY <1>1, <2>3, LastOf, Zenon
  <2>5. key \in MapKeys => Holders(s, ix, key) = {j} /\ Min(Holders(s, ix, key)) = j
    BY <2>2, HoldersAre
  <2>6. PICK i : /\ i = (IF key \in MapKeys THEN Min(Holders(s, ix, key)) ELSE Max(Holders(s, ix, key)))
                 /\ i \in Holders(s, ix, key)
    BY <2>4, <2>5
  <2>7. i \in 1 .. n /\ key \in DOMAIN Item(s, ix, i)
    BY <1>1, <2>6 DEF Holders
  <2>8. Element(s, ix)[key] = Item(s, ix, i)[key]
    BY <2>1, <2>6 DEF Element
  <2> QED BY <1>1, <1>2, <2>7, <2>8 DEF IsElement, IsList
<1> QED BY <1>2 DEF Repeatable

\* A single element is the groups that are promised, when no name is "Matrix".
LEMMA SingleIs ==
  ASSUME \A i \in DOMAIN generated : generated[i].name # "Matrix"
  PROVE  SingleElement = Promise!Grouped(generated)
<1> DEFINE names == {generated[i].name : i \in DOMAIN generated}
           keys == {Promise!Group(generated[j].name) : j \in DOMAIN generated}
           Of(name) == [i \in DOMAIN generated |->
                          IF generated[i].name = name THEN generated[i].elements ELSE <<>>]
           In(key) == [i \in DOMAIN generated |->
                         IF Promise!Group(generated[i].name) = key THEN generated[i].elements ELSE <<>>]
<1>1. (names \ {Unnamed}) \cup (IF Unnamed \in names THEN {"Matrix"} ELSE {}) = keys
  BY DEF Promise!Group
<1>2. ASSUME NEW key \in keys
      PROVE  (IF key = "Matrix" /\ Unnamed \in names THEN FlattenSeq(Of(Unnamed)) ELSE FlattenSeq(Of(key)))
             = FlattenSeq(In(key))
  <2>1. CASE key = "Matrix" /\ Unnamed \in names
    <3>1. Of(Unnamed) = In(key)
      BY <2>1 DEF Promise!Group
    <3> QED BY <2>1, <3>1
  <2>2. CASE ~(key = "Matrix" /\ Unnamed \in names)
    <3>1. key \in names /\ key # Unnamed
      BY <2>2 DEF Promise!Group
    <3>2. Of(key) = In(key)
      BY <2>2, <3>1 DEF Promise!Group
    <3> QED BY <2>2, <3>2
  <2> QED BY <2>1, <2>2
<1>3. SingleElement =
        [key \in (names \ {Unnamed}) \cup (IF Unnamed \in names THEN {"Matrix"} ELSE {}) |->
           IF key = "Matrix" /\ Unnamed \in names THEN FlattenSeq(Of(Unnamed)) ELSE FlattenSeq(Of(key))]
  BY DEF SingleElement
<1>4. Promise!Grouped(generated) = [key \in keys |-> Promise!FlattenSeq(In(key))]
  BY DEF Promise!Grouped
<1>5. \A key : Promise!FlattenSeq(In(key)) = FlattenSeq(In(key))
  BY SameOperators, Zenon
<1> HIDE DEF names, keys, Of, In
<1> QED BY <1>1, <1>2, <1>3, <1>4, <1>5

LEMMA SingleIsRepeatable ==
  ASSUME \A i \in DOMAIN generated : Sound(generated[i])
  PROVE  Repeatable(Promise!Grouped(generated))
<1>1. "Matrix" \notin ListKeys
  BY SetsAssumption
<1>2. ASSUME NEW key \in DOMAIN Promise!Grouped(generated) PROVE key \notin ListKeys
  <2>1. PICK j \in DOMAIN generated : key = Promise!Group(generated[j].name)
    BY DEF Promise!Grouped
  <2>2. generated[j].name # Unnamed => generated[j].name \notin ListKeys
    BY DEF Sound
  <2> QED BY <1>1, <2>1, <2>2 DEF Promise!Group
<1> QED BY <1>2 DEF Repeatable

\* How many nested generators were asked.
Asked(g) == Len(g.nested) - Len(nested)

\* A matrix while it is made: what was generated so far, and what was made of it.
Collects(g) ==
  /\ single = g.single /\ phase # "idle"
  /\ IsRest(nested, g.nested, Asked(g))
  /\ \A j \in 1 .. Asked(g) : ~g.nested[j].fails
  /\ generated = Flattened(Pieces(g), Asked(g))
  /\ ~g.single => \A i, j \in 1 .. Len(generated) : i # j => Apart(generated[i], generated[j])

\* None of the nested generators fails.
Generates(g) == ~ \E j \in 1 .. Len(g.nested) : g.nested[j].fails

\* Where the matrix is, results are those of the combinations so far.
Makes(g) ==
  /\ phase = "generate" => results = <<>>
  /\ phase = "product" =>
       /\ ~single /\ nested = <<>> /\ generated # <<>>
       /\ Made(generated, slices, Len(generated), indexes, results)
  /\ phase = "done" =>
       /\ Generates(g) /\ Returned = Promise!MatrixElements(g)
       /\ \A i \in 1 .. Len(Returned) : Repeatable(Returned[i])
  /\ phase = "failed" => ~Generates(g)

\* Two generators that were asked are two of the matrix.
OthersApart(g) == ~g.single => \A i, j \in 1 .. Len(g.nested) : i # j => Apart(g.nested[i], g.nested[j])

LEMMA AskedAll ==
  ASSUME NEW g, SoundMatrix(g), Collects(g), nested = <<>>
  PROVE  /\ Generates(g) /\ Asked(g) = Len(g.nested)
         /\ generated = Promise!Counted(g.nested)
<1>1. Asked(g) = Len(g.nested)
  BY RestNone DEF Collects
<1>2. generated = Flattened(Pieces(g), Len(g.nested))
  BY <1>1 DEF Collects
<1> QED BY <1>1, <1>2, PiecesAreLists DEF Collects, Generates

\* What was generated is sound, and not nothing.
LEMMA GeneratedIsSound ==
  ASSUME NEW g, SoundMatrix(g), Collects(g)
  PROVE  /\ Asked(g) \in 0 .. Len(g.nested) /\ IsList(generated)
         /\ Len(generated) \in Nat /\ DOMAIN generated = 1 .. Len(generated)
         /\ generated # <<>> => Len(generated) # 0
         /\ \A i \in 1 .. Len(generated) :
              /\ \E m \in 1 .. Asked(g) : generated[i] = g.nested[m]
              /\ Sound(generated[i]) /\ generated[i].elements # <<>>
<1>1. Asked(g) \in 0 .. Len(g.nested)
  <2>1. Asked(g) \in Nat /\ Asked(g) + Len(nested) = Len(g.nested) /\ IsList(nested)
    BY DEF Collects, IsRest
  <2>2. Len(nested) \in Nat
    BY <2>1, ListLength
  <2> HIDE DEF Asked
  <2> QED BY <2>1, <2>2
<1>2. IsList(generated) /\ \A i \in 1 .. Len(generated) :
        \E m \in 1 .. Asked(g) : generated[i] = g.nested[m] /\ g.nested[m].elements # <<>>
  <2> DEFINE k == Asked(g)
             fs == Flattened(Pieces(g), k)
  <2>1. IsList(fs) /\ \A j \in 1 .. Len(fs) : \E m \in 1 .. k : fs[j] = g.nested[m] /\ g.nested[m].elements # <<>>
    BY <1>1, CountedAreNested
  <2>2. generated = fs
    BY DEF Collects
  <2> HIDE DEF fs
  <2> QED BY <2>1, <2>2
<1>3. ASSUME NEW i \in 1 .. Len(generated)
      PROVE  /\ \E m \in 1 .. Asked(g) : generated[i] = g.nested[m]
             /\ Sound(generated[i]) /\ generated[i].elements # <<>>
  <2>1. PICK m \in 1 .. Asked(g) : generated[i] = g.nested[m] /\ g.nested[m].elements # <<>>
    BY <1>2
  <2>2. m \in 1 .. Len(g.nested)
    <3> HIDE DEF Asked
    <3> QED BY <1>1
  <2> QED BY <2>1, <2>2 DEF SoundMatrix
<1> QED BY <1>1, <1>2, <1>3, ListLength

LEMMA StartCollects ==
  ASSUME NEW g, SoundMatrix(g), Start(g)
  PROVE  Collects(g)' /\ Makes(g)'
<1>1. /\ nested' = g.nested /\ single' = g.single /\ generated' = <<>>
      /\ results' = <<>> /\ phase' = "generate"
  BY DEF Start
<1>2. IsList(g.nested) /\ Len(g.nested) \in Nat
  BY ListLength DEF SoundMatrix
<1>3. Asked(g)' = 0
  BY <1>1, <1>2 DEF Asked
<1>4. IsRest(nested', g.nested, 0)
  BY <1>1, <1>2, RestOfAll
<1>5. generated' = Flattened(Pieces(g), 0) /\ Len(generated') = 0
  BY <1>1, FlattenedNone, EmptySeq
<1>6. Makes(g)'
  BY <1>1 DEF Makes
<1>7. Collects(g)'
  BY <1>1, <1>3, <1>4, <1>5 DEF Collects
<1> QED BY <1>6, <1>7

\* Asking one more keeps what was collected.
LEMMA AskCollects ==
  ASSUME NEW g, SoundMatrix(g), OthersApart(g), Collects(g), Makes(g), Ask
  PROVE  Collects(g)' /\ Makes(g)'
<1> DEFINE k == Asked(g)
           n == Head(nested)
<1>1. /\ phase = "generate" /\ nested # <<>> /\ ~n.fails /\ nested' = Tail(nested)
      /\ generated' = (IF n.elements = <<>> THEN generated ELSE Append(generated, n))
      /\ UNCHANGED <<single, slices, indexes, results, phase>>
  BY DEF Ask
<1>2. /\ k + 1 \in 1 .. Len(g.nested) /\ n = g.nested[k + 1]
      /\ IsRest(Tail(nested), g.nested, k + 1) /\ Len(Tail(nested)) = Len(nested) - 1
  BY <1>1, RestHead, Zenon DEF Collects
<1>3. /\ k \in 0 .. Len(g.nested) /\ IsList(generated) /\ Len(generated) \in Nat
      /\ \A i \in 1 .. Len(generated) : \E m \in 1 .. k : generated[i] = g.nested[m]
  BY GeneratedIsSound, Zenon
<1>4. Len(g.nested) \in Nat /\ DOMAIN g.nested = 1 .. Len(g.nested)
  BY ListLength DEF SoundMatrix
<1>5. Len(nested) \in Nat /\ k = Len(g.nested) - Len(nested)
  BY ListLength DEF Collects, IsRest, Asked
<1>6. Asked(g)' = k + 1
  <2>1. Asked(g)' = Len(g.nested) - (Len(nested) - 1)
    BY <1>1, <1>2 DEF Asked
  <2> HIDE DEF k
  <2> QED BY <1>4, <1>5, <2>1
<1> HIDE DEF k, n
<1>7. \A j \in 1 .. k + 1 : ~g.nested[j].fails
  <2>1. \A j \in 1 .. k : ~g.nested[j].fails
    BY DEF Collects, k
  <2>2. \A j \in 1 .. k + 1 : j \in 1 .. k \/ j = k + 1
    BY <1>3
  <2> QED BY <1>1, <1>2, <2>1, <2>2
<1>8. Flattened(Pieces(g), k + 1) = generated \o Pieces(g)[k + 1]
  <2>1. IsList(Pieces(g)[k + 1])
    BY <1>2, PiecesAreLists, Zenon
  <2>2. k \in Nat
    BY <1>3, <1>4
  <2>3. Flattened(Pieces(g), k + 1) = Flattened(Pieces(g), k) \o Pieces(g)[k + 1]
    BY <2>1, <2>2, FlattenedStep, Zenon
  <2> QED BY <2>3, Zenon DEF Collects, k
<1>9. Pieces(g)[k + 1] = IF n.elements = <<>> THEN <<>> ELSE <<n>>
  BY <1>2, <1>4 DEF Pieces
<1>10. generated' = Flattened(Pieces(g), k + 1)
  <2>1. CASE n.elements = <<>>
    BY <1>1, <1>3, <1>8, <1>9, <2>1, ConcatNothing
  <2>2. CASE n.elements # <<>>
    BY <1>1, <1>3, <1>8, <1>9, <2>2, ListAppend
  <2> QED BY <2>1, <2>2
<1>11. ASSUME ~g.single
       PROVE  \A i, j \in 1 .. Len(generated') : i # j => Apart(generated'[i], generated'[j])
  <2>1. \A i, j \in 1 .. Len(generated) : i # j => Apart(generated[i], generated[j])
    BY <1>11 DEF Collects
  <2>2. CASE n.elements = <<>>
    BY <1>1, <2>1, <2>2, Zenon
  <2>3. CASE n.elements # <<>>
    <3>1. /\ Len(generated') = Len(generated) + 1 /\ generated'[Len(generated) + 1] = n
          /\ \A i \in 1 .. Len(generated) : generated'[i] = generated[i]
      BY <1>1, <1>3, <2>3, ListAppend
    <3>2. \A i \in 1 .. Len(generated') : i \in 1 .. Len(generated) \/ i = Len(generated) + 1
      BY <1>3, <3>1
    <3>3. \A i \in 1 .. Len(generated) : Apart(generated[i], n) /\ Apart(n, generated[i])
      <4> SUFFICES ASSUME NEW i \in 1 .. Len(generated)
                   PROVE  Apart(generated[i], n) /\ Apart(n, generated[i])
        BY Zenon
      <4>1. PICK m \in 1 .. k : generated[i] = g.nested[m]
        BY <1>3, Zenon
      <4>2. m \in 1 .. Len(g.nested) /\ m # k + 1
        BY <1>3, <1>4
      <4>3. Apart(g.nested[m], g.nested[k + 1]) /\ Apart(g.nested[k + 1], g.nested[m])
        BY <1>2, <1>11, <4>2, Zenon DEF OthersApart
      <4> QED BY <1>2, <4>1, <4>3, Zenon
    <3> QED BY <2>1, <3>1, <3>2, <3>3, Zenon
  <2> QED BY <2>2, <2>3
<1>12. Collects(g)'
  <2>1. single' = g.single /\ phase' # "idle"
    BY <1>1 DEF Collects
  <2>2. IsRest(nested', g.nested, Asked(g)')
    BY <1>1, <1>2, <1>6
  <2>3. \A j \in 1 .. Asked(g)' : ~g.nested[j].fails
    BY <1>6, <1>7
  <2>4. generated' = Flattened(Pieces(g), Asked(g)')
    BY <1>6, <1>10
  <2> QED BY <2>1, <2>2, <2>3, <2>4, <1>11 DEF Collects
<1> QED BY <1>1, <1>12 DEF Makes

\* What is combined are the sound generators of the matrix, apart from each other.
LEMMA GeneratedCombines ==
  ASSUME NEW g, SoundMatrix(g), Collects(g), ~single, generated # <<>>
  PROVE  Combines(generated, [j \in DOMAIN generated |-> Prefixed(generated[j])], Len(generated))
<1>1. /\ IsList(generated) /\ Len(generated) \in Nat /\ DOMAIN generated = 1 .. Len(generated)
      /\ Len(generated) # 0 /\ \A i \in 1 .. Len(generated) : Sound(generated[i])
  BY GeneratedIsSound
<1>2. \A i, j \in 1 .. Len(generated) : i # j => Apart(generated[i], generated[j])
  BY DEF Collects
<1>3. Len(generated) \in Nat \ {0}
  BY <1>1
<1> QED BY <1>1, <1>2, <1>3 DEF Combines

\* The other steps of a matrix.
LEMMA MatrixGoesOn ==
  ASSUME NEW g, SoundMatrix(g), Unshared(g), Collects(g), Makes(g), MatrixStep
  PROVE  Collects(g)' /\ Makes(g)'
<1>0. OthersApart(g)
  <2>1. DOMAIN g.nested = 1 .. Len(g.nested)
    BY ListLength DEF SoundMatrix
  <2> QED BY <2>1 DEF Unshared, OthersApart
<1>1. CASE Ask
  BY <1>0, <1>1, AskCollects
<1>2. CASE AskFails
  <2>1. ~Generates(g)
    <3>1. nested # <<>> /\ Head(nested).fails /\ IsRest(nested, g.nested, Asked(g))
      BY <1>2 DEF AskFails, Collects
    <3>2. Asked(g) + 1 \in 1 .. Len(g.nested) /\ Head(nested) = g.nested[Asked(g) + 1]
      BY <3>1, RestHead, Zenon
    <3> HIDE DEF Asked
    <3> QED BY <3>1, <3>2 DEF Generates
  <2> QED BY <1>2, <2>1 DEF AskFails, Collects, Makes, Asked
<1>3. CASE BeginProduct
  <2>1. /\ phase = "generate" /\ nested = <<>> /\ ~single /\ generated # <<>>
        /\ slices' = [j \in DOMAIN generated |-> Prefixed(generated[j])]
        /\ indexes' = [j \in DOMAIN generated |-> 0] /\ phase' = "product"
        /\ UNCHANGED <<nested, single, generated, results>>
    BY <1>3 DEF BeginProduct
  <2>2. /\ DOMAIN generated = 1 .. Len(generated)
        /\ \A j \in 1 .. Len(generated) : generated[j].elements # <<>>
    BY GeneratedIsSound
  <2>3. Combines(generated, slices', Len(generated))
    BY <2>1, GeneratedCombines
  <2>4. indexes' = [j \in 1 .. Len(generated) |-> 0]
    BY <2>1, <2>2
  <2>5. Made(generated, slices', Len(generated), indexes', <<>>)
    BY <2>2, <2>3, <2>4, ProductBegins, Zenon
  <2>6. results' = <<>>
    BY <2>1 DEF Makes
  <2>7. Made(generated', slices', Len(generated'), indexes', results')
    BY <2>1, <2>5, <2>6
  <2>8. Makes(g)'
    BY <2>1, <2>7 DEF Makes
  <2>9. Collects(g)'
    BY <2>1 DEF Collects, Asked
  <2> QED BY <2>8, <2>9
<1>4. CASE Combine
  <2>1. /\ phase = "product" /\ indexes[1] < Len(slices[1])
        /\ slices' = Merged(slices, indexes)
        /\ results' = (IF AlreadyExists(slices', indexes) THEN results ELSE Append(results, indexes))
        /\ indexes' = NextIndex(slices, indexes)
        /\ UNCHANGED <<nested, single, generated, phase>>
    BY <1>4 DEF Combine
  <2>2. /\ Made(generated, slices, Len(generated), indexes, results)
        /\ ~single /\ nested = <<>> /\ generated # <<>>
    BY <2>1 DEF Makes
  <2>3. Combines(generated, slices, Len(generated)) /\ Indexing(slices, indexes, Len(generated))
    BY <2>2, Zenon DEF Made
  <2>4. At(indexes) \in Promise!Vectors(generated)
    BY <2>1, <2>3, HereIsAVector, Zenon
  <2>5. slices' = slices
    BY <2>1, <2>3, <2>4, MergedSame, Zenon
  <2>6. results' = IF \E i \in DOMAIN results : Element(slices, results[i]) = Element(slices, indexes)
                   THEN results ELSE Append(results, indexes)
    BY <2>1, <2>5 DEF AlreadyExists
  <2>7. Made(generated, slices, Len(generated), NextIndex(slices, indexes), results')
    BY <2>1, <2>2, <2>6, ProductGoesOn, Zenon
  <2>8. Made(generated', slices', Len(generated'), indexes', results')
    BY <2>1, <2>5, <2>7, Zenon
  <2>9. Makes(g)'
    BY <2>1, <2>2, <2>8 DEF Makes
  <2>10. Collects(g)'
    BY <2>1 DEF Collects, Asked
  <2> QED BY <2>9, <2>10
<1>5. CASE Gather
  <2>1. /\ phase = "generate" /\ nested = <<>> /\ (single \/ generated = <<>>) /\ phase' = "done"
        /\ UNCHANGED <<nested, single, generated, slices, indexes, results>>
    BY <1>5 DEF Gather
  <2>2. Generates(g) /\ generated = Promise!Counted(g.nested) /\ single = g.single
    BY <2>1, AskedAll DEF Collects
  <2>3. /\ \A i \in DOMAIN generated : Sound(generated[i])
        /\ DOMAIN generated = 1 .. Len(generated)
        /\ \A i \in 1 .. Len(generated) : \E m \in 1 .. Asked(g) : generated[i] = g.nested[m]
        /\ Asked(g) = Len(g.nested)
    BY <2>1, GeneratedIsSound, AskedAll
  <2>4. CASE generated = <<>>
    <3>1. Returned = <<>> /\ Len(Returned) = 0
      BY <2>4, EmptySeq DEF Returned
    <3>2. Promise!MatrixElements(g) = <<>>
      BY <2>2, <2>4 DEF Promise!MatrixElements
    <3>3. Returned' = Returned
      BY <2>1 DEF Returned, SingleElement
    <3>4. Makes(g)'
      BY <2>1, <2>2, <3>1, <3>2, <3>3 DEF Makes
    <3> QED BY <2>1, <3>4 DEF Collects, Asked
  <2>5. CASE generated # <<>>
    <3>1. \A i \in DOMAIN generated : generated[i].name # "Matrix"
      <4>1. \A m \in 1 .. Len(g.nested) : g.nested[m].name # "Matrix"
        <5>1. DOMAIN g.nested = 1 .. Len(g.nested)
          BY ListLength DEF SoundMatrix
        <5>2. g.single
          BY <2>1, <2>2, <2>5
        <5> QED BY <5>1, <5>2 DEF Unshared, Range
      <4> HIDE DEF Asked
      <4> QED BY <2>3, <4>1
    <3>2. SingleElement = Promise!Grouped(generated) /\ Repeatable(SingleElement)
      BY <2>3, <3>1, SingleIs, SingleIsRepeatable
    <3>3. Returned = <<Promise!Grouped(generated)>> /\ Repeatable(Promise!Grouped(generated))
      BY <2>1, <2>5, <3>2 DEF Returned
    <3>4. Promise!MatrixElements(g) = <<Promise!Grouped(generated)>>
      BY <2>1, <2>2, <2>5 DEF Promise!MatrixElements
    <3>5. \A i \in 1 .. Len(Returned) : Repeatable(Returned[i])
      BY <3>3
    <3>6. Returned' = Returned
      BY <2>1 DEF Returned, SingleElement
    <3>7. Makes(g)'
      BY <2>1, <2>2, <3>3, <3>4, <3>5, <3>6 DEF Makes
    <3> QED BY <2>1, <3>7 DEF Collects, Asked
  <2> QED BY <2>4, <2>5
<1>6. CASE EndProduct
  <2>1. /\ phase = "product" /\ indexes[1] >= Len(slices[1]) /\ phase' = "done"
        /\ UNCHANGED <<nested, single, generated, slices, indexes, results>>
    BY <1>6 DEF EndProduct
  <2>2. /\ Made(generated, slices, Len(generated), indexes, results)
        /\ ~single /\ nested = <<>> /\ generated # <<>>
    BY <2>1 DEF Makes
  <2>3. ~(indexes[1] < Len(slices[1]))
    <3>1. /\ Combines(generated, slices, Len(generated)) /\ Indexing(slices, indexes, Len(generated))
          /\ Len(generated) \in Nat \ {0}
      BY <2>2, Zenon DEF Made, Combines
    <3>2. indexes[1] \in Nat /\ Len(slices[1]) \in Nat
      BY <3>1 DEF Indexing
    <3> QED BY <2>1, <3>2
  <2>4. [i \in DOMAIN results |-> Element(slices, results[i])] = Promise!Product(generated)
    BY <2>2, <2>3, ProductEnds
  <2>5. Returned = [i \in DOMAIN results |-> Element(slices, results[i])]
    BY <2>2 DEF Returned
  <2>6. Generates(g) /\ generated = Promise!Counted(g.nested) /\ single = g.single
    BY <2>2, AskedAll DEF Collects
  <2>7. Promise!MatrixElements(g) = Promise!Product(generated)
    BY <2>2, <2>6 DEF Promise!MatrixElements
  <2>8. \A i \in 1 .. Len(Returned) : Repeatable(Returned[i])
    <3>1. /\ Combines(generated, slices, Len(generated)) /\ IsList(results)
          /\ \A i \in 1 .. Len(results) : At(results[i]) \in Promise!Vectors(generated)
      BY <2>2, Zenon DEF Made
    <3>2. DOMAIN results = 1 .. Len(results) /\ Len(results) \in Nat
      BY <3>1, ListLength, Zenon
    <3>3. \A i \in 1 .. Len(results) : Repeatable(Element(slices, results[i]))
      BY <3>1, CombinationIsRepeatable, Zenon
    <3>4. Len(Returned) = Len(results) /\ \A i \in 1 .. Len(results) : Returned[i] = Element(slices, results[i])
      <4>1. Returned = [i \in 1 .. Len(results) |-> Returned[i]]
        BY <2>5, <3>2
      <4>2. Len(Returned) = Len(results)
        BY <3>2, <4>1, ListIsSequence
      <4> QED BY <2>5, <3>2, <4>2
    <3> QED BY <3>3, <3>4
  <2>9. Returned' = Returned
    BY <2>1 DEF Returned, SingleElement, Element, KeysAt, Holders, Item
  <2>10. Makes(g)'
    BY <2>1, <2>4, <2>5, <2>6, <2>7, <2>8, <2>9 DEF Makes
  <2> QED BY <2>1, <2>10 DEF Collects, Asked
<1> QED BY <1>1, <1>2, <1>3, <1>4, <1>5, <1>6 DEF MatrixStep

-----------------------------------------------------------------------------
(* The elements of a set, and what its templates give for one of them. *)

\* What a generator gives.
Given(g) == IF g.matrix THEN Promise!MatrixElements(g) ELSE g.elements
Lists(s) == [i \in DOMAIN s.generators |-> Given(s.generators[i])]

\* The elements of the first generators.
Whole(s, m) == Flattened(Lists(s), m)
All(s) == Promise!Elements(s)

LEMMA SpecFacts ==
  ASSUME NEW s \in Sets
  PROVE  /\ IsList(s.generators) /\ DOMAIN s.generators = 1 .. Len(s.generators)
         /\ IsList(s.templates) /\ DOMAIN s.templates = 1 .. Len(s.templates)
         /\ Len(s.generators) \in Nat /\ Len(s.templates) \in Nat
         /\ \A i \in 1 .. Len(s.generators) :
              /\ s.generators[i] \in Range(s.generators)
              /\ SoundMatrix(s.generators[i])
              /\ IsList(s.generators[i].elements)
              /\ \A p \in 1 .. Len(s.generators[i].elements) : IsElement(s.generators[i].elements[p])
<1>1. IsList(s.generators) /\ IsList(s.templates)
  BY SetsAssumption DEF IsList
<1>2. /\ DOMAIN s.generators = 1 .. Len(s.generators) /\ DOMAIN s.templates = 1 .. Len(s.templates)
      /\ Len(s.generators) \in Nat /\ Len(s.templates) \in Nat
  BY <1>1, ListLength
<1>3. ASSUME NEW i \in 1 .. Len(s.generators)
      PROVE  /\ s.generators[i] \in Range(s.generators)
             /\ SoundMatrix(s.generators[i])
             /\ IsList(s.generators[i].elements)
             /\ \A p \in 1 .. Len(s.generators[i].elements) : IsElement(s.generators[i].elements[p])
  <2>1. PICK g \in Range(s.generators) : g = s.generators[i]
    BY <1>2 DEF Range
  <2>2. /\ g.single \in BOOLEAN /\ IsList(g.elements) /\ IsList(g.nested)
        /\ \A e \in Range(g.elements) : IsElement(e)
        /\ \A n \in Range(g.nested) :
             /\ n.fails \in BOOLEAN
             /\ n.name # Unnamed => n.name \in MapKeys \ ListKeys
             /\ IsList(n.elements) /\ \A e \in Range(n.elements) : IsElement(e)
    BY SetsAssumption DEF IsList
  <2>3. \A l, p : IsList(l) /\ p \in 1 .. Len(l) => l[p] \in Range(l)
    <3> SUFFICES ASSUME NEW l, NEW p, IsList(l), p \in 1 .. Len(l) PROVE l[p] \in Range(l)
      OBVIOUS
    <3>1. DOMAIN l = 1 .. Len(l)
      BY ListLength
    <3> QED BY <3>1 DEF Range
  <2>4. ASSUME NEW j \in 1 .. Len(g.nested) PROVE Sound(g.nested[j]) /\ g.nested[j].fails \in BOOLEAN
    <3>1. g.nested[j] \in Range(g.nested)
      BY <2>2, <2>3
    <3>2. \A p \in 1 .. Len(g.nested[j].elements) : IsElement(g.nested[j].elements[p])
      BY <2>2, <2>3, <3>1
    <3> QED BY <2>2, <3>1, <3>2 DEF Sound
  <2>5. \A p \in 1 .. Len(g.elements) : IsElement(g.elements[p])
    BY <2>2, <2>3
  <2> QED BY <2>1, <2>2, <2>4, <2>5 DEF SoundMatrix
<1> QED BY <1>1, <1>2, <1>3

LEMMA ListsAre ==
  ASSUME NEW s \in Sets
  PROVE  /\ \A i \in 1 .. Len(s.generators) :
              Lists(s)[i] = Given(s.generators[i]) /\ IsList(Lists(s)[i])
         /\ All(s) = Whole(s, Len(s.generators))
<1>1. ASSUME NEW i \in 1 .. Len(s.generators)
      PROVE  Lists(s)[i] = Given(s.generators[i]) /\ IsList(Lists(s)[i])
  <2>1. Lists(s)[i] = Given(s.generators[i])
    BY SpecFacts DEF Lists
  <2>2. SoundMatrix(s.generators[i]) /\ IsList(s.generators[i].elements)
    BY SpecFacts
  <2>3. IsList(Promise!MatrixElements(s.generators[i]))
    BY <2>2, MatrixElementsAreList
  <2> QED BY <2>1, <2>2, <2>3 DEF Given
<1>2. All(s) = Whole(s, Len(s.generators))
  <2>1. DOMAIN s.generators = 1 .. Len(s.generators)
    BY SpecFacts
  <2>2. Promise!Elements(s) = Promise!FlattenSeq(Lists(s))
    BY DEF Promise!Elements, Lists, Given
  <2>3. Lists(s) = [i \in 1 .. Len(s.generators) |-> Lists(s)[i]]
    BY <2>1 DEF Lists
  <2>4. Promise!FlattenSeq(Lists(s)) = FlattenSeq(Lists(s))
    BY SameOperators, Zenon
  <2>5. FlattenSeq(Lists(s)) = FlattenSeq([i \in 1 .. Len(s.generators) |-> Lists(s)[i]])
    BY <2>3, Zenon
  <2> QED BY <2>2, <2>4, <2>5, Zenon DEF All, Whole, Flattened
<1> QED BY <1>1, <1>2

\* The elements of the first generators are the first ones of all.
LEMMA WholeIsBegin ==
  ASSUME NEW s \in Sets, NEW m \in 0 .. Len(s.generators)
  PROVE  /\ IsList(Whole(s, m)) /\ Len(Whole(s, m)) \in Nat
         /\ IsList(All(s)) /\ Len(All(s)) \in Nat
         /\ Len(Whole(s, m)) <= Len(All(s))
         /\ \A p \in 1 .. Len(Whole(s, m)) : All(s)[p] = Whole(s, m)[p]
<1> DEFINE n == Len(s.generators)
<1>1. n \in Nat /\ m \in Nat /\ m \in 0 .. n /\ \A i \in 1 .. m : i \in 1 .. n
  BY SpecFacts
<1>2. \A i \in 1 .. n : IsList(Lists(s)[i])
  BY ListsAre
<1>3. All(s) = Flattened(Lists(s), n)
  BY ListsAre DEF Whole
<1> HIDE DEF n
<1>4. /\ Len(Flattened(Lists(s), m)) <= Len(Flattened(Lists(s), n))
      /\ \A p \in 1 .. Len(Flattened(Lists(s), m)) : Flattened(Lists(s), n)[p] = Flattened(Lists(s), m)[p]
  BY <1>1, <1>2, FlattenedPrefix
<1>5. IsList(Flattened(Lists(s), m)) /\ IsList(Flattened(Lists(s), n))
  BY <1>1, <1>2, FlattenedIsList
<1> QED BY <1>3, <1>4, <1>5, ListLength DEF Whole

\* One more generator gives more elements.
LEMMA WholeGoesOn ==
  ASSUME NEW s \in Sets, NEW m \in Nat, m + 1 \in 1 .. Len(s.generators)
  PROVE  /\ Len(Whole(s, m + 1)) = Len(Whole(s, m)) + Len(Given(s.generators[m + 1]))
         /\ IsList(Given(s.generators[m + 1])) /\ Len(Given(s.generators[m + 1])) \in Nat
         /\ \A p \in 1 .. Len(Given(s.generators[m + 1])) :
              Given(s.generators[m + 1])[p] = All(s)[Len(Whole(s, m)) + p]
<1> DEFINE new == Given(s.generators[m + 1])
<1>1. Lists(s)[m + 1] = new /\ IsList(new)
  BY ListsAre
<1>2. Whole(s, m + 1) = Whole(s, m) \o new
  <2> HIDE DEF new
  <2>1. Whole(s, m + 1) = Whole(s, m) \o Lists(s)[m + 1]
    BY <1>1, FlattenedStep DEF Whole
  <2> QED BY <1>1, <2>1
<1>3. m \in 0 .. Len(s.generators) /\ m + 1 \in 0 .. Len(s.generators)
  BY SpecFacts
<1>4. /\ IsList(Whole(s, m)) /\ Len(Whole(s, m)) \in Nat
      /\ \A p \in 1 .. Len(Whole(s, m + 1)) : All(s)[p] = Whole(s, m + 1)[p]
  BY <1>3, WholeIsBegin
<1> HIDE DEF new
<1>5. /\ Len(Whole(s, m) \o new) = Len(Whole(s, m)) + Len(new) /\ Len(new) \in Nat
      /\ \A p \in 1 .. Len(new) : (Whole(s, m) \o new)[Len(Whole(s, m)) + p] = new[p]
  BY <1>1, <1>4, ConcatLists, ListLength
<1>6. Len(Whole(s, m + 1)) = Len(Whole(s, m)) + Len(new)
  BY <1>2, <1>5
<1>7. ASSUME NEW p \in 1 .. Len(new) PROVE new[p] = All(s)[Len(Whole(s, m)) + p]
  <2>1. Len(Whole(s, m)) + p \in 1 .. Len(Whole(s, m + 1))
    BY <1>4, <1>5, <1>6
  <2> QED BY <1>2, <1>4, <1>5, <2>1
<1> QED BY <1>1, <1>5, <1>6, <1>7 DEF new

\* What a template is repeated over is a list, and its resources are as many.
LEMMA RepeatedIsList ==
  ASSUME NEW t, NEW e, Repeatable(e), t.repeat \in DOMAIN e
  PROVE  /\ Repeated(t, e) = Promise!Items(t, e) /\ IsList(Repeated(t, e))
<1>1. Repeated(t, e) = Promise!Items(t, e)
  BY DEF Repeated, Promise!Items
<1>2. IsList(<<>>)
  BY EmptySeq DEF IsList
<1>3. \A x : IsList(<<x>>)
  <2> SUFFICES ASSUME NEW x PROVE IsList(<<x>>)
    OBVIOUS
  <2>1. <<x>> = [i \in 1 .. 1 |-> <<x>>[i]]
    OBVIOUS
  <2> QED BY <2>1, ListIsSequence
<1>4. t.repeat \in ListKeys => e[t.repeat] = Null \/ IsList(e[t.repeat])
  BY DEF Repeatable
<1> QED BY <1>1, <1>2, <1>3, <1>4 DEF Repeated

\* What is bare of an ElementIndex is as long a list, and the parts of two lists
\* that follow each other do.
LEMMA BareIsList ==
  ASSUME NEW r, IsList(r)
  PROVE  IsList(Bare(r)) /\ Len(Bare(r)) = Len(r)
<1>1. DOMAIN r = 1 .. Len(r) /\ Len(r) \in Nat
  BY ListLength
<1> DEFINE b == Bare(r)
<1>2. b = [i \in 1 .. Len(r) |-> b[i]]
  BY <1>1 DEF Bare
<1> HIDE DEF b
<1>3. IsList(b) /\ Len(b) = Len(r)
  BY <1>1, <1>2, ListIsSequence
<1> QED BY <1>3 DEF b

LEMMA BareConcat ==
  ASSUME NEW r, NEW q, IsList(r), IsList(q)
  PROVE  Bare(r \o q) = Bare(r) \o Bare(q)
<1> DEFINE bare(x) == [template |-> x.template, element |-> x.element,
                       repeat |-> x.repeat, value |-> x.value]
<1>1. \A l : Bare(l) = [n \in DOMAIN l |-> bare(l[n])]
  BY DEF Bare
<1>2. /\ IsList(Bare(r)) /\ Len(Bare(r)) = Len(r) /\ IsList(Bare(q)) /\ Len(Bare(q)) = Len(q)
      /\ DOMAIN r = 1 .. Len(r) /\ DOMAIN q = 1 .. Len(q) /\ Len(r) \in Nat /\ Len(q) \in Nat
  BY BareIsList, ListLength
<1> HIDE DEF bare
<1>3. /\ Len(r \o q) = Len(r) + Len(q) /\ DOMAIN (r \o q) = 1 .. Len(r \o q)
      /\ \A i \in 1 .. Len(r) : (r \o q)[i] = r[i]
      /\ \A i \in 1 .. Len(q) : (r \o q)[Len(r) + i] = q[i]
  BY ConcatLists, ListLength
<1> DEFINE both == Bare(r) \o Bare(q)
<1>4. /\ IsList(both) /\ Len(both) = Len(r) + Len(q)
      /\ \A i \in 1 .. Len(r) : both[i] = Bare(r)[i]
      /\ \A i \in 1 .. Len(q) : both[Len(r) + i] = Bare(q)[i]
  BY <1>2, ConcatLists
<1> HIDE DEF both
<1>5. both = [i \in 1 .. Len(r) + Len(q) |-> both[i]]
  BY <1>4, ListLength
<1>6. ASSUME NEW i \in 1 .. Len(r) + Len(q) PROVE both[i] = bare((r \o q)[i])
  <2>1. CASE i <= Len(r)
    <3>1. i \in 1 .. Len(r)
      BY <1>2, <2>1
    <3> QED BY <1>1, <1>2, <1>3, <1>4, <3>1
  <2>2. CASE ~(i <= Len(r))
    <3>1. i - Len(r) \in 1 .. Len(q) /\ Len(r) + (i - Len(r)) = i
      BY <1>2, <2>2
    <3>2. both[i] = Bare(q)[i - Len(r)] /\ (r \o q)[i] = q[i - Len(r)]
      BY <1>3, <1>4, <3>1
    <3> QED BY <1>1, <1>2, <3>1, <3>2
  <2> QED BY <2>1, <2>2
<1>7. Bare(r \o q) = [i \in 1 .. Len(r) + Len(q) |-> bare((r \o q)[i])]
  BY <1>1, <1>3
<1>8. both = Bare(r \o q)
  BY <1>5, <1>6, <1>7
<1> QED BY <1>8 DEF both

LEMMA ResourcesAre ==
  ASSUME NEW t, NEW e, Repeatable(e), NEW ix
  PROVE  /\ Fails(t, e) <=> Promise!CannotRender(t, e)
         /\ ~Fails(t, e) => /\ Bare(Resources(t, e, ix)) = Promise!Resources(t, e)
                            /\ IsList(Resources(t, e, ix)) /\ IsList(Promise!Resources(t, e))
<1>1. CASE t.repeat = NoKey
  <2> DEFINE one == <<[template |-> t, element |-> e, index |-> ix, repeat |-> 0, value |-> NoKey]>>
             only == <<[template |-> t, element |-> e, repeat |-> 0, value |-> NoKey]>>
  <2>1. Resources(t, e, ix) = one
    BY <1>1 DEF Resources
  <2>2. Promise!Resources(t, e) = only /\ Promise!Resources(t, e) # <<>>
    BY <1>1 DEF Promise!Resources
  <2>3. IsList(one)
    <3>1. one = [i \in 1 .. 1 |-> one[i]]
      OBVIOUS
    <3> HIDE DEF one
    <3> QED BY <3>1, ListIsSequence
  <2>4. Bare(one) = only
    <3>1. one = [i \in 1 .. 1 |-> [template |-> t, element |-> e, index |-> ix,
                                   repeat |-> 0, value |-> NoKey]]
      OBVIOUS
    <3>2. only = [i \in 1 .. 1 |-> [template |-> t, element |-> e, repeat |-> 0, value |-> NoKey]]
      OBVIOUS
    <3> HIDE DEF one, only
    <3> QED BY <3>1, <3>2 DEF Bare
  <2>5. Fails(t, e) <=> Promise!CannotRender(t, e)
    BY <1>1, <2>2 DEF Fails, Promise!CannotRender
  <2> HIDE DEF one, only
  <2>6. IsList(only)
    BY <2>3, <2>4, BareIsList
  <2> QED BY <2>1, <2>2, <2>3, <2>4, <2>5, <2>6
<1>2. CASE t.repeat # NoKey /\ t.repeat \notin DOMAIN e
  BY <1>2 DEF Fails, Promise!CannotRender
<1>3. CASE t.repeat # NoKey /\ t.repeat \in DOMAIN e
  <2> DEFINE items == Repeated(t, e)
             of == [i \in DOMAIN items |->
                      [template |-> t, element |-> e, index |-> ix, repeat |-> i, value |-> items[i]]]
             promised == [i \in DOMAIN items |->
                            [template |-> t, element |-> e, repeat |-> i, value |-> items[i]]]
  <2>1. items = Promise!Items(t, e) /\ IsList(items)
    BY <1>3, RepeatedIsList
  <2>2. DOMAIN items = 1 .. Len(items) /\ Len(items) \in Nat /\ (items = <<>> <=> Len(items) = 0)
    BY <2>1, ListLength
  <2>3. Resources(t, e, ix) = of
    BY <1>3 DEF Resources
  <2>4. Promise!Resources(t, e) = promised
    BY <1>3, <2>1 DEF Promise!Resources
  <2>5. IsList(of) /\ Len(of) = Len(items)
    <3> HIDE DEF items
    <3>1. of = [i \in 1 .. Len(items) |-> of[i]]
      BY <2>2
    <3> HIDE DEF of
    <3> QED BY <2>2, <3>1, ListIsSequence
  <2>6. Bare(of) = promised
    <3> HIDE DEF items
    <3> QED BY DEF Bare
  <2> HIDE DEF of, promised, items
  <2>7. IsList(promised) /\ Len(promised) = Len(items)
    BY <2>5, <2>6, BareIsList
  <2>8. Promise!Resources(t, e) # <<>> <=> items # <<>>
    <3>1. promised = <<>> <=> Len(promised) = 0
      BY <2>7, ListLength
    <3> QED BY <2>2, <2>4, <2>7, <3>1
  <2>9. Fails(t, e) <=> Promise!CannotRender(t, e)
    BY <1>3, <2>8 DEF Fails, Promise!CannotRender, items
  <2> QED BY <2>3, <2>4, <2>5, <2>6, <2>7, <2>9
<1> QED BY <1>1, <1>2, <1>3

\* The resources of each element, in order, and those of the first elements.
Of(s, c) == Promise!OfElement(s, All(s)[c + 1])
Blocks(s) == [i \in DOMAIN All(s) |-> FlattenSeq(Promise!OfElement(s, All(s)[i]))]
Complete(s, c) == Flattened(Blocks(s), c)
Partial(s, c, j) == Flattened(Of(s, c), j)

LEMMA NoneRendered ==
  ASSUME NEW s, NEW c
  PROVE  Complete(s, 0) = <<>> /\ Partial(s, c, 0) = <<>>
BY FlattenedNone DEF Complete, Partial

LEMMA PartialGoesOn ==
  ASSUME NEW s \in Sets, NEW c \in Nat, NEW j \in Nat, j + 1 <= Len(s.templates),
         NEW r, r = Promise!Resources(s.templates[j + 1], All(s)[c + 1]), IsList(r)
  PROVE  Partial(s, c, j + 1) = Partial(s, c, j) \o r
<1>1. Len(s.templates) \in Nat
  BY SpecFacts
<1>2. Of(s, c)[j + 1] = r
  <2>1. (j + 1) \in 1 .. Len(s.templates)
    BY <1>1
  <2> QED BY <2>1 DEF Of, Promise!OfElement
<1> QED BY <1>2, FlattenedStep DEF Partial

LEMMA CompleteGoesOn ==
  ASSUME NEW s \in Sets, NEW c \in Nat, c + 1 \in 1 .. Len(All(s)),
         IsList(Partial(s, c, Len(s.templates)))
  PROVE  Complete(s, c + 1) = Complete(s, c) \o Partial(s, c, Len(s.templates))
<1>1. Len(s.templates) \in Nat
  BY SpecFacts
<1>2. DOMAIN All(s) = 1 .. Len(All(s))
  <2>1. Len(s.generators) \in 0 .. Len(s.generators)
    BY SpecFacts
  <2> QED BY <2>1, WholeIsBegin, ListLength
<1>3. Blocks(s)[c + 1] = FlattenSeq(Of(s, c))
  BY <1>2 DEF Blocks, Of
<1>4. Of(s, c) = [j \in 1 .. Len(s.templates) |-> Of(s, c)[j]]
  BY DEF Of, Promise!OfElement
<1>5. FlattenSeq(Of(s, c)) = Partial(s, c, Len(s.templates))
  BY <1>4, Zenon DEF Partial, Flattened
<1> QED BY <1>3, <1>5, FlattenedStep DEF Complete

\* What is promised when something fails, and when nothing does.
Gives(g) == ~g.fails /\ (g.matrix => Generates(g))

LEMMA AllAreList ==
  ASSUME NEW s \in Sets
  PROVE  IsList(All(s)) /\ Len(All(s)) \in Nat /\ DOMAIN All(s) = 1 .. Len(All(s))
<1>1. Len(s.generators) \in 0 .. Len(s.generators)
  BY SpecFacts
<1> QED BY <1>1, WholeIsBegin, ListLength

LEMMA CannotGenerateIs ==
  ASSUME NEW s \in Sets
  PROVE  Promise!CannotGenerate(s) <=> \E i \in 1 .. Len(s.generators) : ~Gives(s.generators[i])
<1>1. DOMAIN s.generators = 1 .. Len(s.generators)
  BY SpecFacts
<1>2. \A i \in 1 .. Len(s.generators) : DOMAIN s.generators[i].nested = 1 .. Len(s.generators[i].nested)
  BY SpecFacts, ListLength DEF SoundMatrix
<1> QED BY <1>1, <1>2 DEF Promise!CannotGenerate, Gives, Generates

LEMMA ResultFails ==
  ASSUME NEW s \in Sets,
         \/ \E i \in 1 .. Len(s.generators) : ~Gives(s.generators[i])
         \/ \E i \in 1 .. Len(All(s)) : \E j \in 1 .. Len(s.templates) :
              Promise!CannotRender(s.templates[j], All(s)[i])
  PROVE  Promise!Result[s] = Promise!Failed
<1>1. Promise!Result[s] = IF Promise!CannotGenerate(s) THEN Promise!Failed ELSE Promise!Rendering(s)
  BY DEF Promise!Result
<1>2. CASE \E i \in 1 .. Len(s.generators) : ~Gives(s.generators[i])
  BY <1>1, <1>2, CannotGenerateIs
<1>3. CASE \E i \in 1 .. Len(All(s)) : \E j \in 1 .. Len(s.templates) :
             Promise!CannotRender(s.templates[j], All(s)[i])
  <2>1. PICK i \in 1 .. Len(All(s)), j \in 1 .. Len(s.templates) :
          Promise!CannotRender(s.templates[j], All(s)[i])
    BY <1>3
  <2>2. i \in DOMAIN Promise!Elements(s) /\ s.templates[j] \in Promise!Range(s.templates)
    <3>1. DOMAIN s.templates = 1 .. Len(s.templates)
      BY SpecFacts
    <3>2. i \in DOMAIN All(s)
      BY AllAreList
    <3> QED BY <3>1, <3>2 DEF All, Promise!Range
  <2>3. Promise!Rendering(s) = Promise!Failed
    BY <2>1, <2>2 DEF Promise!Rendering, All
  <2> QED BY <1>1, <2>3
<1> QED BY <1>2, <1>3

LEMMA ResultIs ==
  ASSUME NEW s \in Sets,
         \A i \in 1 .. Len(s.generators) : Gives(s.generators[i]),
         \A i \in 1 .. Len(All(s)) : \A j \in 1 .. Len(s.templates) :
           ~Promise!CannotRender(s.templates[j], All(s)[i])
  PROVE  Promise!Result[s] = [is |-> "rendered", resources |-> Complete(s, Len(All(s)))]
<1>1. Promise!Result[s] = Promise!Rendering(s)
  BY CannotGenerateIs DEF Promise!Result
<1>2. ~ \E i \in DOMAIN Promise!Elements(s), t \in Promise!Range(s.templates) :
           Promise!CannotRender(t, Promise!Elements(s)[i])
  <2>1. DOMAIN All(s) = 1 .. Len(All(s)) /\ DOMAIN s.templates = 1 .. Len(s.templates)
    BY AllAreList, SpecFacts
  <2> QED BY <2>1 DEF All, Promise!Range
<1> DEFINE resources == Promise!FlattenSeq([i \in DOMAIN All(s) |->
                                              Promise!FlattenSeq(Promise!OfElement(s, All(s)[i]))])
<1>3. Promise!Rendering(s) = [is |-> "rendered", resources |-> resources]
  BY <1>2 DEF Promise!Rendering, All
<1>4. resources = Complete(s, Len(All(s)))
  <2>1. \A x : Promise!FlattenSeq(x) = FlattenSeq(x)
    BY SameOperators, Zenon
  <2>2. [i \in DOMAIN All(s) |-> Promise!FlattenSeq(Promise!OfElement(s, All(s)[i]))] = Blocks(s)
    BY <2>1 DEF Blocks
  <2>3. Blocks(s) = [i \in 1 .. Len(All(s)) |-> Blocks(s)[i]]
    BY AllAreList DEF Blocks
  <2>4. resources = FlattenSeq(Blocks(s))
    BY <2>1, <2>2, Zenon
  <2> QED BY <2>3, <2>4, Zenon DEF Complete, Flattened
<1> QED BY <1>1, <1>3, <1>4

-----------------------------------------------------------------------------
(* What Render did so far. *)

\* How many generators were called, and how many of them gave their elements.
Called == Len(set.generators) - Len(generators)
Rendered == IF stage = "matrix" THEN Called - 1 ELSE Called

\* How many elements all templates were rendered for.
Past == Len(Whole(set, Rendered)) - Len(params)

\* The generators asked so far are the first of the set, and gave their elements.
Renders ==
  /\ IsRest(generators, set.generators, Called) /\ Rendered \in Nat
  /\ \A i \in 1 .. Rendered : Gives(set.generators[i])
  /\ stage # "templates" => params = <<>>

\* The matrix being asked is the generator called last.
RendersMatrix ==
  stage = "matrix" =>
    /\ Called \in 1 .. Len(set.generators)
    /\ set.generators[Called].matrix /\ ~set.generators[Called].fails
    /\ Collects(set.generators[Called]) /\ Makes(set.generators[Called])

\* The elements that are left, and the template that is next.
Goes ==
  /\ IsList(params) /\ Past \in Nat
  /\ \A p \in 1 .. Len(params) : params[p] = All(set)[Past + p] /\ Repeatable(params[p])
  /\ params = <<>> => template = 1
  /\ template \in 1 .. Len(set.templates) + 1

\* The resources are those of what is past, and nothing of that failed.
Gave ==
  /\ IsList(Complete(set, Past)) /\ IsList(Partial(set, Past, template - 1))
  /\ IsList(rendered) /\ Bare(rendered) = Complete(set, Past) \o Partial(set, Past, template - 1)
  /\ \A i \in 1 .. Past : \A j \in 1 .. Len(set.templates) :
       ~Promise!CannotRender(set.templates[j], All(set)[i])
  /\ \A j \in 1 .. template - 1 : ~Promise!CannotRender(set.templates[j], All(set)[Past + 1])

\* What is done so far is what is promised so far: the inductive invariant.
SoFar == IF stage \in {"done", "failed"} THEN Promise!Result[set] = Outcome
         ELSE Renders /\ RendersMatrix /\ Goes /\ Gave

LEMMA InitSoFar == Init => SoFar
<1> SUFFICES ASSUME Init PROVE SoFar
  OBVIOUS
<1>1. /\ set \in Sets /\ generators = set.generators /\ params = <<>> /\ template = 1
      /\ index = 0 /\ rendered = <<>> /\ stage = "generators"
  BY DEF Init
<1>2. /\ IsList(set.generators) /\ Len(set.generators) \in Nat
      /\ Len(set.templates) \in Nat /\ IsList(<<>>) /\ Len(<<>>) = 0
  BY <1>1, SpecFacts, EmptySeq DEF IsList
<1>3. Called = 0 /\ Rendered = 0
  BY <1>1, <1>2 DEF Called, Rendered
<1>4. Whole(set, Rendered) = <<>>
  BY <1>3, FlattenedNone DEF Whole
<1>5. Past = 0
  BY <1>1, <1>2, <1>4 DEF Past
<1>6. Renders
  BY <1>1, <1>2, <1>3, RestOfAll DEF Renders
<1>7. RendersMatrix
  BY <1>1 DEF RendersMatrix
<1>8. Goes
  BY <1>1, <1>2, <1>5 DEF Goes
<1>9. Gave
  <2>1. Complete(set, Past) = <<>> /\ Partial(set, Past, template - 1) = <<>>
    <3>1. template - 1 = 0
      BY <1>1
    <3> QED BY <1>5, <3>1, NoneRendered
  <2>2. <<>> \o <<>> = <<>>
    BY <1>2, ConcatNothing
  <2>3. Bare(<<>>) = <<>>
    BY DEF Bare
  <2>4. /\ IsList(Complete(set, Past)) /\ IsList(Partial(set, Past, template - 1)) /\ IsList(rendered)
        /\ Bare(rendered) = Complete(set, Past) \o Partial(set, Past, template - 1)
    BY <1>1, <1>2, <2>1, <2>2, <2>3
  <2>5. \A i \in 1 .. Past : FALSE
    BY <1>5
  <2>6. \A i \in 1 .. template - 1 : FALSE
    BY <1>1
  <2> QED BY <2>4, <2>5, <2>6, Zenon DEF Gave
<1> QED BY <1>1, <1>6, <1>7, <1>8, <1>9 DEF SoFar

\* What does not change when neither the elements nor the resources do.
LEMMA KeepsGoing ==
  ASSUME Goes, Gave, UNCHANGED <<set, params, template, index, rendered>>, Rendered' = Rendered
  PROVE  Goes' /\ Gave'
<1>1. Past' = Past
  BY DEF Past
<1> HIDE DEF Past
<1> QED BY <1>1 DEF Goes, Gave

\* The elements of one more generator.
LEMMA NewElements ==
  ASSUME TypeOK, Goes, Gave, params = <<>>, Rendered \in Nat,
         Rendered + 1 \in 1 .. Len(set.generators), Rendered' = Rendered + 1,
         params' = Given(set.generators[Rendered + 1]),
         \A p \in 1 .. Len(params') : Repeatable(params'[p]),
         template' = 1, UNCHANGED <<set, index, rendered>>
  PROVE  Goes' /\ Gave'
<1>1. set \in Sets /\ Len(set.templates) \in Nat
  BY SpecFacts DEF TypeOK
<1> DEFINE m == Rendered
           new == Given(set.generators[Rendered + 1])
<1>2. /\ Len(Whole(set, m + 1)) = Len(Whole(set, m)) + Len(new)
      /\ IsList(new) /\ Len(new) \in Nat
      /\ \A p \in 1 .. Len(new) : new[p] = All(set)[Len(Whole(set, m)) + p]
  BY <1>1, WholeGoesOn
<1>3. Len(params) = 0 /\ Past = Len(Whole(set, m)) - Len(params) /\ Past \in Nat
  BY EmptySeq DEF Past, Goes
<1>4. Len(Whole(set, m)) \in Nat
  <2>1. m \in 0 .. Len(set.generators)
    <3>1. Len(set.generators) \in Nat
      BY <1>1, SpecFacts
    <3> HIDE DEF Rendered
    <3> QED BY <3>1
  <2> QED BY <1>1, <2>1, WholeIsBegin
<1>5. Past = Len(Whole(set, m))
  BY <1>3, <1>4
<1>6. Past' = Past
  <2>1. Past' = Len(Whole(set, m + 1)) - Len(new)
    BY DEF Past
  <2> HIDE DEF m, new, Past
  <2> QED BY <1>2, <1>4, <1>5, <2>1
<1>7. template = 1
  BY DEF Goes
<1> HIDE DEF m, new, Past
<1>8. Goes'
  <2>1. IsList(params') /\ \A p \in 1 .. Len(params') : params'[p] = All(set)[Past + p]
    BY <1>2, <1>5 DEF new
  <2>2. 1 \in 1 .. Len(set.templates) + 1
    BY <1>1
  <2> QED BY <1>6, <1>7, <2>1, <2>2 DEF Goes
<1>9. Gave'
  BY <1>6, <1>7 DEF Gave
<1> QED BY <1>8, <1>9

\* The generator that is called next.
LEMMA NextCalled ==
  ASSUME Renders, generators # <<>>
  PROVE  /\ Called + 1 \in 1 .. Len(set.generators) /\ Called \in Nat
         /\ Head(generators) = set.generators[Called + 1]
         /\ IsRest(Tail(generators), set.generators, Called + 1)
         /\ generators' = Tail(generators) /\ set' = set => Called' = Called + 1
<1>1. IsRest(generators, set.generators, Called) /\ Called \in Nat
  BY DEF Renders, IsRest
<1>2. /\ Called + 1 \in 1 .. Len(set.generators) /\ Head(generators) = set.generators[Called + 1]
      /\ IsRest(Tail(generators), set.generators, Called + 1)
      /\ Len(Tail(generators)) = Len(generators) - 1
  BY <1>1, RestHead, Zenon
<1>3. generators' = Tail(generators) /\ set' = set => Called' = Called + 1
  <2> SUFFICES ASSUME generators' = Tail(generators), set' = set PROVE Called' = Called + 1
    OBVIOUS
  <2>1. Called' = Len(set.generators) - (Len(generators) - 1)
    BY <1>2 DEF Called
  <2>2. Len(generators) \in Nat /\ Called + Len(generators) = Len(set.generators)
    BY <1>1, ListLength DEF IsRest
  <2>3. Called = Len(set.generators) - Len(generators)
    BY DEF Called
  <2>4. Len(set.generators) \in Nat
    <3> HIDE DEF Called
    <3> QED BY <1>1, <2>2
  <2> HIDE DEF Called
  <2> QED BY <2>1, <2>2, <2>3, <2>4
<1> QED BY <1>1, <1>2, <1>3

\* One more generator has given its elements.
LEMMA OneMore ==
  ASSUME NEW m \in Nat, \A i \in 1 .. m : Gives(set.generators[i]), Gives(set.generators[m + 1])
  PROVE  \A i \in 1 .. m + 1 : Gives(set.generators[i])
<1>1. \A i \in 1 .. m + 1 : i \in 1 .. m \/ i = m + 1
  OBVIOUS
<1> QED BY <1>1, Zenon

LEMMA GenerateSoFar ==
  ASSUME TypeOK, Renders, RendersMatrix, Goes, Gave, Generate
  PROVE  SoFar'
<1>1. /\ stage = "generators" /\ generators # <<>>
      /\ ~Head(generators).matrix /\ ~Head(generators).fails
      /\ generators' = Tail(generators) /\ params' = Head(generators).elements
      /\ template' = 1 /\ stage' = "templates" /\ UNCHANGED <<matrixVars, set, index, rendered>>
  BY DEF Generate
<1> DEFINE m == Called
<1>2. /\ m + 1 \in 1 .. Len(set.generators) /\ m \in Nat
      /\ Head(generators) = set.generators[m + 1]
      /\ IsRest(generators', set.generators, m + 1) /\ Called' = m + 1
  BY <1>1, NextCalled
<1>3. Rendered = m /\ Rendered' = m + 1 /\ params = <<>>
  BY <1>1, <1>2 DEF Rendered, Renders
<1>4. /\ params' = Given(set.generators[m + 1])
      /\ \A p \in 1 .. Len(params') : Repeatable(params'[p])
  <2>1. /\ set \in Sets
        /\ params' = set.generators[m + 1].elements /\ ~set.generators[m + 1].matrix
    BY <1>1, <1>2 DEF TypeOK
  <2>2. \A p \in 1 .. Len(params') : IsElement(params'[p])
    BY <1>2, <2>1, SpecFacts
  <2> QED BY <2>1, <2>2, ElementsAreRepeatable DEF Given
<1> HIDE DEF m
<1>5. Goes' /\ Gave'
  BY <1>1, <1>2, <1>3, <1>4, NewElements
<1>6. Renders'
  <2>1. \A i \in 1 .. m : Gives(set.generators[i])
    BY <1>3 DEF Renders
  <2>2. Gives(set.generators[m + 1])
    BY <1>1, <1>2 DEF Gives
  <2>3. \A i \in 1 .. m + 1 : Gives(set.generators[i])
    BY <1>2, <2>1, <2>2, OneMore
  <2> QED BY <1>1, <1>2, <1>3, <2>3 DEF Renders
<1>7. RendersMatrix'
  BY <1>1 DEF RendersMatrix
<1> QED BY <1>1, <1>5, <1>6, <1>7 DEF SoFar

LEMMA GenerateFailsSoFar ==
  ASSUME TypeOK, Renders, GenerateFails
  PROVE  SoFar'
<1>1. Called + 1 \in 1 .. Len(set.generators) /\ Head(generators) = set.generators[Called + 1]
  BY NextCalled DEF GenerateFails
<1>2. ~Gives(set.generators[Called + 1])
  BY <1>1 DEF GenerateFails, Gives
<1> HIDE DEF Called
<1>3. Promise!Result[set] = Promise!Failed
  BY <1>1, <1>2, ResultFails DEF TypeOK
<1> QED BY <1>3 DEF GenerateFails, SoFar, Outcome, Promise!Failed

LEMMA NextGeneratorSoFar ==
  ASSUME TypeOK, Renders, RendersMatrix, Goes, Gave, NextGenerator
  PROVE  SoFar'
<1>1. /\ stage = "templates" /\ params = <<>> /\ stage' = "generators"
      /\ UNCHANGED <<matrixVars, set, generators, params, template, index, rendered>>
  BY DEF NextGenerator
<1>2. Rendered' = Rendered /\ Called' = Called
  BY <1>1 DEF Rendered, Called
<1>3. Goes' /\ Gave'
  BY <1>1, <1>2, KeepsGoing
<1>4. Renders'
  BY <1>1, <1>2 DEF Renders
<1>5. RendersMatrix'
  BY <1>1 DEF RendersMatrix
<1> QED BY <1>1, <1>3, <1>4, <1>5 DEF SoFar

LEMMA FinishSoFar ==
  ASSUME TypeOK, Renders, Goes, Gave, Finish
  PROVE  SoFar'
<1>1. /\ stage = "generators" /\ generators = <<>> /\ stage' = "done"
      /\ UNCHANGED <<matrixVars, set, generators, params, template, index, rendered>>
  BY DEF Finish
<1>2. set \in Sets
  BY DEF TypeOK
<1>3. Called = Len(set.generators) /\ Rendered = Called /\ params = <<>>
  <2>1. Called = Len(set.generators)
    BY <1>1, RestNone, Zenon DEF Renders
  <2> QED BY <1>1, <2>1 DEF Rendered, Renders
<1>4. Past = Len(All(set)) /\ Len(All(set)) \in Nat
  <2>1. Whole(set, Rendered) = All(set)
    BY <1>2, <1>3, ListsAre
  <2>2. Len(params) = 0
    BY <1>3, EmptySeq
  <2>3. Len(All(set)) \in Nat
    BY <1>2, AllAreList
  <2> QED BY <2>1, <2>2, <2>3 DEF Past
<1>5. Bare(rendered) = Complete(set, Past)
  <2>1. template = 1
    BY <1>3 DEF Goes
  <2>2. template - 1 = 0
    BY <2>1
  <2>3. Partial(set, Past, template - 1) = <<>>
    BY <2>2, NoneRendered
  <2> QED BY <2>3, ConcatNothing DEF Gave
<1>6. \A i \in 1 .. Len(set.generators) : Gives(set.generators[i])
  BY <1>3 DEF Renders
<1>7. \A i \in 1 .. Len(All(set)) : \A j \in 1 .. Len(set.templates) :
        ~Promise!CannotRender(set.templates[j], All(set)[i])
  BY <1>4 DEF Gave
<1>8. Promise!Result[set] = [is |-> "rendered", resources |-> Bare(rendered)]
  BY <1>2, <1>4, <1>5, <1>6, <1>7, ResultIs
<1> QED BY <1>1, <1>8 DEF SoFar, Outcome

LEMMA CallMatrixSoFar ==
  ASSUME TypeOK, Renders, Goes, Gave, CallMatrix
  PROVE  SoFar'
<1>1. /\ stage = "generators" /\ generators # <<>> /\ Head(generators).matrix
      /\ ~Head(generators).fails /\ Start(Head(generators))
      /\ generators' = Tail(generators) /\ stage' = "matrix"
      /\ UNCHANGED <<set, params, template, index, rendered>>
  BY DEF CallMatrix
<1> DEFINE m == Called
<1>2. /\ m + 1 \in 1 .. Len(set.generators) /\ m \in Nat
      /\ Head(generators) = set.generators[m + 1]
      /\ IsRest(generators', set.generators, m + 1) /\ Called' = m + 1
  BY <1>1, NextCalled
<1>3. Rendered = m /\ Rendered' = m /\ params = <<>>
  BY <1>1, <1>2 DEF Rendered, Renders
<1> HIDE DEF m
<1>4. Goes' /\ Gave'
  BY <1>1, <1>3, KeepsGoing
<1>5. Renders'
  BY <1>1, <1>2, <1>3 DEF Renders
<1>6. PICK g : g = set.generators[m + 1]
  OBVIOUS
<1>7. SoundMatrix(g)
  BY <1>2, <1>6, SpecFacts DEF TypeOK
<1>8. Collects(g)' /\ Makes(g)'
  BY <1>1, <1>2, <1>6, <1>7, StartCollects
<1>9. g = set'.generators[Called']
  BY <1>1, <1>2, <1>6
<1>10. RendersMatrix'
  <2>1. Called' \in 1 .. Len(set'.generators) /\ g.matrix /\ ~g.fails
    BY <1>1, <1>2, <1>6
  <2> QED BY <1>8, <1>9, <2>1 DEF RendersMatrix
<1> QED BY <1>1, <1>4, <1>5, <1>10 DEF SoFar

\* The matrix that is called.
LEMMA CalledMatrix ==
  ASSUME TypeOK, Renders, RendersMatrix, stage = "matrix"
  PROVE  \E g : /\ g = set.generators[Called] /\ Called \in 1 .. Len(set.generators)
                /\ g \in Range(set.generators) /\ SoundMatrix(g) /\ g.matrix /\ ~g.fails
                /\ Collects(g) /\ Makes(g)
<1>1. PICK g : g = set.generators[Called]
  OBVIOUS
<1>2. Called \in 1 .. Len(set.generators)
  BY DEF RendersMatrix
<1>3. g \in Range(set.generators) /\ SoundMatrix(g)
  BY <1>1, <1>2, SpecFacts DEF TypeOK
<1> QED BY <1>1, <1>2, <1>3 DEF RendersMatrix

LEMMA InMatrixSoFar ==
  ASSUME NoneShared, TypeOK, Renders, RendersMatrix, Goes, Gave, InMatrix
  PROVE  SoFar'
<1>1. stage = "matrix" /\ MatrixStep /\ UNCHANGED renderVars
  BY DEF InMatrix
<1>2. PICK g : /\ g = set.generators[Called] /\ Called \in 1 .. Len(set.generators)
               /\ g \in Range(set.generators) /\ SoundMatrix(g) /\ g.matrix /\ ~g.fails
               /\ Collects(g) /\ Makes(g)
  BY <1>1, CalledMatrix
<1>3. Unshared(g)
  BY <1>2 DEF NoneShared, TypeOK
<1>4. Collects(g)' /\ Makes(g)'
  BY <1>1, <1>2, <1>3, MatrixGoesOn
<1>5. UNCHANGED <<set, generators, params, template, index, rendered, stage>>
  BY <1>1 DEF renderVars
<1>6. Called' = Called /\ Rendered' = Rendered
  BY <1>5 DEF Called, Rendered
<1>7. Goes' /\ Gave'
  BY <1>5, <1>6, KeepsGoing
<1>8. Renders'
  BY <1>5, <1>6 DEF Renders
<1>9. RendersMatrix'
  <2>1. g = set'.generators[Called'] /\ Called' \in 1 .. Len(set'.generators) /\ g.matrix /\ ~g.fails
    BY <1>2, <1>5, <1>6
  <2> QED BY <1>4, <2>1 DEF RendersMatrix
<1> QED BY <1>1, <1>5, <1>7, <1>8, <1>9 DEF SoFar

LEMMA MatrixReturnsSoFar ==
  ASSUME TypeOK, Renders, RendersMatrix, Goes, Gave, MatrixReturns
  PROVE  SoFar'
<1>1. /\ stage = "matrix" /\ phase = "done"
      /\ params' = Returned /\ template' = 1 /\ stage' = "templates"
      /\ UNCHANGED <<set, generators, index, rendered>>
  BY DEF MatrixReturns
<1>2. PICK g : /\ g = set.generators[Called] /\ Called \in 1 .. Len(set.generators)
               /\ g \in Range(set.generators) /\ SoundMatrix(g) /\ g.matrix /\ ~g.fails
               /\ Collects(g) /\ Makes(g)
  BY <1>1, CalledMatrix
<1>3. /\ Generates(g) /\ Returned = Promise!MatrixElements(g)
      /\ \A i \in 1 .. Len(Returned) : Repeatable(Returned[i])
  BY <1>1, <1>2 DEF Makes
<1>4. Called' = Called
  BY <1>1 DEF Called
<1> DEFINE m == Rendered
<1>5. m = Called - 1 /\ Rendered' = Called /\ params = <<>> /\ m \in Nat
  BY <1>1, <1>4 DEF Rendered, Renders
<1>6. Called = m + 1
  <2> HIDE DEF m, Called
  <2> QED BY <1>2, <1>5
<1> HIDE DEF m
<1>7. /\ params' = Given(set.generators[m + 1])
      /\ \A p \in 1 .. Len(params') : Repeatable(params'[p])
  BY <1>1, <1>2, <1>3, <1>6 DEF Given
<1>8. Goes' /\ Gave'
  <2>1. Rendered \in Nat /\ Rendered' = Rendered + 1 /\ Rendered + 1 \in 1 .. Len(set.generators)
    BY <1>2, <1>5, <1>6 DEF m
  <2>2. params' = Given(set.generators[Rendered + 1])
    BY <1>7 DEF m
  <2> QED BY <1>1, <1>5, <1>7, <2>1, <2>2, NewElements
<1>9. Renders'
  <2>1. \A i \in 1 .. m : Gives(set.generators[i])
    BY DEF Renders, m
  <2>2. Gives(set.generators[m + 1])
    BY <1>2, <1>3, <1>6 DEF Gives
  <2>3. \A i \in 1 .. m + 1 : Gives(set.generators[i])
    BY <1>5, <2>1, <2>2, OneMore
  <2>4. IsRest(generators', set'.generators, Called')
    BY <1>1, <1>4 DEF Renders
  <2>5. Rendered' \in Nat /\ \A i \in 1 .. Rendered' : Gives(set'.generators[i])
    BY <1>1, <1>5, <1>6, <2>3
  <2> QED BY <1>1, <2>4, <2>5 DEF Renders
<1>10. RendersMatrix'
  BY <1>1 DEF RendersMatrix
<1> QED BY <1>1, <1>8, <1>9, <1>10 DEF SoFar

LEMMA MatrixFailsSoFar ==
  ASSUME TypeOK, Renders, RendersMatrix, MatrixFails
  PROVE  SoFar'
<1>1. /\ stage = "matrix" /\ phase = "failed" /\ stage' = "failed" /\ set' = set
  BY DEF MatrixFails
<1>2. PICK g : /\ g = set.generators[Called] /\ Called \in 1 .. Len(set.generators)
               /\ g.matrix /\ Makes(g)
  BY <1>1, CalledMatrix
<1>3. ~Gives(set.generators[Called])
  BY <1>1, <1>2 DEF Makes, Gives
<1> HIDE DEF Called
<1>4. Promise!Result[set] = Promise!Failed
  BY <1>2, <1>3, ResultFails DEF TypeOK
<1> QED BY <1>1, <1>4 DEF SoFar, Outcome, Promise!Failed

\* The element whose templates are rendered.
LEMMA NowRendered ==
  ASSUME TypeOK, Renders, Goes, Rendering
  PROVE  /\ Past \in Nat /\ Past + 1 \in 1 .. Len(All(set))
         /\ Head(params) = All(set)[Past + 1] /\ Repeatable(Head(params))
         /\ IsList(Tail(params)) /\ Len(Tail(params)) = Len(params) - 1 /\ Len(params) \in Nat
         /\ \A p \in 1 .. Len(Tail(params)) :
              Tail(params)[p] = All(set)[(Past + 1) + p] /\ Repeatable(Tail(params)[p])
<1>1. set \in Sets /\ stage = "templates" /\ params # <<>>
  BY DEF TypeOK, Rendering
<1>2. /\ IsList(params) /\ Past \in Nat /\ Len(params) \in Nat /\ Len(params) # 0
      /\ \A p \in 1 .. Len(params) : params[p] = All(set)[Past + p] /\ Repeatable(params[p])
  BY <1>1, ListLength DEF Goes
<1>3. Rendered \in 0 .. Len(set.generators)
  <2>1. Rendered = Called /\ IsRest(generators, set.generators, Called)
    BY <1>1 DEF Rendered, Renders
  <2>2. Called \in Nat /\ Called + Len(generators) = Len(set.generators) /\ Len(generators) \in Nat
    BY <2>1, ListLength DEF IsRest
  <2> HIDE DEF Called, Rendered
  <2> QED BY <2>1, <2>2
<1>4. Len(Whole(set, Rendered)) \in Nat /\ Len(Whole(set, Rendered)) <= Len(All(set)) /\ Len(All(set)) \in Nat
  BY <1>1, <1>3, WholeIsBegin
<1>5. Past + Len(params) = Len(Whole(set, Rendered))
  BY <1>2, <1>4 DEF Past
<1> HIDE DEF Past
<1>6. Past + 1 \in 1 .. Len(All(set))
  BY <1>2, <1>4, <1>5
<1>7. IsRest(params, params, 0)
  BY <1>2, RestOfAll
<1>8. /\ Head(params) = params[1] /\ Len(Tail(params)) = Len(params) - 1
      /\ IsRest(Tail(params), params, 1)
  <2>1. 0 + 1 = 1
    OBVIOUS
  <2>2. /\ Head(params) = params[0 + 1] /\ Len(Tail(params)) = Len(params) - 1
        /\ IsRest(Tail(params), params, 0 + 1)
    BY <1>1, <1>7, RestHead
  <2> QED BY <2>1, <2>2
<1>9. 1 \in 1 .. Len(params)
  BY <1>2
<1>10. ASSUME NEW p \in 1 .. Len(Tail(params))
       PROVE  Tail(params)[p] = All(set)[(Past + 1) + p] /\ Repeatable(Tail(params)[p])
  <2>1. 1 + p \in 1 .. Len(params) /\ Past + (1 + p) = (Past + 1) + p
    BY <1>2, <1>8
  <2>2. Tail(params)[p] = params[1 + p]
    BY <1>8 DEF IsRest
  <2> QED BY <1>2, <2>1, <2>2
<1> QED BY <1>2, <1>6, <1>8, <1>9, <1>10 DEF IsRest

LEMMA TemplateFailsSoFar ==
  ASSUME TypeOK, Renders, Goes, TemplateFails
  PROVE  SoFar'
<1>1. /\ Rendering /\ template <= Len(set.templates) /\ stage' = "failed" /\ set' = set
      /\ Fails(set.templates[template], Head(params))
  BY DEF TemplateFails
<1>2. Past + 1 \in 1 .. Len(All(set)) /\ Head(params) = All(set)[Past + 1] /\ Repeatable(Head(params))
  BY <1>1, NowRendered
<1>3. set \in Sets /\ template \in 1 .. Len(set.templates)
  BY <1>1, SpecFacts DEF TypeOK
<1>4. Promise!CannotRender(set.templates[template], All(set)[Past + 1])
  BY <1>1, <1>2, ResourcesAre
<1> HIDE DEF Past
<1>5. Promise!Result[set] = Promise!Failed
  BY <1>2, <1>3, <1>4, ResultFails
<1> QED BY <1>1, <1>5 DEF SoFar, Outcome, Promise!Failed

LEMMA RenderTemplateSoFar ==
  ASSUME TypeOK, Renders, Goes, Gave, RenderTemplate
  PROVE  SoFar'
<1>1. /\ Rendering /\ stage = "templates" /\ params # <<>> /\ template <= Len(set.templates)
      /\ ~Fails(set.templates[template], Head(params))
      /\ rendered' = rendered \o Resources(set.templates[template], Head(params), index)
      /\ index' = index + 1 /\ template' = template + 1
      /\ UNCHANGED <<matrixVars, set, generators, params, stage>>
  BY DEF RenderTemplate, Rendering
<1>2. /\ Past \in Nat /\ Head(params) = All(set)[Past + 1] /\ Repeatable(Head(params))
  BY <1>1, NowRendered
<1>3. set \in Sets /\ template \in 1 .. Len(set.templates) /\ Len(set.templates) \in Nat
  BY <1>1, SpecFacts DEF TypeOK
<1>4. Called' = Called /\ Rendered' = Rendered /\ Past' = Past
  BY <1>1 DEF Called, Rendered, Past
<1> DEFINE n == Len(set.templates)
           j == template - 1
           t == set.templates[template]
           e == All(set)[Past + 1]
           r == Resources(t, e, index)
<1>5. /\ j \in Nat /\ j + 1 = template /\ j + 1 <= n
      /\ template' - 1 = j + 1
  BY <1>1, <1>3
<1> HIDE DEF Past
<1>6. /\ Bare(r) = Promise!Resources(t, e) /\ IsList(r) /\ IsList(Promise!Resources(t, e))
      /\ ~Promise!CannotRender(t, e)
  BY <1>1, <1>2, ResourcesAre
<1>7. IsList(Bare(r))
  BY <1>6
<1>8. Partial(set, Past, j + 1) = Partial(set, Past, j) \o Bare(r)
  <2>1. Bare(r) = Promise!Resources(set.templates[j + 1], All(set)[Past + 1])
    BY <1>5, <1>6
  <2> HIDE DEF j, r
  <2>2. j \in Nat /\ j + 1 <= Len(set.templates) /\ Past \in Nat /\ set \in Sets /\ IsList(Bare(r))
    BY <1>2, <1>3, <1>5, <1>7, Zenon
  <2> QED BY <2>1, <2>2, PartialGoesOn, Zenon
<1>9. /\ IsList(Complete(set, Past)) /\ IsList(Partial(set, Past, j))
      /\ IsList(rendered) /\ Bare(rendered) = Complete(set, Past) \o Partial(set, Past, j)
  BY DEF Gave
<1>10. IsList(rendered') /\ Bare(rendered') = Bare(rendered) \o Bare(r)
  <2>1. rendered' = rendered \o r
    BY <1>1, <1>2
  <2> HIDE DEF r
  <2>2. IsList(rendered \o r) /\ Bare(rendered \o r) = Bare(rendered) \o Bare(r)
    BY <1>6, <1>9, ConcatLists, BareConcat, Zenon
  <2> QED BY <2>1, <2>2
<1> DEFINE b == Bare(r)
<1> HIDE DEF b
<1>11. /\ IsList(Partial(set, Past, j + 1))
       /\ Bare(rendered') = Complete(set, Past) \o Partial(set, Past, j + 1)
  <2> HIDE DEF j
  <2>1. IsList(b) /\ Partial(set, Past, j + 1) = Partial(set, Past, j) \o b
        /\ Bare(rendered') = Bare(rendered) \o b
    BY <1>7, <1>8, <1>10, Zenon DEF b
  <2> HIDE DEF r
  <2>2. IsList(Partial(set, Past, j) \o b)
    BY <1>9, <2>1, ConcatLists, Zenon
  <2>3. (Complete(set, Past) \o Partial(set, Past, j)) \o b
        = Complete(set, Past) \o (Partial(set, Past, j) \o b)
    BY <1>9, <2>1, ConcatRegroups
  <2> QED BY <1>9, <2>1, <2>2, <2>3
<1>12. \A i \in 1 .. j + 1 : ~Promise!CannotRender(set.templates[i], e)
  <2>1. \A i \in 1 .. j : ~Promise!CannotRender(set.templates[i], e)
    BY DEF Gave
  <2>2. \A i \in 1 .. j + 1 : i \in 1 .. j \/ i = template
    BY <1>5
  <2> HIDE DEF j
  <2> QED BY <1>6, <2>1, <2>2
<1> HIDE DEF j, t, e, r
<1>13. Gave'
  <2>1. /\ IsList(Complete(set', Past')) /\ IsList(Partial(set', Past', template' - 1))
        /\ IsList(rendered')
        /\ Bare(rendered') = Complete(set', Past') \o Partial(set', Past', template' - 1)
    BY <1>1, <1>4, <1>5, <1>9, <1>10, <1>11
  <2>2. \A i \in 1 .. Past' : \A k \in 1 .. Len(set'.templates) :
          ~Promise!CannotRender(set'.templates[k], All(set')[i])
    BY <1>1, <1>4 DEF Gave
  <2>3. \A k \in 1 .. template' - 1 : ~Promise!CannotRender(set'.templates[k], All(set')[Past' + 1])
    BY <1>1, <1>4, <1>5, <1>12 DEF e
  <2> QED BY <2>1, <2>2, <2>3 DEF Gave
<1>14. Goes'
  <2>1. template' \in 1 .. Len(set'.templates) + 1
    BY <1>1, <1>3
  <2>2. /\ IsList(params') /\ Past' \in Nat /\ params' # <<>>
        /\ \A p \in 1 .. Len(params') : params'[p] = All(set')[Past' + p] /\ Repeatable(params'[p])
    BY <1>1, <1>4 DEF Goes
  <2> QED BY <2>1, <2>2 DEF Goes
<1>15. Renders'
  BY <1>1, <1>4 DEF Renders
<1>16. RendersMatrix'
  BY <1>1 DEF RendersMatrix
<1> QED BY <1>1, <1>13, <1>14, <1>15, <1>16 DEF SoFar

LEMMA NextElementSoFar ==
  ASSUME TypeOK, Renders, Goes, Gave, NextElement
  PROVE  SoFar'
<1>1. /\ Rendering /\ stage = "templates" /\ template > Len(set.templates)
      /\ params' = Tail(params) /\ template' = 1
      /\ UNCHANGED <<matrixVars, set, generators, index, rendered, stage>>
  BY DEF NextElement, Rendering
<1>2. /\ Past \in Nat /\ Past + 1 \in 1 .. Len(All(set))
      /\ IsList(Tail(params)) /\ Len(Tail(params)) = Len(params) - 1 /\ Len(params) \in Nat
      /\ \A p \in 1 .. Len(Tail(params)) :
           Tail(params)[p] = All(set)[(Past + 1) + p] /\ Repeatable(Tail(params)[p])
  BY <1>1, NowRendered
<1> DEFINE n == Len(set.templates)
<1>3. set \in Sets /\ n \in Nat /\ template = n + 1
  <2>1. set \in Sets /\ n \in Nat
    BY SpecFacts DEF TypeOK
  <2>2. template \in 1 .. n + 1
    BY DEF Goes
  <2> QED BY <1>1, <2>1, <2>2
<1>4. Called' = Called /\ Rendered' = Rendered
  BY <1>1 DEF Called, Rendered
<1>5. Past' = Past + 1
  <2>1. Past' = Len(Whole(set, Rendered)) - (Len(params) - 1)
    BY <1>1, <1>2, <1>4 DEF Past
  <2>2. Past = Len(Whole(set, Rendered)) - Len(params)
    BY DEF Past
  <2>3. Len(Whole(set, Rendered)) \in Nat
    <3>1. Rendered \in 0 .. Len(set.generators)
      <4>1. Rendered = Called /\ IsRest(generators, set.generators, Called)
        BY <1>1 DEF Rendered, Renders
      <4>2. Called \in Nat /\ Called + Len(generators) = Len(set.generators) /\ Len(generators) \in Nat
        BY <4>1, ListLength DEF IsRest
      <4> HIDE DEF Called, Rendered
      <4> QED BY <4>1, <4>2
    <3> QED BY <1>3, <3>1, WholeIsBegin
  <2> HIDE DEF Past, Rendered
  <2> QED BY <1>2, <2>1, <2>2, <2>3
<1> HIDE DEF Past
<1>6. template - 1 = n
  <2> HIDE DEF n
  <2> QED BY <1>3
<1>7. /\ IsList(Complete(set, Past)) /\ IsList(Partial(set, Past, n))
      /\ IsList(rendered) /\ Bare(rendered) = Complete(set, Past) \o Partial(set, Past, n)
      /\ \A i \in 1 .. Past : \A j \in 1 .. n : ~Promise!CannotRender(set.templates[j], All(set)[i])
      /\ \A j \in 1 .. n : ~Promise!CannotRender(set.templates[j], All(set)[Past + 1])
  BY <1>6 DEF Gave
<1>8. Complete(set, Past + 1) = Complete(set, Past) \o Partial(set, Past, n)
  BY <1>2, <1>3, <1>7, CompleteGoesOn
<1>9. IsList(Complete(set, Past + 1)) /\ Bare(rendered) = Complete(set, Past + 1)
  <2> HIDE DEF n
  <2>1. IsList(Complete(set, Past) \o Partial(set, Past, n))
    BY <1>7, ConcatLists, Zenon
  <2> QED BY <1>7, <1>8, <2>1, Zenon
<1>10. Gave'
  <2>1. Partial(set, Past + 1, 0) = <<>> /\ IsList(<<>>)
    BY NoneRendered, EmptySeq DEF IsList
  <2>2. Bare(rendered) = Complete(set, Past + 1) \o Partial(set, Past + 1, 0)
    BY <1>9, <2>1, ConcatNothing
  <2>3. template' - 1 = 0 /\ Past' = Past + 1 /\ set' = set /\ rendered' = rendered
    BY <1>1, <1>5
  <2>4. \A i \in 1 .. Past + 1 : \A j \in 1 .. n : ~Promise!CannotRender(set.templates[j], All(set)[i])
    <3>1. \A i \in 1 .. Past + 1 : i \in 1 .. Past \/ i = Past + 1
      BY <1>2
    <3> QED BY <1>7, <3>1, Zenon
  <2>5. IsList(Complete(set', Past')) /\ IsList(Partial(set', Past', template' - 1))
    BY <1>9, <2>1, <2>3
  <2>6. IsList(rendered') /\ Bare(rendered') = Complete(set', Past') \o Partial(set', Past', template' - 1)
    BY <1>7, <2>2, <2>3
  <2>7. \A j \in 1 .. template' - 1 : ~Promise!CannotRender(set'.templates[j], All(set')[Past' + 1])
    BY <2>3
  <2> QED BY <2>3, <2>4, <2>5, <2>6, <2>7 DEF Gave
<1>11. Goes'
  <2>1. template' \in 1 .. Len(set'.templates) + 1
    BY <1>1, <1>3
  <2>2. IsList(params') /\ Past' \in Nat /\ template' = 1
    BY <1>1, <1>2, <1>5
  <2>3. \A p \in 1 .. Len(params') : params'[p] = All(set')[Past' + p] /\ Repeatable(params'[p])
    BY <1>1, <1>2, <1>5
  <2> QED BY <2>1, <2>2, <2>3 DEF Goes
<1>12. Renders'
  BY <1>1, <1>4 DEF Renders
<1>13. RendersMatrix'
  BY <1>1 DEF RendersMatrix
<1> QED BY <1>1, <1>10, <1>11, <1>12, <1>13 DEF SoFar

\* A matrix is as it is when nothing changes.
LEMMA MatrixStays ==
  ASSUME NEW g, Collects(g), Makes(g), UNCHANGED matrixVars
  PROVE  Collects(g)' /\ Makes(g)'
<1>1. UNCHANGED <<nested, single, generated, slices, indexes, results, phase>>
  BY DEF matrixVars
<1>2. Returned' = Returned
  BY <1>1 DEF Returned, SingleElement, Element, KeysAt, Holders, Item
<1>3. Asked(g)' = Asked(g)
  BY <1>1 DEF Asked
<1>4. Collects(g)'
  BY <1>1, <1>3 DEF Collects
<1>5. Makes(g)'
  BY <1>1, <1>2 DEF Makes
<1> QED BY <1>4, <1>5

\* Nothing happens after the end.
LEMMA StaysAtTheEnd ==
  ASSUME stage \in {"done", "failed"}, [Next]_vars
  PROVE  UNCHANGED <<set, stage, rendered>>
BY DEF Next, Generate, GenerateFails, NextGenerator, Finish, CallMatrix, InMatrix, MatrixReturns,
       MatrixFails, RenderTemplate, TemplateFails, NextElement, Rendering, vars, renderVars

LEMMA NextSoFar == NoneShared /\ TypeOK /\ SoFar /\ [Next]_vars => SoFar'
<1> SUFFICES ASSUME NoneShared, TypeOK, SoFar, [Next]_vars PROVE SoFar'
  OBVIOUS
<1>1. CASE stage \in {"done", "failed"}
  BY <1>1, StaysAtTheEnd DEF SoFar, Outcome
<1>2. CASE stage \notin {"done", "failed"}
  <2>1. Renders /\ RendersMatrix /\ Goes /\ Gave
    BY <1>2 DEF SoFar
  <2>2. CASE Generate       BY <2>1, <2>2, GenerateSoFar
  <2>3. CASE GenerateFails  BY <2>1, <2>3, GenerateFailsSoFar
  <2>4. CASE NextGenerator  BY <2>1, <2>4, NextGeneratorSoFar
  <2>5. CASE Finish         BY <2>1, <2>5, FinishSoFar
  <2>6. CASE CallMatrix     BY <2>1, <2>6, CallMatrixSoFar
  <2>7. CASE InMatrix       BY <2>1, <2>7, InMatrixSoFar
  <2>8. CASE MatrixReturns  BY <2>1, <2>8, MatrixReturnsSoFar
  <2>9. CASE MatrixFails    BY <2>1, <2>9, MatrixFailsSoFar
  <2>10. CASE RenderTemplate  BY <2>1, <2>10, RenderTemplateSoFar
  <2>11. CASE TemplateFails   BY <2>1, <2>11, TemplateFailsSoFar
  <2>12. CASE NextElement     BY <2>1, <2>12, NextElementSoFar
  <2>13. CASE UNCHANGED vars
    <3>1. UNCHANGED <<set, generators, params, template, index, rendered, stage>> /\ UNCHANGED matrixVars
      BY <2>13 DEF vars, renderVars
    <3>2. Called' = Called /\ Rendered' = Rendered
      BY <3>1 DEF Called, Rendered
    <3>3. Goes' /\ Gave'
      BY <2>1, <3>1, <3>2, KeepsGoing
    <3>4. Renders'
      BY <2>1, <3>1, <3>2 DEF Renders
    <3>5. RendersMatrix'
      <4> SUFFICES ASSUME stage = "matrix" PROVE RendersMatrix'
        BY <3>1 DEF RendersMatrix
      <4>1. PICK g : /\ g = set.generators[Called] /\ Called \in 1 .. Len(set.generators)
                     /\ g.matrix /\ ~g.fails /\ Collects(g) /\ Makes(g)
        BY <2>1, CalledMatrix
      <4>2. Collects(g)' /\ Makes(g)'
        BY <3>1, <4>1, MatrixStays
      <4>3. g = set'.generators[Called'] /\ Called' \in 1 .. Len(set'.generators)
        BY <3>1, <3>2, <4>1
      <4> QED BY <4>1, <4>2, <4>3 DEF RendersMatrix
    <3> QED BY <1>2, <3>1, <3>3, <3>4, <3>5 DEF SoFar
  <2> QED BY <2>2, <2>3, <2>4, <2>5, <2>6, <2>7, <2>8, <2>9, <2>10, <2>11, <2>12, <2>13 DEF Next
<1> QED BY <1>1, <1>2

\* What Render returns is what the set promises, whatever ElementIndex it gives: an error,
\* or every template for every element in order, the elements of a matrix being its
\* combinations, each once.  It is so when no map is shared by two generators of a matrix and no group has another's name.
THEOREM RenderingIsPromised == NoneShared => (Spec => RendersAsPromised)
<1>0. SUFFICES ASSUME NoneShared PROVE Spec => RendersAsPromised
  OBVIOUS
<1>1. Init => Promise!Init
  BY DEF Init, Promise!Init, Promise!Pending, Outcome
<1>2. TypeOK /\ SoFar /\ SoFar' /\ [Next]_vars => [Promise!Render]_<<set, Outcome>>
  <2> SUFFICES ASSUME TypeOK, SoFar, SoFar', [Next]_vars, ~UNCHANGED <<set, Outcome>>
               PROVE  Promise!Render
    OBVIOUS
  <2>1. stage \notin {"done", "failed"}
    BY StaysAtTheEnd DEF Outcome
  <2>2. UNCHANGED set
    BY DEF Next, Generate, GenerateFails, NextGenerator, Finish, CallMatrix, InMatrix, MatrixReturns,
           MatrixFails, RenderTemplate, TemplateFails, NextElement, vars, renderVars
  <2>3. stage' \in {"done", "failed"}
    BY <2>1, <2>2 DEF Outcome
  <2>4. Promise!Result[set] = Outcome'
    BY <2>2, <2>3 DEF SoFar
  <2>5. Outcome = Promise!Pending
    BY <2>1 DEF Outcome, Promise!Pending
  <2> QED BY <2>2, <2>4, <2>5 DEF Promise!Render
<1>3. QED  BY <1>0, <1>1, <1>2, InitSoFar, NextSoFar, RendererTypeCorrect, PTL
          DEF Spec, RendersAsPromised, Promise!Spec, Promise!vars
=============================================================================
