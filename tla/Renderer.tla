------------------------------ MODULE Renderer ------------------------------
(***************************************************************************)
(* Render, generate, renderTemplateParams and repeat of                    *)
(* controllers/templates/renderer.go: the generators of a set one after    *)
(* the other, and every template for each element they return.             *)
(***************************************************************************)
EXTENDS MatrixGenerator

CONSTANTS
  Sets,      \* the specs that are rendered: [generators, templates]
  ListKeys,  \* the keys whose values are lists
  NoKey,     \* the repeat of a template that has none
  Null       \* a value that is null

VARIABLES
  set,         \* the spec
  generators,  \* the generators still to be asked
  params,      \* the elements of the last one still to be rendered
  template,    \* the number of the next template
  index,       \* what the next template sees as ElementIndex
  rendered,    \* the resources so far
  stage

IsMap(f) == f = [key \in DOMAIN f |-> f[key]]

\* An element is a map, and its keys tell of what type their values are.
IsElement(element) ==
  /\ IsMap(element)
  /\ \A key \in DOMAIN element :
       /\ key \in MapKeys => IsMap(element[key])
       /\ key \in ListKeys => element[key] = Null \/ element[key] \in Seq(Range(element[key]))

\* The spec is as the schema of a GitOpsSet has it: lists of generators, of
\* nested generators and of templates.  What is put under a name is a map.
ASSUME SetsAssumption ==
  /\ "Matrix" \notin ListKeys
  /\ \A s \in Sets :
       /\ s.generators \in Seq(Range(s.generators)) /\ s.templates \in Seq(Range(s.templates))
       /\ \A g \in Range(s.generators) :
            /\ g.matrix \in BOOLEAN /\ g.fails \in BOOLEAN /\ g.single \in BOOLEAN
            /\ g.elements \in Seq(Range(g.elements)) /\ \A e \in Range(g.elements) : IsElement(e)
            /\ g.nested \in Seq(Range(g.nested))
            /\ \A n \in Range(g.nested) :
                 /\ n.fails \in BOOLEAN
                 /\ n.name # Unnamed => n.name \in MapKeys \ ListKeys
                 /\ n.elements \in Seq(Range(n.elements)) /\ \A e \in Range(n.elements) : IsElement(e)

renderVars == <<set, generators, params, template, index, rendered, stage>>
vars == <<matrixVars, renderVars>>

-----------------------------------------------------------------------------
(* One template for one element. *)

\* A list ([]any) is repeated over its items, anything else but null over itself.
Repeated(t, element) ==
  IF t.repeat \notin DOMAIN element \/ element[t.repeat] = Null THEN <<>>
  ELSE IF t.repeat \in ListKeys THEN element[t.repeat] ELSE <<element[t.repeat]>>

\* A template fails when it repeats over, or refers to, a key that is missing.
\* What it refers to is looked up once for every repetition.
Fails(t, element) ==
  \/ t.repeat # NoKey /\ t.repeat \notin DOMAIN element
  \/ /\ t.key # NoKey /\ t.key \notin DOMAIN element
     /\ t.repeat = NoKey \/ Repeated(t, element) # <<>>

\* The resources of a template: what it is rendered from.  Repetitions have the
\* same ElementIndex.
Resources(t, element, ix) ==
  IF t.repeat = NoKey
  THEN <<[template |-> t, element |-> element, index |-> ix, repeat |-> 0, value |-> NoKey]>>
  ELSE [i \in DOMAIN Repeated(t, element) |->
          [template |-> t, element |-> element, index |-> ix,
           repeat |-> i, value |-> Repeated(t, element)[i]]]

-----------------------------------------------------------------------------
(* The steps of Render. *)

Generate ==
  /\ stage = "generators" /\ generators # <<>>
  /\ ~Head(generators).matrix /\ ~Head(generators).fails
  /\ generators' = Tail(generators) /\ params' = Head(generators).elements
  /\ template' = 1 /\ stage' = "templates"
  /\ UNCHANGED <<matrixVars, set, index, rendered>>

\* A generator that fails or is not enabled, the matrix generator too.
GenerateFails ==
  /\ stage = "generators" /\ generators # <<>> /\ Head(generators).fails
  /\ stage' = "failed"
  /\ UNCHANGED <<matrixVars, set, generators, params, template, index, rendered>>

CallMatrix ==
  /\ stage = "generators" /\ generators # <<>>
  /\ Head(generators).matrix /\ ~Head(generators).fails
  /\ Start(Head(generators))
  /\ generators' = Tail(generators) /\ stage' = "matrix"
  /\ UNCHANGED <<set, params, template, index, rendered>>

InMatrix ==
  /\ stage = "matrix" /\ MatrixStep
  /\ UNCHANGED renderVars

MatrixReturns ==
  /\ stage = "matrix" /\ phase = "done"
  /\ params' = Returned /\ template' = 1 /\ stage' = "templates"
  /\ phase' = "idle"
  /\ UNCHANGED <<nested, single, generated, slices, indexes, results>>
  /\ UNCHANGED <<set, generators, index, rendered>>

MatrixFails ==
  /\ stage = "matrix" /\ phase = "failed"
  /\ stage' = "failed"
  /\ UNCHANGED <<matrixVars, set, generators, params, template, index, rendered>>

Rendering == stage = "templates" /\ params # <<>>

RenderTemplate ==
  /\ Rendering /\ template <= Len(set.templates)
  /\ ~Fails(set.templates[template], Head(params))
  /\ rendered' = rendered \o Resources(set.templates[template], Head(params), index)
  /\ index' = index + 1
  /\ template' = template + 1
  /\ UNCHANGED <<matrixVars, set, generators, params, stage>>

TemplateFails ==
  /\ Rendering /\ template <= Len(set.templates)
  /\ Fails(set.templates[template], Head(params))
  /\ stage' = "failed"
  /\ UNCHANGED <<matrixVars, set, generators, params, template, index, rendered>>

NextElement ==
  /\ Rendering /\ template > Len(set.templates)
  /\ params' = Tail(params) /\ template' = 1
  /\ UNCHANGED <<matrixVars, set, generators, index, rendered, stage>>

NextGenerator ==
  /\ stage = "templates" /\ params = <<>>
  /\ stage' = "generators"
  /\ UNCHANGED <<matrixVars, set, generators, params, template, index, rendered>>

Finish ==
  /\ stage = "generators" /\ generators = <<>>
  /\ stage' = "done"
  /\ UNCHANGED <<matrixVars, set, generators, params, template, index, rendered>>

-----------------------------------------------------------------------------
Init ==
  /\ set \in Sets
  /\ generators = set.generators /\ params = <<>> /\ template = 1
  /\ index = 0 /\ rendered = <<>> /\ stage = "generators"
  /\ nested = <<>> /\ single = FALSE /\ generated = <<>>
  /\ slices = <<>> /\ indexes = <<>> /\ results = <<>> /\ phase = "idle"

Next ==
  \/ Generate \/ GenerateFails \/ NextGenerator \/ Finish
  \/ CallMatrix \/ InMatrix \/ MatrixReturns \/ MatrixFails
  \/ RenderTemplate \/ TemplateFails \/ NextElement

\* A call of Render that goes on.
Spec == Init /\ [][Next]_vars /\ WF_vars(Next)

-----------------------------------------------------------------------------
(* Properties. *)

\* The nested generators of a spec.
Nestable(s) == UNION {Range(g.nested) : g \in Range(s.generators)}

TypeOK ==
  /\ set \in Sets /\ generators \in Seq(Range(set.generators))
  /\ stage \in {"generators", "matrix", "templates", "done", "failed"}
  /\ phase \in {"idle", "generate", "product", "done", "failed"}
  /\ stage \notin {"matrix", "failed"} => phase = "idle"
  /\ index \in Nat /\ template \in Nat \ {0}
  /\ single \in BOOLEAN /\ nested \in Seq(Nestable(set))
  /\ generated \in Seq({n \in Nestable(set) : n.elements # <<>>})

\* While a matrix is combined every index names an item of its slice, but for the
\* first one at the end: no item is read that is not there.
IndexesInRange ==
  phase = "product" =>
    /\ generated # <<>> /\ DOMAIN slices = DOMAIN generated /\ DOMAIN indexes = DOMAIN generated
    /\ \A j \in DOMAIN slices :
         slices[j] \in Seq(Range(slices[j])) /\ indexes[j] \in 0 .. Len(slices[j])
    /\ \A j \in DOMAIN slices \ {1} : indexes[j] < Len(slices[j])

\* Every step of the combination goes on to a later combination, so that none is
\* made twice and the loop ends (nextIndex).
Later(ix, other) ==
  \E j \in DOMAIN ix : ix[j] < other[j] /\ \A i \in 1 .. j - 1 : ix[i] = other[i]

IndexesAdvance == [][phase = "product" /\ phase' = "product" => Later(indexes, indexes')]_matrixVars

\* What resources are rendered from, but for the ElementIndex: the documentation has
\* the index of the element (docs/README.md:95-96), the code counts the pairs of an
\* element and a template (index++ of Render).
Bare(resources) ==
  [n \in DOMAIN resources |->
     [template |-> resources[n].template, element |-> resources[n].element,
      repeat |-> resources[n].repeat, value |-> resources[n].value]]

\* Rendering gives what the set promises, errors included.
Outcome ==
  IF stage = "failed" THEN [is |-> "failed", resources |-> <<>>]
  ELSE IF stage = "done" THEN [is |-> "rendered", resources |-> Bare(rendered)]
  ELSE [is |-> "pending", resources |-> <<>>]

\* Two generators of a matrix have no map under the same key (mergo would write into
\* one of them), and a group of one has a name of its own.
Apart(n, m) ==
  \A x \in Range(Prefixed(n)), y \in Range(Prefixed(m)) : DOMAIN x \cap DOMAIN y \cap MapKeys = {}

Unshared(g) ==
  IF g.single THEN \A n \in Range(g.nested) : n.name # "Matrix"
  ELSE \A i, j \in DOMAIN g.nested : i # j => Apart(g.nested[i], g.nested[j])

NoneShared == \A s \in Sets : \A g \in Range(s.generators) : g.matrix => Unshared(g)

Promise == INSTANCE SetRendering WITH outcome <- Outcome
RendersAsPromised == Promise!Spec

\* The loops come to an end, the one over the combinations of a matrix too.
RenderingEnds == <>(stage \in {"done", "failed"})
=============================================================================
