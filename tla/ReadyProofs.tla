---------------------------- MODULE ReadyProofs ----------------------------
(***************************************************************************)
(* The theorems that Ready tells the truth, and that a set for which       *)
(* nothing is left to do is clean: the last part of the proofs about       *)
(* GitOpsSetReconciler.                                                    *)
(***************************************************************************)
EXTENDS OwnershipProofs

-----------------------------------------------------------------------------
(* What is at hand is what was rendered. *)

\* A step that keeps what is at hand, or ends it.
LEMMA QuietRenderedInv ==
  ASSUME RenderedInv,
         \/ job' = job
         \/ job'.pc \notin {"render", "apply", "patch", "create", "prune", "status"}
  PROVE  RenderedInv'
BY DEF RenderedInv, AtHand

\* The next resource has been dealt with: it has its entry, or it failed.
LEMMA NextRendered ==
  ASSUME TypeInv, RenderedInv, job.pc \in {"apply", "patch", "create"}, job.todo # <<>>,
         job'.pc = "apply", job'.resources = job.resources, job'.snap = job.snap,
         job'.todo = Tail(job.todo), job.failed => job'.failed,
         job.entries \subseteq job'.entries,
         job'.entries \subseteq job.entries \cup {Head(job.todo).ref},
         job'.failed \/ Head(job.todo).ref \in job'.entries
  PROVE  RenderedInv'
<1>1. job.todo \in Seq(Rendered)
  BY Parts
<1>2. \A k \in DOMAIN job.todo : \E n \in DOMAIN job.resources : job.resources[n] = job.todo[k]
  BY DEF RenderedInv, AtHand
<1>3. 1 \in DOMAIN job.todo /\ Head(job.todo) = job.todo[1]
  BY <1>1
<1>4. \A k \in DOMAIN job'.todo : k + 1 \in DOMAIN job.todo /\ job'.todo[k] = job.todo[k + 1]
  BY <1>1
<1>5. \A k \in DOMAIN job.todo : k = 1 \/ (k - 1 \in DOMAIN job'.todo /\ job'.todo[k - 1] = job.todo[k])
  BY <1>1
<1>6. \A k \in DOMAIN job'.todo : \E n \in DOMAIN job'.resources : job'.resources[n] = job'.todo[k]
  BY <1>2, <1>4
<1>7. \A ref \in job'.entries : \E n \in DOMAIN job'.resources : job'.resources[n].ref = ref
  <2>1. \E n \in DOMAIN job.resources : job.resources[n].ref = Head(job.todo).ref
    BY <1>2, <1>3
  <2>2. \A ref \in job.entries : \E n \in DOMAIN job.resources : job.resources[n].ref = ref
    BY DEF RenderedInv, AtHand
  <2>3. QED  BY <2>1, <2>2
<1>8. ASSUME ~job'.failed, NEW n \in DOMAIN job'.resources
      PROVE  \/ job'.resources[n].ref \in job'.entries
             \/ \E k \in DOMAIN job'.todo : job'.todo[k] = job'.resources[n]
  <2>1. \/ job.resources[n].ref \in job.entries
        \/ \E k \in DOMAIN job.todo : job.todo[k] = job.resources[n]
    BY <1>8 DEF RenderedInv, AtHand
  <2>2. CASE job.resources[n].ref \in job.entries
    BY <2>2
  <2>3. ASSUME NEW k \in DOMAIN job.todo, job.todo[k] = job.resources[n]
        PROVE  \/ job'.resources[n].ref \in job'.entries
               \/ \E i \in DOMAIN job'.todo : job'.todo[i] = job'.resources[n]
    <3>1. CASE k = 1
      BY <1>3, <1>8, <2>3, <3>1
    <3>2. CASE k # 1
      BY <1>5, <2>3, <3>2
    <3>3. QED  BY <3>1, <3>2
  <2>4. QED  BY <2>1, <2>2, <2>3
<1>9. Renders(job.snap.spec, job.resources)
  BY DEF RenderedInv, AtHand
<1>10. QED  BY <1>6, <1>7, <1>8, <1>9 DEF RenderedInv

\* What Render puts at hand, when it succeeds.
LEMMA RenderEffect ==
  ASSUME TypeInv, Render
  PROVE  /\ job.pc = "render" /\ job'.set = job.set /\ job'.snap = job.snap
         /\ \/ /\ job'.pc = "apply" /\ job'.todo = job'.resources
               /\ Renders(job.snap.spec, job'.resources) /\ job'.entries = job.entries
            \/ job'.pc = "status" /\ job'.outcome # "ok" /\ job'.todo = job.todo
<1> DEFINE r == Rendering[job.snap.spec, data[job.set]]
<1>1. r \in Renderings /\ data[job.set] \in Data
  BY RenderingType, Parts DEF TypeOK
<1>2. r.kind = "ok" => Renders(job.snap.spec, r.objs)
  BY <1>1, Zenon DEF Renders
<1>3. /\ job.pc = "render"
      /\ job' = IF r.kind = "ok"
                THEN [job EXCEPT !.pc = "apply", !.resources = r.objs, !.todo = r.objs]
                ELSE [job EXCEPT !.pc = "status", !.outcome = r.kind]
  BY Zenon DEF Render
<1> HIDE DEF r
<1>4. QED  BY <1>1, <1>2, <1>3, Parts DEF Jobs, Renderings

\* Every step keeps RenderedInv.
LEMMA NextRenderedInv == TypeInv /\ RenderedInv /\ [Next]_vars => RenderedInv'
<1> SUFFICES ASSUME TypeInv, RenderedInv, [Next]_vars PROVE RenderedInv'
  OBVIOUS
<1>1. /\ job \in Jobs /\ job.todo \in Seq(Rendered) /\ Idle.pc = "idle"
      /\ Idle.entries = {} /\ Idle.todo = <<>>
  BY Parts DEF Idle
<1>2. CASE UNCHANGED vars
  BY <1>2, QuietRenderedInv DEF vars
<1>3. CASE Users
  BY <1>3, QuietRenderedInv
  DEF Users, CreateSet, EditSpec, ToggleSuspend, RequestReconcile, DeleteSet, ChangeSource,
      UserCreateResource, UserDeleteResource, EditSet, UserStep
<1>4. CASE \/ Crash
           \/ \E s \in Sets : Deliver(s) \/ TimerFire(s) \/ ClientFailure(s) \/ SkipReconcile(s)
  BY <1>1, <1>4, QuietRenderedInv DEF Crash, Deliver, TimerFire, ClientFailure, SkipReconcile
<1>5. ASSUME NEW s \in Sets, BeginAddFinalizer(s) \/ BeginFinalize(s) PROVE RenderedInv'
  <2>1. job'.pc \in {"addFinalizer", "finalize"}
    BY <1>5 DEF BeginAddFinalizer, BeginFinalize, Idle
  <2>2. QED  BY <2>1, QuietRenderedInv
<1>6. ASSUME NEW s \in Sets, BeginRender(s) PROVE RenderedInv'
  <2>1. job'.pc = "render" /\ job'.entries = {} /\ job'.todo = <<>>
    BY <1>6 DEF BeginRender, Idle
  <2>2. QED  BY <2>1 DEF RenderedInv, AtHand
<1>7. CASE AddFinalizer \/ RemoveFinalizer \/ PatchStatus
  <2>1. job' = Idle
    BY <1>7 DEF AddFinalizer, RemoveFinalizer, PatchStatus, AfterStatus, Retry, Finish
  <2>2. QED  BY <1>1, <2>1, QuietRenderedInv
<1>8. CASE FinalizeOne \/ FinalizeUnreadable
  <2>1. job'.pc \in {"idle", "finalize"}
    BY <1>1, <1>8 DEF FinalizeOne, FinalizeUnreadable, Retry, Jobs
  <2>2. QED  BY <2>1, QuietRenderedInv
<1>9. CASE Render
  <2>1. /\ job.pc = "render" /\ job.entries = {} /\ job.todo = <<>>
    BY <1>9, RenderEffect DEF RenderedInv
  <2>2. CASE /\ job'.pc = "apply" /\ job'.todo = job'.resources /\ job'.snap = job.snap
             /\ Renders(job.snap.spec, job'.resources) /\ job'.entries = job.entries
    BY <2>1, <2>2 DEF RenderedInv, AtHand
  <2>3. CASE job'.pc = "status" /\ job'.outcome # "ok" /\ job'.todo = job.todo
    BY <2>1, <2>3 DEF RenderedInv, AtHand
  <2>4. QED  BY <1>9, <2>2, <2>3, RenderEffect
<1>10. CASE GetExisting
  <2> DEFINE ref == Head(job.todo).ref
  <2>1. /\ job.pc = "apply" /\ job.todo # <<>>
        /\ job'.resources = job.resources /\ job'.snap = job.snap
        /\ job'.entries = job.entries \cup {ref}
        /\ \/ job'.pc = "apply" /\ job'.todo = Tail(job.todo) /\ job'.failed
           \/ job'.pc \in {"create", "patch"} /\ job'.todo = job.todo /\ job'.failed = job.failed
    BY <1>10, AfterGet
  <2>2. CASE job'.pc = "apply" /\ job'.todo = Tail(job.todo) /\ job'.failed
    BY <2>1, <2>2, NextRendered
  <2>3. CASE job'.pc \in {"create", "patch"} /\ job'.todo = job.todo /\ job'.failed = job.failed
    <3>1. 1 \in DOMAIN job.todo /\ Head(job.todo) = job.todo[1]
      BY <1>1, <2>1
    <3>2. \E n \in DOMAIN job.resources : job.resources[n].ref = ref
      BY <2>1, <3>1 DEF RenderedInv, AtHand
    <3>3. QED  BY <2>1, <2>3, <3>2 DEF RenderedInv, AtHand
  <2>4. QED  BY <2>1, <2>2, <2>3
<1>11. CASE PatchResource \/ CreateResource
  <2>1. /\ job.todo # <<>> /\ job.pc \in {"apply", "patch", "create"}
        /\ job' \in {Next1(job), Failed(job), Applied(job)}
        /\ job' = Next1(job) => job.pc = "patch" \/ job' = Failed(job) \/ job' = Applied(job)
    BY <1>11, AfterWrite DEF PatchResource, CreateResource
  <2>2. /\ job'.pc = "apply" /\ job'.resources = job.resources /\ job'.snap = job.snap
        /\ job'.todo = Tail(job.todo) /\ job.entries \subseteq job'.entries
        /\ job'.entries \subseteq job.entries \cup {Head(job.todo).ref}
        /\ job.failed => job'.failed
    BY <1>1, <2>1, AfterOne
  <2>3. job'.failed \/ Head(job.todo).ref \in job'.entries
    BY <1>1, <2>1, <2>2, AfterOne DEF RenderedInv
  <2>4. QED  BY <2>1, <2>2, <2>3, NextRendered
<1>12. CASE EndApply \/ EndPrune \/ PruneOne \/ PruneUnreadable
  <2>1. /\ job'.resources = job.resources /\ job'.snap = job.snap /\ job'.entries = job.entries
        /\ job'.todo = job.todo /\ job'.outcome = job.outcome
        /\ job.failed => job'.failed
        /\ \/ job.pc = "apply" /\ job.todo = <<>> /\ job'.pc = "prune"
           \/ job.pc = "prune" /\ job'.pc \in {"prune", "status"}
    BY <1>1, <1>12, AfterPruneUnreadable DEF EndApply, EndPrune, PruneOne, Jobs
  <2>2. /\ Renders(job.snap.spec, job.resources) /\ job.todo = <<>>
        /\ \A ref \in job.entries : \E n \in DOMAIN job.resources : job.resources[n].ref = ref
        /\ job.failed \/ \A n \in DOMAIN job.resources : job.resources[n].ref \in job.entries
    BY <2>1 DEF RenderedInv, AtHand
  <2>3. QED  BY <2>1, <2>2 DEF RenderedInv, AtHand
<1>13. CASE GetUnreadable
  BY <1>13, AfterUnreadable, NextRendered
<1>14. QED
  BY <1>2, <1>3, <1>4, <1>5, <1>6, <1>7, <1>8, <1>9, <1>10, <1>11, <1>12, <1>13
  DEF Next, Begin, Worker

-----------------------------------------------------------------------------
(* Ready tells the truth, when reads are fresh. *)

\* What ReadyIsTruthful says of one set.
Truthful(o) ==
  o.cond.ready = "True" /\ o.observed = o.gen =>
    \E d \in Data :
      /\ Rendering[o.spec, d].kind = "ok"
      /\ o.inventory = RefsOf(Rendering[o.spec, d])
      /\ o.cond.count = Cardinality(o.inventory)

LEMMA TruthfulSets == ReadyIsTruthful <=> \A s \in Sets : Truthful(obj[s])
BY Zenon DEF ReadyIsTruthful, Truthful

\* A set that records just what was rendered is told of truthfully.
LEMMA RendersTruthful ==
  ASSUME NEW o, NEW objs, Renders(o.spec, objs),
         o.inventory = {objs[n].ref : n \in DOMAIN objs},
         o.cond.count = Cardinality(o.inventory)
  PROVE  Truthful(o)
BY Zenon DEF Truthful, Renders, RefsOf

\* Truthful looks at no more than these parts of a set.
LEMMA SameTruth ==
  ASSUME NEW o, NEW p, Truthful(o), p.gen = o.gen, p.spec = o.spec, p.cond = o.cond,
         p.inventory = o.inventory, p.observed = o.observed
  PROVE  Truthful(p)
BY Zenon DEF Truthful

\* A set that does not claim anything of its generation.
LEMMA SilentTruth ==
  ASSUME NEW o, o.cond.ready # "True" \/ o.observed # o.gen
  PROVE  Truthful(o)
BY Zenon DEF Truthful

\* A write keeps what Ready says true if it is true of what is written, and leaves a
\* generation its spec.
LEMMA StoreReady ==
  ASSUME TypeInv, SafeInv, StatusInv, ReadyIsTruthful, GenerationInv,
         NEW s \in Sets, NEW o \in SetObjects, Store(s, o), job' = job \/ job' = Idle,
         Truthful(o),
         job' = job /\ Working /\ job.set = s =>
           o.gen = obj[s].gen + 1 \/ (o.gen = obj[s].gen /\ o.spec = obj[s].spec)
  PROVE  ReadyIsTruthful' /\ GenerationInv'
<1>1. PICK new \in SetObjects :
        /\ obj'[s] = new /\ new.gen = o.gen /\ new.observed = o.observed
        /\ new.spec = o.spec /\ new.cond = o.cond /\ new.inventory = o.inventory
        /\ \A t \in Sets \ {s} : obj'[t] = obj[t]
  BY StoreNumbers
<1>2. Truthful(new)
  BY <1>1, SameTruth
<1>3. \A t \in Sets : Truthful(obj'[t])
  BY <1>1, <1>2, TruthfulSets
<1>4. ReadyIsTruthful'
  BY <1>3, Zenon DEF ReadyIsTruthful, Truthful
<1>5. CASE job' = Idle
  BY <1>4, <1>5 DEF GenerationInv, Working, Idle
<1>6. CASE job' = job /\ Working /\ job.set = s
  <2>1. job.snap.gen <= obj[s].gen /\ job.snap.gen \in Nat /\ obj[s].gen \in Nat
    BY <1>6, Parts, NumbersAreNat DEF StatusInv, Precedes
  <2>2. job.snap.gen = new.gen => job.snap.spec = new.spec
    BY <1>1, <1>6, <2>1 DEF GenerationInv
  <2>3. QED  BY <1>1, <1>4, <1>6, <2>2 DEF GenerationInv
<1>7. CASE job' = job /\ ~(Working /\ job.set = s)
  BY <1>1, <1>4, <1>7, Parts DEF GenerationInv, Working
<1>8. QED  BY <1>5, <1>6, <1>7

\* A step that writes no set and starts no rendering.
LEMMA QuietReady ==
  ASSUME ReadyIsTruthful, GenerationInv, UNCHANGED obj,
         ~Working' \/ (Working /\ job'.set = job.set /\ job'.snap = job.snap)
  PROVE  ReadyIsTruthful' /\ GenerationInv'
<1>1. ReadyIsTruthful'
  BY Zenon DEF ReadyIsTruthful
<1>2. GenerationInv'
  BY DEF GenerationInv
<1>3. QED  BY <1>1, <1>2

\* Users change the generation with the spec.
LEMMA UsersReady ==
  ASSUME TypeInv, SafeInv, StatusInv, ReadyIsTruthful, GenerationInv, Users
  PROVE  ReadyIsTruthful' /\ GenerationInv'
<1>1. ASSUME NEW s \in Sets, Edit(s) PROVE ReadyIsTruthful' /\ GenerationInv'
  <2>1. PICK o \in SetObjects :
          /\ Store(s, o) /\ o.observed = obj[s].observed
          /\ Precedes(obj[s], o) /\ o.inventory = obj[s].inventory /\ o.cond = obj[s].cond
          /\ o.gen # obj[s].gen + 1 => o.spec = obj[s].spec /\ o.gen = obj[s].gen
    BY <1>1, EditEffect
  <2>2. Truthful(o)
    <3>1. obj[s].observed <= obj[s].gen /\ obj[s].observed \in Nat /\ obj[s].gen \in Nat
      BY Parts, NumbersAreNat DEF StatusInv, Answered
    <3>2. CASE o.gen = obj[s].gen + 1
      <4>1. o.observed # o.gen
        BY <2>1, <3>1, <3>2
      <4>2. QED  BY <4>1, SilentTruth
    <3>3. CASE o.gen # obj[s].gen + 1
      <4>1. o.gen = obj[s].gen /\ o.spec = obj[s].spec
        BY <2>1, <3>3
      <4>2. Truthful(obj[s])
        BY TruthfulSets
      <4>3. QED  BY <2>1, <4>1, <4>2, SameTruth
    <3>4. QED  BY <3>2, <3>3
  <2>3. job' = job
    BY <1>1, EditEffect
  <2>4. QED  BY <2>1, <2>2, <2>3, StoreReady
<1>2. ASSUME NEW s \in Sets, CreateSet(s) PROVE ReadyIsTruthful' /\ GenerationInv'
  <2>1. ~obj[s].exists /\ UNCHANGED job
    BY <1>2, CreateEffect
  <2>2. PICK o \in SetObjects : Store(s, o) /\ o.cond = Unset
    BY <1>2, CreateEffect
  <2>3. Truthful(o)
    BY <2>2, SilentTruth DEF Unset
  <2>4. Working => job.set # s
    BY <2>1, UnguardedIsUnknown
  <2>5. QED  BY <2>1, <2>2, <2>3, <2>4, StoreReady
<1>3. ASSUME NEW s \in Sets, DeleteSet(s), ~obj[s].finalizer
      PROVE  ReadyIsTruthful' /\ GenerationInv'
  <2>1. UNCHANGED job /\ Store(s, Removed(obj[s]))
    BY <1>3, DropEffect
  <2>2. Removed(obj[s]) \in SetObjects /\ Removed(obj[s]).cond = Unset
    BY RemovedValues
  <2> HIDE DEF Removed
  <2>3. Truthful(Removed(obj[s]))
    BY <2>2, SilentTruth DEF Unset
  <2>4. Working => job.set # s
    BY <1>3, UnguardedIsUnknown
  <2>5. QED  BY <2>1, <2>2, <2>3, <2>4, StoreReady
<1>4. ASSUME UNCHANGED <<obj, job>> PROVE ReadyIsTruthful' /\ GenerationInv'
  BY <1>4, QuietReady DEF Working
<1>5. QED
  BY <1>1, <1>2, <1>3, <1>4
  DEF Users, Edit, ChangeSource, UserCreateResource, UserDeleteResource, UserStep, server

\* A rendering starts from the set as it is.
LEMMA ManagerReady ==
  ASSUME TypeInv, SafeInv, StatusInv, Fresh, OwnedInv, ReadyIsTruthful, GenerationInv,
         NEW s \in Sets, Deliver(s) \/ TimerFire(s) \/ ClientFailure(s) \/ Begin(s)
  PROVE  ReadyIsTruthful' /\ GenerationInv'
<1>1. CASE Deliver(s) \/ TimerFire(s) \/ ClientFailure(s) \/ SkipReconcile(s)
  <2>1. UNCHANGED <<obj, job>>
    BY <1>1 DEF Deliver, TimerFire, ClientFailure, SkipReconcile, Take, server
  <2>2. QED  BY <2>1, QuietReady DEF Working
<1>2. CASE BeginAddFinalizer(s) \/ BeginFinalize(s)
  <2>1. UNCHANGED obj /\ job'.pc \in {"addFinalizer", "finalize"}
    BY <1>2 DEF BeginAddFinalizer, BeginFinalize, Take, Idle, server
  <2>2. QED  BY <2>1, QuietReady DEF Working
<1>3. CASE BeginRender(s)
  <2>1. UNCHANGED obj /\ ReadCache(s) /\ job'.set = s /\ job'.snap = Acknowledged(cache[s])
    BY <1>3 DEF BeginRender, Take, Idle, server
  <2>2. cache[s] = obj[s]
    BY <2>1, ReadsNewest
  <2>3. job'.snap.spec = obj'[job'.set].spec
    BY <2>1, <2>2, Parts DEF Acknowledged, SetObjects
  <2>4. ReadyIsTruthful'
    BY <2>1, Zenon DEF ReadyIsTruthful
  <2>5. QED  BY <2>3, <2>4 DEF GenerationInv
<1>4. QED  BY <1>1, <1>2, <1>3 DEF Begin

\* A status that says True comes from a rendering of which nothing failed.
LEMMA StatusReady ==
  ASSUME TypeInv, SafeInv, StatusInv, Fresh, OwnedInv, RenderedInv, ReadyIsTruthful,
         GenerationInv, PatchStatus
  PROVE  ReadyIsTruthful' /\ GenerationInv'
<1>1. UNCHANGED cache /\ job' = Idle /\ job.pc = "status"
  BY FreshStatusEffect
<1>2. PICK o \in SetObjects :
        /\ (UNCHANGED <<obj, watch>> /\ obj[job.set] = o) \/ Store(job.set, o)
        /\ o.gen = obj[job.set].gen /\ o.spec = obj[job.set].spec
        /\ o.inventory = NewInventory(job) /\ o.cond = NewCondition(job)
        /\ o.observed = job.snap.gen
  BY FreshStatusEffect
<1>3. Truthful(o)
  <2>1. CASE o.cond.ready # "True" \/ o.observed # o.gen
    BY <2>1, SilentTruth
  <2>2. CASE o.cond.ready = "True" /\ o.observed = o.gen
    <3>1. job.outcome = "ok" /\ ~job.failed
      BY <1>2, <2>2 DEF NewCondition, Outcome
    <3>2. o.inventory = job.entries /\ o.cond.count = Cardinality(job.entries)
      BY <1>2, <3>1 DEF NewCondition, NewInventory, Outcome
    <3>3. /\ Renders(job.snap.spec, job.resources) /\ job.todo = <<>>
          /\ \A ref \in job.entries : \E n \in DOMAIN job.resources : job.resources[n].ref = ref
          /\ \A n \in DOMAIN job.resources : job.resources[n].ref \in job.entries
      BY <1>1, <3>1 DEF RenderedInv, AtHand
    <3>4. job.entries = {job.resources[n].ref : n \in DOMAIN job.resources}
      BY <3>3
    <3>5. Renders(o.spec, job.resources)
      BY <1>1, <1>2, <2>2, <3>3 DEF GenerationInv, Working
    <3>6. QED  BY <3>2, <3>4, <3>5, RendersTruthful
  <2>3. QED  BY <2>1, <2>2
<1>4. CASE Store(job.set, o)
  BY <1>1, <1>2, <1>3, <1>4, Parts, StoreReady DEF Working, Idle
<1>5. CASE UNCHANGED obj
  BY <1>1, <1>5, QuietReady DEF Working, Idle
<1>6. QED  BY <1>2, <1>4, <1>5

\* No other step of the worker touches a status or changes its copy.
LEMMA WorkerReady ==
  ASSUME TypeInv, SafeInv, StatusInv, Fresh, OwnedInv, RenderedInv, ReadyIsTruthful,
         GenerationInv, Worker
  PROVE  ReadyIsTruthful' /\ GenerationInv'
<1>1. job.set \in Sets /\ job \in Jobs /\ obj[job.set] \in SetObjects
  BY Parts
<1>2. CASE AddFinalizer
  <2> DEFINE new == [obj[job.set] EXCEPT !.finalizer = TRUE]
  <2>1. job' = Idle
    BY <1>2 DEF AddFinalizer, Retry
  <2>2. CASE Store(job.set, new)
    <3>1. /\ new \in SetObjects /\ new.gen = obj[job.set].gen /\ new.spec = obj[job.set].spec
          /\ new.cond = obj[job.set].cond /\ new.inventory = obj[job.set].inventory
          /\ new.observed = obj[job.set].observed
      BY <1>1 DEF SetObjects
    <3> HIDE DEF new
    <3>2. Truthful(obj[job.set])
      BY <1>1, TruthfulSets
    <3>3. Truthful(new)
      BY <3>1, <3>2, SameTruth
    <3>4. QED  BY <1>1, <2>1, <2>2, <3>1, <3>3, StoreReady
  <2>3. CASE UNCHANGED obj
    BY <2>1, <2>3, QuietReady DEF Working, Idle
  <2>4. QED  BY <1>2, <2>2, <2>3 DEF AddFinalizer, server
<1>3. CASE RemoveFinalizer
  <2>1. job' = Idle
    BY <1>3 DEF RemoveFinalizer, Retry, Finish
  <2>2. CASE Store(job.set, Removed(obj[job.set]))
    <3>1. Removed(obj[job.set]) \in SetObjects /\ Removed(obj[job.set]).cond = Unset
      BY <1>1, RemovedValues
    <3> HIDE DEF Removed
    <3>2. Truthful(Removed(obj[job.set]))
      BY <3>1, SilentTruth DEF Unset
    <3>3. ~(job' = job /\ Working)
      BY <2>1 DEF Idle, Working
    <3>4. QED  BY <1>1, <2>1, <2>2, <3>1, <3>2, <3>3, StoreReady
  <2>3. CASE UNCHANGED obj
    BY <2>1, <2>3, QuietReady DEF Working, Idle
  <2>4. QED  BY <1>3, <2>2, <2>3 DEF RemoveFinalizer, server
<1>4. CASE FinalizeOne
  <2>1. UNCHANGED obj /\ job'.pc \in {"idle", "finalize"}
    BY <1>1, <1>4 DEF FinalizeOne, Retry, Idle, Jobs, server
  <2>2. QED  BY <2>1, QuietReady DEF Working
<1>5. CASE \/ Render \/ GetExisting \/ PatchResource \/ CreateResource \/ EndApply
           \/ PruneOne \/ EndPrune
  <2>1. UNCHANGED obj
    <3>1. Render => UNCHANGED obj
      BY Zenon DEF Render, server
    <3>2. QED
      BY <1>5, <3>1 DEF GetExisting, PatchResource, CreateResource, EndApply, PruneOne,
                        EndPrune, server
  <2>2. job'.set = job.set /\ job'.snap = job.snap
    <3>1. CASE Render
      BY <3>1, RenderEffect
    <3>2. CASE GetExisting
      BY <3>2, AfterGet
    <3>3. CASE PatchResource \/ CreateResource
      BY <1>1, <3>3, AfterWrite, AfterOne
    <3>4. CASE EndApply \/ PruneOne \/ EndPrune
      BY <1>1, <3>4 DEF EndApply, PruneOne, EndPrune, Jobs
    <3>5. QED  BY <1>5, <3>1, <3>2, <3>3, <3>4
  <2>3. Working
    BY <1>5, RenderEffect, AfterWrite, AfterGet DEF EndApply, PruneOne, EndPrune, Working
  <2>4. QED  BY <2>1, <2>2, <2>3, QuietReady
<1>6. CASE PatchStatus
  BY <1>6, StatusReady
<1>7. CASE Unread
  BY <1>7, FreshReads
<1>8. QED
  BY <1>2, <1>3, <1>4, <1>5, <1>6, <1>7 DEF Worker, Unread

\* ReadyInv is inductive, with the invariants of ownership.
LEMMA NextReadyInv ==
  IndInv /\ FreshInv /\ ReadyInv /\ [Next]_vars => ReadyInv'
<1> SUFFICES ASSUME IndInv, FreshInv, ReadyInv, [Next]_vars PROVE ReadyInv'
  OBVIOUS
<1>1. TypeInv /\ SafeInv /\ StatusInv /\ RenderedInv /\ RenderedInv'
  BY NextRenderedInv DEF IndInv, ReadyInv
<1>2. ASSUME Fresh PROVE ReadyIsTruthful' /\ GenerationInv'
  <2>1. ~Crash /\ OwnedInv /\ ReadyIsTruthful /\ GenerationInv
    BY <1>2 DEF Fresh, Crash, FreshInv, ReadyInv
  <2>2. CASE UNCHANGED vars
    BY <2>1, <2>2, QuietReady DEF vars, Working
  <2>3. CASE Users
    BY <1>1, <2>1, <2>3, UsersReady
  <2>4. CASE \E s \in Sets : Deliver(s) \/ TimerFire(s) \/ Begin(s) \/ ClientFailure(s)
    BY <1>1, <1>2, <2>1, <2>4, ManagerReady
  <2>5. CASE Worker
    BY <1>1, <1>2, <2>1, <2>5, WorkerReady
  <2>6. QED  BY <2>1, <2>2, <2>3, <2>4, <2>5 DEF Next
<1>3. Fresh' <=> Fresh
  BY DEF Fresh
<1>4. QED  BY <1>1, <1>2, <1>3 DEF ReadyInv

LEMMA InitReadyInv == Init => ReadyInv
<1>1. Idle.pc = "idle" /\ NoSet.cond.ready = "Unset"
  BY DEF Idle, NoSet, Unset
<1>2. Init => RenderedInv /\ GenerationInv
  BY <1>1 DEF Init, RenderedInv, GenerationInv, AtHand, Working
<1>3. Init => ReadyIsTruthful
  BY <1>1, SilentTruth, TruthfulSets DEF Init
<1>4. QED  BY <1>2, <1>3 DEF ReadyInv

\* A set that is Ready for its generation records what its spec renders, with
\* fresh reads and the faults that a retry repairs.
THEOREM ReadySafe == Fresh => (Spec => []ReadyIsTruthful)
<1>1. SUFFICES ASSUME Fresh PROVE Spec => []ReadyIsTruthful
  OBVIOUS
<1>2. ReadyInv => ReadyIsTruthful
  BY <1>1 DEF ReadyInv
<1>3. QED  BY <1>2, FreshSafe, InitReadyInv, NextReadyInv, PTL DEF Spec

-----------------------------------------------------------------------------
(* Copies of one generation agree. *)

\* What may be written over p: another generation, or the same of the same.
Later(p, o) ==
  \/ o.gen = p.gen + 1
  \/ o.gen = p.gen /\ (o.exists => Same(o, p))

\* A write stores what it is given, as a version of its own.
LEMMA StoreWrites ==
  ASSUME TypeInv, NEW s \in Sets, NEW o \in SetObjects, Store(s, o)
  PROVE  \E new \in SetObjects :
           /\ obj'[s] = new /\ watch'[s] = watch[s] \cup {new}
           /\ new.gen = o.gen /\ new.exists = o.exists /\ new.spec = o.spec
           /\ new.suspend = o.suspend /\ new.deleting = o.deleting
           /\ new.inventory = o.inventory
           /\ \A t \in Sets \ {s} : obj'[t] = obj[t] /\ watch'[t] = watch[t]
<1> DEFINE new == [o EXCEPT !.rv = obj[s].rv + 1]
<1>1. obj[s].rv + 1 \in Nat
  BY VersionsAreNat
<1>2. /\ new \in SetObjects /\ new.gen = o.gen /\ new.exists = o.exists /\ new.spec = o.spec
      /\ new.suspend = o.suspend /\ new.deleting = o.deleting /\ new.inventory = o.inventory
  BY <1>1 DEF SetObjects
<1>3. obj' = [obj EXCEPT ![s] = new] /\ watch' = [watch EXCEPT ![s] = @ \cup {new}]
  BY DEF Store
<1> HIDE DEF new
<1>4. /\ obj'[s] = new /\ watch'[s] = watch[s] \cup {new}
      /\ \A t \in Sets \ {s} : obj'[t] = obj[t] /\ watch'[t] = watch[t]
  BY <1>3, Parts DEF TypeOK
<1>5. QED  BY <1>2, <1>4

\* Copies go on agreeing when a later set is written.
LEMMA StoreCopies ==
  ASSUME TypeInv, CopiesInv, NEW s \in Sets, NEW o \in SetObjects, Store(s, o),
         Later(obj[s], o), UNCHANGED cache
  PROVE  CopiesInv'
<1>1. PICK new \in SetObjects :
        /\ obj'[s] = new /\ watch'[s] = watch[s] \cup {new}
        /\ new.gen = o.gen /\ new.exists = o.exists /\ new.spec = o.spec
        /\ new.suspend = o.suspend /\ new.deleting = o.deleting
        /\ \A t \in Sets \ {s} : obj'[t] = obj[t] /\ watch'[t] = watch[t]
  BY StoreWrites
<1>2. Later(obj[s], new) /\ obj[s].gen \in Nat /\ new.gen \in Nat
  BY <1>1, Parts, NumbersAreNat DEF Later, Same
<1>3. ASSUME NEW w \in Known(s)
      PROVE  w.gen <= new.gen /\ (w.gen = new.gen /\ new.exists => Same(w, new))
  <2>1. /\ w.gen <= obj[s].gen /\ w.gen \in Nat
        /\ w.gen = obj[s].gen /\ obj[s].exists => Same(w, obj[s])
    BY KnownAreSets, NumbersAreNat DEF CopiesInv
  <2>2. QED  BY <1>2, <2>1 DEF Later, Same
<1>4. new.gen <= new.gen /\ (new.exists => Same(new, new))
  BY <1>2 DEF Same
<1>5. Known(s)' = Known(s) \cup {new} /\ \A t \in Sets \ {s} : Known(t)' = Known(t)
  BY <1>1 DEF Known
<1>6. ASSUME NEW t \in Sets, NEW w \in Known(t)'
      PROVE  w.gen <= obj'[t].gen /\ (w.gen = obj'[t].gen /\ obj'[t].exists => Same(w, obj'[t]))
  <2>1. CASE t = s
    BY <1>1, <1>3, <1>4, <1>5, <2>1
  <2>2. CASE t # s
    BY <1>1, <1>5, <2>2 DEF CopiesInv
  <2>3. QED  BY <2>1, <2>2
<1>7. QED  BY <1>6 DEF CopiesInv, Same, Known

\* Whatever users write is later than what was there.
LEMMA UsersWrite ==
  ASSUME TypeInv, Users
  PROVE  /\ UNCHANGED <<cache, job, timer>>
         /\ \/ /\ UNCHANGED <<obj, watch>>
               /\ \/ \E s \in Sets : ChangeSource(s)
                  \/ \E id \in UserIds : UserCreateResource(id) \/ UserDeleteResource(id)
            \/ \E s \in Sets, o \in SetObjects :
                 /\ Store(s, o) /\ Later(obj[s], o) /\ UNCHANGED <<cluster, data, queue>>
                 /\ o.inventory \in {obj[s].inventory, {}}
                 /\ obj[s].exists /\ obj[s].deleting /\ obj[s].finalizer => o.deleting
                 /\ o.exists \/ ~obj[s].finalizer
<1>1. ASSUME NEW s \in Sets, EditSpec(s) \/ ToggleSuspend(s) \/ RequestReconcile(s)
                               \/ (DeleteSet(s) /\ obj[s].finalizer)
      PROVE  \E o \in SetObjects :
               /\ EditSet(s, o) /\ Later(obj[s], o) /\ o.inventory = obj[s].inventory
               /\ obj[s].deleting => o.deleting
               /\ o.exists
  <2> PICK spec \in Specs : \E o \in Edited(s, spec) : EditSet(s, o) /\ obj[s].exists
    BY <1>1, SpecsAssumption
    DEF EditSpec, ToggleSuspend, RequestReconcile, DeleteSet, Edited
  <2>1. PICK o \in Edited(s, spec) : EditSet(s, o) /\ obj[s].exists
    OBVIOUS
  <2>2. /\ o \in SetObjects /\ o.inventory = obj[s].inventory
    BY <2>1, EditedValues
  <2>3. /\ Later(obj[s], o) /\ (obj[s].deleting => o.deleting) /\ o.exists
    BY <2>1, Parts, ZenonT(40) DEF Edited, Later, Same, SetObjects
  <2>4. QED  BY <2>1, <2>2, <2>3
<1>2. ASSUME NEW s \in Sets, CreateSet(s)
      PROVE  \E o \in SetObjects :
               EditSet(s, o) /\ Later(obj[s], o) /\ o.inventory = {} /\ o.exists /\ ~obj[s].exists
  <2>1. PICK spec \in Specs, suspend \in BOOLEAN :
          EditSet(s, [NoSet EXCEPT !.exists = TRUE, !.spec = spec,
                                   !.suspend = suspend, !.gen = obj[s].gen + 1])
    BY <1>2 DEF CreateSet
  <2> DEFINE new == [NoSet EXCEPT !.exists = TRUE, !.spec = spec,
                                  !.suspend = suspend, !.gen = obj[s].gen + 1]
  <2>2. obj[s].gen + 1 \in Nat /\ ~obj[s].exists
    BY <1>2, Parts, NumbersAreNat DEF CreateSet
  <2>3. NoSet \in SetObjects /\ NoSet.inventory = {}
    BY InitialValues DEF NoSet
  <2>4. new \in SetObjects /\ new.inventory = {} /\ new.exists /\ new.gen = obj[s].gen + 1
    BY <2>2, <2>3 DEF SetObjects
  <2>5. EditSet(s, new)
    BY <2>1
  <2> HIDE DEF new
  <2>6. QED  BY <2>2, <2>4, <2>5 DEF Later
<1>3. ASSUME NEW s \in Sets, DeleteSet(s), ~obj[s].finalizer
      PROVE  \E o \in SetObjects : EditSet(s, o) /\ Later(obj[s], o) /\ o.inventory = {}
  <2>1. EditSet(s, Removed(obj[s]))
    BY <1>3 DEF DeleteSet
  <2>2. /\ Removed(obj[s]) \in SetObjects /\ Removed(obj[s]).inventory = {}
        /\ ~Removed(obj[s]).exists
    BY RemovedValues
  <2>3. Removed(obj[s]).gen = obj[s].gen
    BY Parts DEF Removed, NoSet
  <2> HIDE DEF Removed
  <2>4. QED  BY <2>1, <2>2, <2>3 DEF Later
<1>4. \A s \in Sets : \A o \in SetObjects :
        EditSet(s, o) => Store(s, o) /\ UNCHANGED <<cache, job, timer, cluster, data, queue>>
  BY DEF EditSet, UserStep
<1>5. CASE \/ \E s \in Sets : ChangeSource(s)
           \/ \E id \in UserIds : UserCreateResource(id) \/ UserDeleteResource(id)
  BY <1>5 DEF UserStep, ChangeSource, UserCreateResource, UserDeleteResource, server
<1>6. CASE \E s \in Sets : \/ CreateSet(s) \/ EditSpec(s) \/ ToggleSuspend(s)
                           \/ RequestReconcile(s) \/ DeleteSet(s)
  BY <1>1, <1>2, <1>3, <1>4, <1>6
<1>7. QED
  BY <1>5, <1>6 DEF Users

\* What the worker writes over a set is of the same generation, if it is there, and its
\* inventory is the same, empty or the new one.
LEMMA WorkerWrite ==
  ASSUME TypeInv, Worker
  PROVE  /\ UNCHANGED <<cache, data>>
         /\ \/ UNCHANGED <<obj, watch>>
            \/ \E o \in SetObjects :
                 /\ Store(job.set, o) /\ Later(obj[job.set], o)
                 /\ \/ o.inventory \in {{}, obj[job.set].inventory}
                    \/ PatchStatus /\ o.inventory = NewInventory(job)
<1> DEFINE s == job.set
<1>1. obj[s] \in SetObjects /\ s \in Sets
  BY Parts
<1>2. CASE AddFinalizer
  <2> DEFINE new == [obj[s] EXCEPT !.finalizer = TRUE]
  <2>1. UNCHANGED <<cache, data>> /\ (UNCHANGED <<obj, watch>> \/ (obj[s].exists /\ Store(s, new)))
    BY <1>2 DEF AddFinalizer, Current, server
  <2>2. /\ new \in SetObjects /\ new.inventory = obj[s].inventory
        /\ obj[s].exists => Later(obj[s], new)
    BY <1>1 DEF SetObjects, Later, Same
  <2> HIDE DEF new
  <2>3. QED  BY <2>1, <2>2
<1>3. CASE RemoveFinalizer
  <2>1. UNCHANGED <<cache, data>> /\ (UNCHANGED <<obj, watch>> \/ Store(s, Removed(obj[s])))
    BY <1>3 DEF RemoveFinalizer, server
  <2>2. /\ Removed(obj[s]) \in SetObjects /\ ~Removed(obj[s]).exists
        /\ Removed(obj[s]).inventory = {}
    BY RemovedValues, <1>1
  <2>3. Removed(obj[s]).gen = obj[s].gen
    BY <1>1 DEF Removed, NoSet
  <2> HIDE DEF Removed
  <2>4. QED  BY <2>1, <2>2, <2>3 DEF Later
<1>4. CASE PatchStatus
  <2>1. PICK reworded \in BOOLEAN :
          UNCHANGED server \/ (obj[s].exists /\ StoreStatus(s, NewStatus(job), reworded))
    BY <1>4 DEF PatchStatus
  <2> DEFINE patched == Patched(obj[s], cache[s], NewStatus(job), reworded)
  <2>2. patched \in SetObjects
    BY <1>4, PatchedType DEF PatchStatus
  <2>3. obj[s].exists => Later(obj[s], patched)
    BY <1>1 DEF Later, Same, Patched, SetObjects
  <2>4. UNCHANGED <<obj, watch>> \/ (obj[s].exists /\ Store(s, patched))
    BY <2>1 DEF StoreStatus, server
  <2>5. UNCHANGED <<cache, data>>
    BY <1>4 DEF PatchStatus
  <2>6. patched.inventory \in {obj[s].inventory, NewInventory(job)}
    <3>1. NewStatus(job).inventory = NewInventory(job)
      BY Parts DEF NewStatus, SetObjects
    <3>2. QED  BY <1>1, <3>1 DEF Patched, SetObjects
  <2> HIDE DEF patched
  <2>7. QED  BY <1>4, <2>2, <2>3, <2>4, <2>5, <2>6
<1>5. CASE Render
  BY <1>5, Zenon DEF Render, server
<1>6. CASE \/ FinalizeOne \/ GetExisting \/ PatchResource \/ CreateResource
           \/ EndApply \/ PruneOne \/ EndPrune \/ Unread
  BY <1>6, UnreadWrites DEF FinalizeOne, GetExisting, PatchResource, CreateResource,
              EndApply, PruneOne, EndPrune, server
<1>7. QED
  BY <1>2, <1>3, <1>4, <1>5, <1>6 DEF Worker, Unread

\* CopiesInv is inductive.
LEMMA NextCopiesInv == TypeInv /\ CopiesInv /\ [Next]_vars => CopiesInv'
<1> SUFFICES ASSUME TypeInv, CopiesInv, [Next]_vars PROVE CopiesInv'
  OBVIOUS
<1>1. ASSUME UNCHANGED obj, \A s \in Sets : Known(s)' \subseteq Known(s)
      PROVE  CopiesInv'
  BY <1>1 DEF CopiesInv
<1>2. CASE UNCHANGED <<obj, watch, cache>>
  BY <1>1, <1>2 DEF Known
<1>3. CASE Users \/ Worker
  BY <1>2, <1>3, UsersWrite, WorkerWrite, StoreCopies, Parts
<1>4. ASSUME NEW s \in Sets, Deliver(s) PROVE CopiesInv'
  <2>1. PICK o \in watch[s] :
          /\ cache' = [cache EXCEPT ![s] = o]
          /\ watch' = [watch EXCEPT ![s] = {w \in @ : w.rv > o.rv}]
    BY <1>4 DEF Deliver
  <2>2. /\ cache'[s] = o /\ watch'[s] = {w \in watch[s] : w.rv > o.rv}
        /\ \A t \in Sets \ {s} : cache'[t] = cache[t] /\ watch'[t] = watch[t]
    BY <2>1, Parts DEF TypeOK
  <2>3. \A t \in Sets : Known(t)' \subseteq Known(t)
    BY <2>2 DEF Known
  <2>4. UNCHANGED obj
    BY <1>4 DEF Deliver
  <2>5. QED  BY <1>1, <2>3, <2>4
<1>5. CASE Crash
  <2>1. UNCHANGED obj /\ cache' = obj /\ watch' = [s \in Sets |-> {}]
    BY <1>5 DEF Crash
  <2>2. \A s \in Sets : Known(s)' = {obj[s]}
    BY <2>1 DEF Known
  <2>3. \A s \in Sets : obj[s].gen \in Nat
    BY Parts, NumbersAreNat
  <2>4. \A s \in Sets : obj[s].exists => Same(obj[s], obj[s])
    BY DEF Same
  <2>5. QED  BY <2>1, <2>2, <2>3, <2>4 DEF CopiesInv, Same
<1>6. CASE \/ UNCHANGED vars
           \/ \E s \in Sets : TimerFire(s) \/ ClientFailure(s) \/ Begin(s)
  BY <1>2, <1>6
  DEF vars, TimerFire, ClientFailure, Begin, SkipReconcile, BeginAddFinalizer,
      BeginFinalize, BeginRender, Take, server
<1>7. QED
  BY <1>3, <1>4, <1>5, <1>6 DEF Next

-----------------------------------------------------------------------------
(* Pruning spares what was rendered. *)

\* What is at hand may be rendered, and so may what is recorded of it.
LEMMA HandIsRendered ==
  ASSUME TypeInv, RenderedInv, AtHand
  PROVE  /\ \A n \in DOMAIN job.resources : job.resources[n].ref \in AllRendered
         /\ job.entries \subseteq AllRendered
<1>1. job.snap.spec \in Specs
  BY Parts DEF SetObjects
<1>2. PICK d \in Data : Rendering[job.snap.spec, d].objs = job.resources
  BY Zenon DEF RenderedInv, Renders
<1>3. \A n \in DOMAIN job.resources :
        job.resources[n].ref \in RefsOf(Rendering[job.snap.spec, d])
  BY <1>2 DEF RefsOf
<1>4. <<job.snap.spec, d>> \in Specs \X Data
  BY <1>1
<1>5. \A n \in DOMAIN job.resources : job.resources[n].ref \in AllRendered
  BY <1>3, <1>4, Zenon DEF AllRendered
<1>6. QED  BY <1>5 DEF RenderedInv

\* A write of an inventory that may be rendered.
LEMMA StoreRecord ==
  ASSUME TypeInv, RecordInv, NEW s \in Sets, NEW o \in SetObjects, Store(s, o),
         o.inventory \subseteq AllRendered, UNCHANGED cache,
         job'.snap.inventory \subseteq AllRendered
  PROVE  RecordInv'
<1>1. PICK new \in SetObjects :
        /\ obj'[s] = new /\ watch'[s] = watch[s] \cup {new} /\ new.inventory = o.inventory
        /\ \A t \in Sets \ {s} : obj'[t] = obj[t] /\ watch'[t] = watch[t]
  BY StoreWrites
<1>2. \A t \in Sets : Known(t)' \cup {obj'[t]} \subseteq Known(t) \cup {obj[t], new}
  BY <1>1 DEF Known
<1>3. \A t \in Sets : \A w \in Known(t)' \cup {obj'[t]} : w.inventory \subseteq AllRendered
  BY <1>1, <1>2 DEF RecordInv
<1>4. QED  BY <1>3 DEF RecordInv, AllRendered, RefsOf

\* A step that takes no inventory from elsewhere.
LEMMA QuietRecord ==
  ASSUME RecordInv, UNCHANGED obj, \A s \in Sets : Known(s)' \subseteq Known(s) \cup {obj[s]},
         job'.snap.inventory \subseteq AllRendered
  PROVE  RecordInv'
BY DEF RecordInv, AllRendered, RefsOf

\* The worker keeps its copy until it is done.
LEMMA WorkerSnap ==
  ASSUME TypeInv, Worker
  PROVE  job'.snap = job.snap \/ job' = Idle
<1>1. CASE AddFinalizer \/ RemoveFinalizer \/ FinalizeUnreadable \/ PatchStatus
  BY <1>1
  DEF AddFinalizer, RemoveFinalizer, FinalizeUnreadable, PatchStatus, AfterStatus, Retry, Finish
<1>2. CASE FinalizeOne \/ EndApply \/ PruneOne \/ EndPrune
  BY <1>2, Parts DEF FinalizeOne, EndApply, PruneOne, EndPrune, Retry, Jobs
<1>3. CASE Render \/ GetExisting \/ GetUnreadable \/ PruneUnreadable
  BY <1>3, RenderEffect, AfterGet, AfterUnreadable, AfterPruneUnreadable
<1>4. CASE PatchResource \/ CreateResource
  BY <1>4, Parts, AfterWrite, AfterOne
<1>5. QED  BY <1>1, <1>2, <1>3, <1>4 DEF Worker

\* Every step keeps RecordInv.
LEMMA NextRecordInv == TypeInv /\ RenderedInv /\ RecordInv /\ [Next]_vars => RecordInv'
<1> SUFFICES ASSUME TypeInv, RenderedInv, RecordInv, [Next]_vars PROVE RecordInv'
  OBVIOUS
<1>1. /\ job.set \in Sets /\ job.snap.inventory \subseteq AllRendered
      /\ Idle.snap.inventory \subseteq AllRendered
      /\ \A s \in Sets : /\ obj[s].inventory \subseteq AllRendered
                          /\ cache[s].inventory \subseteq AllRendered
  BY Parts DEF RecordInv, Known, Idle, NoSet
<1>2. CASE UNCHANGED vars
  BY <1>1, <1>2, QuietRecord DEF vars, Known
<1>3. CASE Users
  <2>1. CASE UNCHANGED <<obj, watch>>
    BY <1>1, <1>3, <2>1, UsersWrite, QuietRecord DEF Known
  <2>2. CASE ~UNCHANGED <<obj, watch>>
    <3>1. PICK s \in Sets, o \in SetObjects :
            Store(s, o) /\ o.inventory \in {obj[s].inventory, {}}
      BY <1>3, <2>2, UsersWrite
    <3>2. UNCHANGED <<cache, job>> /\ o.inventory \subseteq AllRendered
      BY <1>1, <1>3, <3>1, UsersWrite
    <3>3. QED  BY <1>1, <3>1, <3>2, StoreRecord
  <2>3. QED  BY <2>1, <2>2
<1>4. CASE Worker
  <2>1. UNCHANGED cache /\ job'.snap.inventory \subseteq AllRendered
    BY <1>1, <1>4, WorkerWrite, WorkerSnap
  <2>2. CASE UNCHANGED <<obj, watch>>
    BY <2>1, <2>2, QuietRecord DEF Known
  <2>3. CASE ~UNCHANGED <<obj, watch>>
    <3>1. PICK o \in SetObjects :
            /\ Store(job.set, o)
            /\ \/ o.inventory \in {{}, obj[job.set].inventory}
               \/ PatchStatus /\ o.inventory = NewInventory(job)
      BY <1>4, <2>3, WorkerWrite
    <3>2. PatchStatus => NewInventory(job) \subseteq AllRendered
      BY <1>1, HandIsRendered DEF PatchStatus, AtHand, NewInventory
    <3>3. o.inventory \subseteq AllRendered
      BY <1>1, <3>1, <3>2
    <3>4. QED  BY <1>1, <2>1, <3>1, <3>3, StoreRecord
  <2>4. QED  BY <2>2, <2>3
<1>5. ASSUME NEW s \in Sets, Deliver(s) PROVE RecordInv'
  <2>1. PICK o \in watch[s] :
          /\ cache' = [cache EXCEPT ![s] = o]
          /\ watch' = [watch EXCEPT ![s] = {w \in @ : w.rv > o.rv}]
    BY <1>5 DEF Deliver
  <2>2. /\ cache'[s] = o /\ watch'[s] = {w \in watch[s] : w.rv > o.rv}
        /\ \A t \in Sets \ {s} : cache'[t] = cache[t] /\ watch'[t] = watch[t]
    BY <2>1, Parts DEF TypeOK
  <2>3. \A t \in Sets : Known(t)' \subseteq Known(t)
    BY <2>2 DEF Known
  <2>4. UNCHANGED <<obj, job>>
    BY <1>5 DEF Deliver
  <2>5. QED  BY <1>1, <2>3, <2>4, QuietRecord
<1>6. CASE Crash
  <2>1. UNCHANGED obj /\ job' = Idle /\ cache' = obj /\ watch' = [s \in Sets |-> {}]
    BY <1>6 DEF Crash
  <2>2. \A s \in Sets : Known(s)' = {obj[s]}
    BY <2>1 DEF Known
  <2>3. QED  BY <1>1, <2>1, <2>2, QuietRecord
<1>7. ASSUME NEW s \in Sets, TimerFire(s) \/ ClientFailure(s) \/ Begin(s) PROVE RecordInv'
  <2>1. UNCHANGED <<obj, watch, cache>>
    BY <1>7 DEF TimerFire, ClientFailure, Begin, SkipReconcile, BeginAddFinalizer,
                BeginFinalize, BeginRender, Take, server
  <2>2. job' = job \/ job'.snap \in {cache[s], Acknowledged(cache[s])}
    BY <1>7 DEF TimerFire, ClientFailure, Begin, SkipReconcile, BeginAddFinalizer,
                BeginFinalize, BeginRender, Idle
  <2>3. Acknowledged(cache[s]).inventory = cache[s].inventory
    BY Parts DEF Acknowledged, SetObjects
  <2>4. job'.snap.inventory \subseteq AllRendered
    BY <1>1, <2>2, <2>3
  <2>5. QED  BY <2>1, <2>4, QuietRecord DEF Known
<1>8. QED
  BY <1>2, <1>3, <1>4, <1>5, <1>6, <1>7 DEF Next

\* What may not change while a reconciliation prunes.
Spares ==
  job.pc = "prune" /\ UNCHANGED userOps =>
    \A n \in DOMAIN job.resources :
      LET id == job.resources[n].ref.id IN cluster'[id] = cluster[id]

\* What is pruned is recorded, readable and no entry.  A rendered resource that is
\* recorded and readable is an entry, and one reference is all it has.
LEMMA PruneSpares ==
  FixedVersions /\ IndInv /\ RenderedInv /\ RecordInv /\ [Next]_vars => Spares
<1> SUFFICES ASSUME FixedVersions, IndInv, RenderedInv, RecordInv, [Next]_vars,
                    job.pc = "prune", UNCHANGED userOps
             PROVE  \A n \in DOMAIN job.resources :
                      cluster'[job.resources[n].ref.id] = cluster[job.resources[n].ref.id]
  BY DEF Spares
<1>1. TypeInv /\ AppliedInv
  BY DEF IndInv
<1>2. ~Users
  <2>1. userOps \in Nat
    BY <1>1, BoundsAssumption DEF TypeInv, TypeOK
  <2>2. UserStep => userOps' = userOps + 1
    BY DEF UserStep
  <2>3. ~UserStep
    BY <2>1, <2>2
  <2>4. QED
    BY <2>3 DEF Users, CreateSet, EditSpec, ToggleSuspend, RequestReconcile, DeleteSet,
      ChangeSource, EditSet, UserCreateResource, UserDeleteResource
<1>3. CASE PruneOne
  <2>1. PICK ref \in job.remove : Readable(ref) /\ (Delete(ref.id) \/ UNCHANGED cluster)
    BY <1>3 DEF PruneOne
  <2>2. ref \in job.snap.inventory /\ ref \notin job.entries /\ ref \in AllRendered
    BY <2>1 DEF IndInv, AppliedInv, RecordInv
  <2>3. ASSUME NEW n \in DOMAIN job.resources
        PROVE  job.resources[n].ref.id # ref.id /\ job.resources[n].ref.id \in Ids
    <3>1. job.resources[n].ref \in AllRendered
      BY <1>1, HandIsRendered DEF AtHand
    <3>2. Recorded(job, job.resources[n].ref)
      BY <1>1, AppliedParts
    <3>3. job.resources[n].ref # ref
      BY <2>1, <2>2, <3>2 DEF Recorded
    <3>4. job.resources[n].ref.id # ref.id
      BY <2>2, <3>1, <3>3 DEF FixedVersions
    <3>5. job.resources[n] \in Rendered
      BY <1>1, Parts
    <3>6. QED  BY <3>4, <3>5 DEF Rendered, Refs
  <2>4. QED  BY <1>1, <2>1, <2>3, Parts DEF Delete, TypeOK
<1>4. CASE ~PruneOne
  <2>1. UNCHANGED cluster
    BY <1>2, <1>4, UnreadWrites
    DEF Next, vars, Worker, Crash, Deliver, TimerFire, ClientFailure, Begin, SkipReconcile,
        BeginAddFinalizer, BeginFinalize, BeginRender, Take, Unread,
        AddFinalizer, FinalizeOne, RemoveFinalizer, Render, GetExisting, PatchResource,
        CreateResource, MayCreate, EndApply, EndPrune, PatchStatus
  <2>2. QED  BY <2>1
<1>5. QED  BY <1>3, <1>4

LEMMA InitRecordInv == Init => RecordInv
BY DEF Init, RecordInv, Known, Idle, NoSet

\* Where no template changes the API version of a resource, pruning deletes nothing that
\* this very reconciliation rendered, though reading or patching it failed, with any reads,
\* faults and restarts, and references that cannot be read.
THEOREM PruneSafe == FixedVersions => (Spec => PruneSparesRendered)
<1>1. SUFFICES ASSUME FixedVersions PROVE Spec => PruneSparesRendered
  OBVIOUS
<1>2. Init => RenderedInv
  BY DEF Init, Idle, RenderedInv, AtHand
<1>3. IndInv => TypeInv
  BY DEF IndInv
<1>4. IndInv /\ RenderedInv /\ RecordInv /\ [Next]_vars =>
        [job.pc = "prune" /\ UNCHANGED userOps =>
           \A n \in DOMAIN job.resources :
             LET id == job.resources[n].ref.id IN cluster'[id] = cluster[id]]_vars
  BY <1>1, PruneSpares DEF Spares
<1>5. QED
  BY <1>2, <1>3, <1>4, IndInvSafe, InitRecordInv, NextRenderedInv, NextRecordInv, PTL
  DEF Spec, PruneSparesRendered

-----------------------------------------------------------------------------
(* What keeps a quiet set clean: users, the informer and the timers. *)

\* A later set is quiet only if it was, and then it is of the same generation.
LEMMA QuietWrite ==
  ASSUME TypeInv, CopiesInv, NEW s \in Sets, NEW o \in SetObjects, Store(s, o),
         Later(obj[s], o), UNCHANGED cache, queue \subseteq queue', timer \subseteq timer'
  PROVE  \A t \in Sets : Quiet(t)' =>
           Quiet(t) /\ obj'[t].gen = obj[t].gen /\ obj'[t].spec = obj[t].spec
<1>1. PICK new \in SetObjects :
        /\ obj'[s] = new
        /\ new.gen = o.gen /\ new.exists = o.exists /\ new.spec = o.spec
        /\ new.suspend = o.suspend /\ new.deleting = o.deleting
        /\ \A t \in Sets \ {s} : obj'[t] = obj[t] /\ watch'[t] = watch[t]
  BY StoreWrites
<1>2. ASSUME NEW t \in Sets, Quiet(t)'
      PROVE  Quiet(t) /\ obj'[t].gen = obj[t].gen /\ obj'[t].spec = obj[t].spec
  <2>1. CASE t = s
    <3>1. cache[s].gen = new.gen /\ new.exists /\ ~new.suspend
      BY <1>1, <1>2, <2>1 DEF Quiet
    <3>2. cache[s].gen <= obj[s].gen /\ obj[s].gen \in Nat
      BY Parts, NumbersAreNat DEF CopiesInv, Known
    <3>3. new.gen = obj[s].gen /\ Same(o, obj[s])
      BY <1>1, <3>1, <3>2 DEF Later
    <3>4. QED  BY <1>1, <1>2, <2>1, <3>1, <3>3 DEF Quiet, Same
  <2>2. CASE t # s
    BY <1>1, <1>2, <2>2 DEF Quiet
  <2>3. QED  BY <2>1, <2>2
<1>3. QED  BY <1>2

\* A set is clean while its spec, its sources and the resources stay.
LEMMA SameClean ==
  ASSUME NEW s \in Sets, Clean(s), obj'[s].spec = obj[s].spec, data'[s] = data[s],
         UNCHANGED cluster
  PROVE  Clean(s)'
BY DEF Clean, OwnedIds

\* A step beside the worker that leaves the resources as they are, and after which a set
\* is quiet only if it was and its spec and sources, unless these are polled, are as they
\* were.
LEMMA AsideTidy ==
  ASSUME TypeInv, GenerationInv, TidyInv, UNCHANGED <<cluster, job>>,
         \A s \in Sets : obj'[s].inventory \in {obj[s].inventory, {}},
         \A s \in Sets : obj[s].deleting => obj'[s].deleting \/ obj'[s].inventory = {},
         job.pc = "finalize" => obj'[job.set].deleting,
         \A s \in Sets : Quiet(s)' =>
           /\ Quiet(s) /\ obj'[s].gen = obj[s].gen /\ obj'[s].spec = obj[s].spec
           /\ data'[s] = data[s] \/ obj[s].spec \in PolledSpecs
  PROVE  TidyInv'
<1>1. HeldInv'
  BY DEF TidyInv, HeldInv, Held, OneEach, IdsOf, NewInventory
<1>2. DoneInv'
  BY DEF TidyInv, DoneInv, AtHand
<1>3. CurrentInv'
  <2>1. Working' => (job'.outcome = "noArtifact" => job'.snap.spec \notin PolledSpecs)
    BY DEF TidyInv, CurrentInv, Working
  <2>2. ASSUME Working', Quiet(job.set)'
        PROVE  /\ job.snap.gen = obj'[job.set].gen
               /\ job.snap.spec \in PolledSpecs \/ data'[job.set] = data[job.set]
               /\ Working /\ Quiet(job.set)
    <3>1. Working /\ Quiet(job.set) /\ job.snap.gen = obj[job.set].gen
      BY <2>2, Parts DEF TidyInv, CurrentInv, Working
    <3>2. job.snap.spec = obj[job.set].spec
      BY <3>1 DEF GenerationInv
    <3>3. QED  BY <2>2, <3>1, <3>2, Parts
  <2>3. QED  BY <2>1, <2>2 DEF TidyInv, CurrentInv, AtHand, Now, Quiet
<1>4. QuietInv'
  BY SameClean DEF TidyInv, QuietInv
<1>5. QED  BY <1>1, <1>2, <1>3, <1>4 DEF TidyInv

\* The items of what is rendered have their types.
LEMMA ItemTypes ==
  ASSUME NEW objs \in Seq(Rendered), NEW n \in DOMAIN objs
  PROVE  objs[n].ref \in Refs /\ objs[n].ref.id \in Ids /\ objs[n].val \in Values
<1>1. objs[n] \in Rendered
  OBVIOUS
<1>2. QED  BY <1>1 DEF Rendered, Refs

\* What is at hand is out of reach of the users, with one contents for each resource.
LEMMA HandIsFree ==
  ASSUME Alone, TypeInv, RenderedInv, AtHand
  PROVE  /\ \A n \in DOMAIN job.resources : job.resources[n].ref.id \notin UserIds
         /\ \A n, m \in DOMAIN job.resources :
              job.resources[n].ref.id = job.resources[m].ref.id =>
                job.resources[n].val = job.resources[m].val
         /\ \A ref \in job.entries : ref.id \notin UserIds
         /\ job.todo # <<>> => \E n \in DOMAIN job.resources : job.resources[n] = Head(job.todo)
<1>1. PICK d \in Data : /\ Rendering[job.snap.spec, d].kind = "ok"
                        /\ Rendering[job.snap.spec, d].objs = job.resources
  BY Zenon DEF RenderedInv, Renders
<1>2. job.snap.spec \in Specs
  BY Parts DEF SetObjects
<1> DEFINE r == Rendering[job.snap.spec, d]
<1>3. /\ \A n \in DOMAIN r.objs : r.objs[n].ref.id \notin UserIds
      /\ \A n, m \in DOMAIN r.objs :
           r.objs[n].ref.id = r.objs[m].ref.id => r.objs[n].val = r.objs[m].val
  BY <1>2, Zenon DEF Alone
<1>4. r.objs = job.resources
  BY <1>1
<1> HIDE DEF r
<1>5. job.todo # <<>> => 1 \in DOMAIN job.todo /\ Head(job.todo) = job.todo[1]
  BY Parts
<1>6. /\ \A ref \in job.entries : \E n \in DOMAIN job.resources : job.resources[n].ref = ref
      /\ \A k \in DOMAIN job.todo : \E n \in DOMAIN job.resources : job.resources[n] = job.todo[k]
  BY DEF RenderedInv
<1>7. QED  BY <1>3, <1>4, <1>5, <1>6

\* Users create and delete resources that no rendering names.
LEMMA ResourceTidy ==
  ASSUME TypeInv, Alone, OwnedInv, RenderedInv, TidyInv,
         NEW id \in UserIds, UserCreateResource(id) \/ UserDeleteResource(id)
  PROVE  TidyInv'
<1>1. PICK left \in {ForeignResource, Absent} : cluster' = [cluster EXCEPT ![id] = left]
  BY DEF UserCreateResource, UserDeleteResource
<1>2. UNCHANGED <<obj, watch, cache, data, queue, timer, job>>
  BY DEF UserCreateResource, UserDeleteResource, UserStep, server
<1>3. /\ \A i \in Ids \ {id} : cluster'[i] = cluster[i]
      /\ \A s \in Sets : cluster'[id].owner # s
  BY <1>1, IdsAssumption, SetsAssumption, Parts DEF TypeOK, ForeignResource, Absent
<1>4. ASSUME NEW s \in Sets, NEW refs, refs \subseteq Refs, IdsOf(refs) \cap UserIds = {},
             Held(s, refs)
      PROVE  Held(s, refs)'
  BY <1>3, <1>4 DEF Held, OneEach, IdsOf, Refs
<1>5. AtHand => IdsOf(job.entries) \cap UserIds = {}
  BY HandIsFree DEF IdsOf
<1>6. /\ \A s \in Sets : obj[s].inventory \subseteq Refs
      /\ job.snap.inventory \subseteq Refs /\ job.entries \subseteq Refs /\ job.set \in Sets
  BY Parts DEF SetObjects
<1>7. \A s \in Sets : IdsOf(obj[s].inventory) \cap UserIds = {}
  BY DEF TidyInv, HeldInv
<1>8. job.pc \notin {"idle", "addFinalizer"} => IdsOf(job.snap.inventory) \cap UserIds = {}
  BY <1>6, <1>7 DEF OwnedInv
<1>9. HeldInv'
  <2>1. ASSUME job.pc \in {"idle", "addFinalizer"}, NEW s \in Sets
        PROVE  obj[s].deleting \/ Held(s, obj[s].inventory)'
    BY <1>2, <1>4, <1>6, <1>7, <2>1 DEF TidyInv, HeldInv
  <2>2. CASE job.pc \in {"render", "apply", "patch", "create"}
    <3>1. IdsOf(job.entries) \cap UserIds = {}
      BY <1>5, <2>2 DEF AtHand, RenderedInv, IdsOf
    <3>2. IdsOf(job.snap.inventory \cup job.entries) \cap UserIds = {}
      BY <1>8, <2>2, <3>1 DEF IdsOf
    <3>3. Held(job.set, job.snap.inventory \cup job.entries)
      BY <2>2 DEF TidyInv, HeldInv
    <3>4. Held(job.set, job.snap.inventory \cup job.entries)'
      BY <1>2, <1>4, <1>6, <3>2, <3>3 DEF Held, OneEach
    <3>5. QED  BY <1>2, <1>7, <2>2, <3>4 DEF HeldInv
  <2>3. CASE job.pc = "prune"
    <3>1. IdsOf(job.entries) \cap UserIds = {}
      BY <1>5, <2>3 DEF AtHand
    <3>2. Held(job.set, job.entries) /\ OneEach(job.entries \cup job.remove)
      BY <2>3 DEF TidyInv, HeldInv
    <3>3. Held(job.set, job.entries)'
      BY <1>2, <1>4, <1>6, <3>1, <3>2 DEF Held, OneEach
    <3>4. QED  BY <1>2, <1>7, <2>3, <3>2, <3>3 DEF HeldInv, OneEach
  <2>4. CASE job.pc = "status"
    <3> DEFINE refs == NewInventory(job)
    <3>1. IdsOf(refs) \cap UserIds = {} /\ refs \subseteq Refs
      BY <1>5, <1>6, <1>8, <2>4 DEF AtHand, NewInventory
    <3>2. Held(job.set, refs)
      BY <2>4 DEF TidyInv, HeldInv
    <3>3. NewInventory(job)' = refs
      BY <1>2 DEF NewInventory
    <3> HIDE DEF refs
    <3>4. Held(job.set, NewInventory(job))'
      BY <1>2, <1>4, <1>6, <3>1, <3>2, <3>3 DEF Held, OneEach
    <3>5. QED  BY <1>2, <1>7, <2>4, <3>4 DEF HeldInv
  <2>5. CASE job.pc = "finalize"
    BY <1>2, <1>7, <2>5 DEF TidyInv, HeldInv
  <2>6. QED  BY <1>2, <1>6, <1>7, <2>1, <2>2, <2>3, <2>4, <2>5, Parts DEF HeldInv, Jobs, Phases
<1>10. DoneInv'
  <2>1. AtHand => \A n \in DOMAIN job.resources :
                    cluster'[job.resources[n].ref.id] = cluster[job.resources[n].ref.id]
    <3>1. \A n \in DOMAIN job.resources : job.resources[n].ref.id \in Ids
      BY Parts, ItemTypes
    <3>2. QED  BY <1>3, <3>1, HandIsFree
  <2>2. job.pc = "patch" => cluster'[Head(job.todo).ref.id] = cluster[Head(job.todo).ref.id]
    <3>1. job.pc = "patch" => job.todo # <<>>
      BY DEF TypeInv
    <3>2. QED  BY <2>1, <3>1, HandIsFree DEF AtHand
  <2>3. QED  BY <1>2, <2>1, <2>2 DEF TidyInv, DoneInv, AtHand
<1>11. CurrentInv'
  BY <1>2 DEF TidyInv, CurrentInv, Working, Quiet, Now, AtHand
<1>12. QuietInv'
  <2>1. ASSUME job.pc = "idle", NEW s \in Sets, Clean(s), Quiet(s)
        PROVE  Clean(s)'
    <3>1. OwnedIds(s)' = OwnedIds(s)
      <4>1. id \notin OwnedIds(s)
        BY <1>7, <2>1 DEF OwnedInv, RecordedIds, IdsOf
      <4>2. QED  BY <1>3, <4>1 DEF OwnedIds
    <3>2. obj[s].spec \in Specs /\ data[s] \in Data
      BY Parts DEF SetObjects, TypeOK
    <3> DEFINE r == Rendering[obj[s].spec, data[s]]
    <3>3. /\ r.kind = "ok" => \A n \in DOMAIN r.objs :
                               cluster'[r.objs[n].ref.id] = cluster[r.objs[n].ref.id]
      <4>1. \A n \in DOMAIN r.objs : r.objs[n].ref.id \in Ids \ UserIds
        <5>1. r \in Renderings
          BY <3>2, RenderingAssumption
        <5>2. \A n \in DOMAIN r.objs : r.objs[n].ref.id \notin UserIds
          BY <3>2, Zenon DEF Alone
        <5> HIDE DEF r
        <5>3. r.objs \in Seq(Rendered)
          BY <5>1 DEF Renderings
        <5>4. QED  BY <5>2, <5>3, ItemTypes
      <4> HIDE DEF r
      <4>2. QED  BY <1>3, <4>1
    <3>4. obj'[s].spec = obj[s].spec /\ data'[s] = data[s]
      BY <1>2
    <3>5. Clean(s) <=> (r.kind = "ok" =>
            /\ OwnedIds(s) = IdsOf(RefsOf(r))
            /\ \A n \in DOMAIN r.objs : cluster[r.objs[n].ref.id].val = r.objs[n].val)
      BY Zenon DEF Clean
    <3>6. Clean(s)' <=> (r.kind = "ok" =>
            /\ OwnedIds(s)' = IdsOf(RefsOf(r))
            /\ \A n \in DOMAIN r.objs : cluster'[r.objs[n].ref.id].val = r.objs[n].val)
      BY <3>4, Zenon DEF Clean
    <3> HIDE DEF r
    <3>7. r.kind = "ok" =>
            /\ OwnedIds(s)' = IdsOf(RefsOf(r))
            /\ \A n \in DOMAIN r.objs : cluster'[r.objs[n].ref.id].val = r.objs[n].val
      <4>1. r.kind = "ok" =>
              /\ OwnedIds(s) = IdsOf(RefsOf(r))
              /\ \A n \in DOMAIN r.objs : cluster[r.objs[n].ref.id].val = r.objs[n].val
        BY <2>1, <3>5, Zenon
      <4>2. QED  BY <3>1, <3>3, <4>1
    <3>8. QED  BY <3>6, <3>7, Zenon
  <2>2. QED  BY <1>2, <2>1 DEF TidyInv, QuietInv, Quiet
<1>13. QED  BY <1>9, <1>10, <1>11, <1>12 DEF TidyInv

\* Users keep what is tidy: what they ask for is on its way until it is done.
LEMMA UsersTidy ==
  ASSUME TypeInv, SafeInv, Alone, OwnedInv, RenderedInv, GenerationInv, CopiesInv, TidyInv, Users
  PROVE  TidyInv'
<1>1. ASSUME NEW s \in Sets, NEW o \in SetObjects, UNCHANGED <<cache, job, timer>>,
             Store(s, o), Later(obj[s], o), UNCHANGED <<cluster, data, queue>>,
             o.inventory \in {obj[s].inventory, {}},
             obj[s].exists /\ obj[s].deleting /\ obj[s].finalizer => o.deleting,
             o.exists \/ ~obj[s].finalizer
      PROVE  TidyInv'
  <2>1. \A t \in Sets : obj[t].deleting => obj[t].exists /\ obj[t].finalizer
    BY DEF SafeInv, GuardInv
  <2>2. /\ \A t \in Sets : obj'[t].inventory \in {obj[t].inventory, {}}
        /\ \A t \in Sets : obj[t].deleting => obj'[t].deleting
    BY <1>1, <2>1, StoreWrites
  <2>3. job.pc = "finalize" => obj'[job.set].deleting
    BY <2>2, Parts DEF TidyInv, HeldInv
  <2>4. \A t \in Sets : Quiet(t)' =>
          Quiet(t) /\ obj'[t].gen = obj[t].gen /\ obj'[t].spec = obj[t].spec
    BY <1>1, QuietWrite
  <2>5. QED  BY <1>1, <2>2, <2>3, <2>4, AsideTidy
<1>2. ASSUME NEW s \in Sets, ChangeSource(s) PROVE TidyInv'
  <2>1. UNCHANGED <<obj, cache, cluster, job, timer>>
    BY <1>2 DEF ChangeSource, UserStep, server
  <2>2. \A t \in Sets \ {s} : data'[t] = data[t]
    BY <1>2, Parts DEF ChangeSource, TypeOK
  <2>3. queue \subseteq queue' /\ (cache[s].exists /\ cache[s].spec \notin PolledSpecs => s \in queue')
    BY <1>2 DEF ChangeSource
  <2>4. ASSUME NEW t \in Sets, Quiet(t)'
        PROVE  Quiet(t) /\ (data'[t] = data[t] \/ obj[t].spec \in PolledSpecs)
    <3>1. Quiet(t)
      BY <2>1, <2>3, <2>4 DEF Quiet
    <3>2. t = s => cache[s].spec = obj[s].spec /\ cache[s].spec \in PolledSpecs
      BY <2>3, <2>4, <3>1 DEF Quiet, CopiesInv, Known, Same
    <3>3. QED  BY <2>2, <3>1, <3>2
  <2>5. job.pc = "finalize" => obj'[job.set].deleting
    BY <2>1 DEF TidyInv, HeldInv
  <2>6. QED  BY <2>1, <2>4, <2>5, AsideTidy
<1>3. ASSUME NEW id \in UserIds, UserCreateResource(id) \/ UserDeleteResource(id)
      PROVE  TidyInv'
  BY <1>3, ResourceTidy
<1>4. QED
  BY <1>1, <1>2, <1>3, UsersWrite

\* A reconciliation begins with the newest copy, of which all is held that it records.
LEMMA BeginTidy ==
  ASSUME TypeInv, Fresh, OwnedInv, TidyInv, NEW s \in Sets,
         BeginAddFinalizer(s) \/ BeginFinalize(s) \/ BeginRender(s)
  PROVE  TidyInv'
<1>1. /\ UNCHANGED <<obj, cluster>> /\ cache[s] = obj[s] /\ job.pc = "idle"
      /\ cache[s] \in SetObjects
  BY ReadsNewest, Parts DEF BeginAddFinalizer, BeginFinalize, BeginRender, Take, server
<1>2. /\ job'.set = s /\ job'.outcome = "ok" /\ job'.entries = {}
      /\ \/ job'.pc = "addFinalizer"
         \/ job'.pc = "finalize" /\ obj[s].deleting
         \/ /\ job'.pc = "render" /\ ~obj[s].deleting
            /\ job'.snap.inventory = obj[s].inventory /\ job'.snap.gen = obj[s].gen
  <2>1. Idle \in Jobs /\ Idle.outcome = "ok" /\ Idle.entries = {}
    BY InitialValues DEF Idle
  <2>2. CASE BeginAddFinalizer(s)
    BY <2>1, <2>2 DEF BeginAddFinalizer, Jobs
  <2>3. CASE BeginFinalize(s)
    BY <1>1, <2>1, <2>3 DEF BeginFinalize, Jobs
  <2>4. CASE BeginRender(s)
    <3>1. /\ Acknowledged(cache[s]).inventory = obj[s].inventory
          /\ Acknowledged(cache[s]).gen = obj[s].gen
      BY <1>1 DEF Acknowledged, SetObjects
    <3> HIDE DEF Acknowledged
    <3>2. QED  BY <1>1, <2>1, <2>4, <3>1 DEF BeginRender, Jobs
  <2>5. QED  BY <2>2, <2>3, <2>4
<1>3. \A t \in Sets : obj[t].deleting \/ Held(t, obj[t].inventory)
  BY <1>1 DEF TidyInv, HeldInv
<1>4. HeldInv'
  BY <1>1, <1>2, <1>3 DEF TidyInv, HeldInv, Held, OneEach, IdsOf
<1>5. DoneInv' /\ CurrentInv' /\ QuietInv'
  BY <1>1, <1>2 DEF DoneInv, CurrentInv, QuietInv, AtHand, Working
<1>6. QED  BY <1>4, <1>5 DEF TidyInv

\* The informer and the timers leave no set quiet that was not, and a worker that passes a
\* set by leaves it suspended or gone.
LEMMA ManagerTidy ==
  ASSUME TypeInv, SafeInv, Fresh, OwnedInv, GenerationInv, TidyInv, NEW s \in Sets,
         Deliver(s) \/ TimerFire(s) \/ ClientFailure(s) \/ Begin(s)
  PROVE  TidyInv'
<1>1. job.pc = "finalize" => obj[job.set].deleting
  BY DEF TidyInv, HeldInv
<1>2. CASE Deliver(s)
  <2>1. UNCHANGED <<obj, cluster, data, job, timer>>
    BY <1>2 DEF Deliver
  <2>2. PICK o \in watch[s] : /\ cache' = [cache EXCEPT ![s] = o]
                              /\ queue' = IF Triggers(cache[s], o) THEN queue \cup {s} ELSE queue
    BY <1>2 DEF Deliver
  <2>3. cache'[s] = o /\ \A t \in Sets \ {s} : cache'[t] = cache[t]
    BY <2>2, Parts DEF TypeOK
  <2>4. ASSUME NEW t \in Sets, Quiet(t)' PROVE Quiet(t)
    BY <2>1, <2>2, <2>3, <2>4 DEF Quiet, Triggers
  <2>5. QED  BY <1>1, <2>1, <2>4, AsideTidy
<1>3. CASE TimerFire(s) \/ ClientFailure(s)
  <2>1. UNCHANGED <<obj, cache, cluster, data, job>>
    BY <1>3 DEF TimerFire, ClientFailure, server
  <2>2. ASSUME NEW t \in Sets, Quiet(t)' PROVE Quiet(t)
    BY <1>3, <2>1, <2>2 DEF Quiet, TimerFire, ClientFailure
  <2>3. QED  BY <1>1, <2>1, <2>2, AsideTidy
<1>4. CASE SkipReconcile(s)
  <2>1. /\ UNCHANGED <<obj, cache, cluster, data, job, timer>>
        /\ queue' = queue \ {s} /\ cache[s] = obj[s] /\ Skips(cache[s])
    BY <1>4, ReadsNewest DEF SkipReconcile, Take, server
  <2>2. ASSUME NEW t \in Sets, Quiet(t)' PROVE Quiet(t)
    BY <2>1, <2>2 DEF Quiet, Skips
  <2>3. QED  BY <1>1, <2>1, <2>2, AsideTidy
<1>5. CASE BeginAddFinalizer(s) \/ BeginFinalize(s) \/ BeginRender(s)
  BY <1>5, BeginTidy
<1>6. QED  BY <1>2, <1>3, <1>4, <1>5 DEF Begin

-----------------------------------------------------------------------------
(* What the worker does with a rendering. *)

\* The worker goes on with what is at hand: nothing else has changed for the set.
LEMMA HandGoesOn ==
  ASSUME TidyInv, AtHand, AtHand', UNCHANGED <<obj, cache, data, queue, timer>>,
         job'.set = job.set, job'.snap = job.snap, job'.resources = job.resources,
         job'.outcome = job.outcome
  PROVE  CurrentInv' /\ QuietInv'
<1>1. Working /\ Working' /\ job'.pc # "idle" /\ (job'.pc = "status" => job'.outcome = "ok")
  BY DEF AtHand, Working
<1>2. Quiet(job.set)' => Quiet(job.set)
  BY Zenon DEF Quiet
<1>3. Now' = Now
  BY DEF Now
<1>4. CurrentInv'
  <2>1. (job.outcome = "noArtifact" => job.snap.spec \notin PolledSpecs)'
    BY <1>1 DEF TidyInv, CurrentInv
  <2>2. ASSUME Quiet(job.set)'
        PROVE  /\ job'.snap.gen = obj'[job'.set].gen
               /\ job'.snap.spec \in PolledSpecs \/ (Now'.kind = "ok" /\ Now'.objs = job'.resources)
    BY <1>1, <1>2, <1>3, <2>2 DEF TidyInv, CurrentInv
  <2>3. QED  BY <1>1, <2>1, <2>2 DEF CurrentInv
<1>5. QED  BY <1>1, <1>4 DEF QuietInv

\* An item to apply is the first or one of the others.
LEMMA HeadOrTail ==
  ASSUME TypeInv, NEW k \in DOMAIN job.todo
  PROVE  \/ job.todo[k] = Head(job.todo)
         \/ \E l \in DOMAIN Tail(job.todo) : Tail(job.todo)[l] = job.todo[k]
<1>1. job.todo \in Seq(Rendered) /\ k \in 1 .. Len(job.todo)
  BY Parts
<1>2. CASE k = 1
  BY <1>1, <1>2
<1>3. CASE k # 1
  <2>1. k - 1 \in DOMAIN Tail(job.todo) /\ Tail(job.todo)[k - 1] = job.todo[k]
    BY <1>1, <1>3
  <2>2. QED  BY <2>1
<1>4. QED  BY <1>2, <1>3

\* The first resource to apply is done, or failed, and those of the same id have the same
\* contents.
LEMMA NextDone ==
  ASSUME TypeInv, Alone, RenderedInv, TidyInv, AtHand, job.todo # <<>>,
         job'.pc = "apply", job'.set = job.set, job'.resources = job.resources,
         job'.todo = Tail(job.todo), job'.failed \/ ~job.failed,
         NEW id, id = Head(job.todo).ref.id,
         \A i \in Ids \ {id} : cluster'[i] = cluster[i],
         job'.failed \/ cluster'[id] = [owner |-> job.set, val |-> Head(job.todo).val]
  PROVE  DoneInv'
<1>1. ASSUME ~job'.failed, NEW n \in DOMAIN job.resources
      PROVE  \/ \E k \in DOMAIN job'.todo : job'.todo[k] = job.resources[n]
             \/ cluster'[job.resources[n].ref.id] =
                  [owner |-> job.set, val |-> job.resources[n].val]
  <2>1. CASE job.resources[n].ref.id = id
    <3>1. job.resources[n].val = Head(job.todo).val
      BY <2>1, HandIsFree
    <3>2. QED  BY <1>1, <2>1, <3>1
  <2>2. CASE job.resources[n].ref.id # id
    <3>1. cluster'[job.resources[n].ref.id] = cluster[job.resources[n].ref.id]
      BY <2>2, ItemTypes, Parts
    <3>2. \/ \E k \in DOMAIN job.todo : job.todo[k] = job.resources[n]
          \/ cluster[job.resources[n].ref.id] =
                  [owner |-> job.set, val |-> job.resources[n].val]
      BY <1>1 DEF TidyInv, DoneInv
    <3>3. QED  BY <2>2, <3>1, <3>2, HeadOrTail
  <2>3. QED  BY <2>1, <2>2
<1>2. QED  BY <1>1 DEF DoneInv, AtHand

LEMMA RenderTidy ==
  ASSUME TypeInv, Alone, TidyInv, Render
  PROVE  TidyInv'
<1> DEFINE r == Rendering[job.snap.spec, data[job.set]]
<1>1. UNCHANGED <<obj, cache, data, cluster, queue, timer>> /\ job.pc = "render"
  BY DEF Render, server
<1>2. /\ job' = IF r.kind = "ok"
                THEN [job EXCEPT !.pc = "apply", !.resources = r.objs, !.todo = r.objs]
                ELSE [job EXCEPT !.pc = "status", !.outcome = r.kind]
      /\ Now = r
  BY DEF Render, Now
<1>3. r.kind = "noArtifact" => job.snap.spec \notin PolledSpecs
  <2>1. job.snap.spec \in Specs /\ data[job.set] \in Data
    BY Parts DEF SetObjects, TypeOK
  <2>2. QED  BY <2>1, Zenon DEF Alone
<1> HIDE DEF r
<1>4. /\ job'.set = job.set /\ job'.snap = job.snap /\ job'.entries = job.entries
      /\ job'.failed = job.failed
      /\ \/ /\ job'.pc = "apply" /\ r.kind = "ok" /\ job'.outcome = job.outcome
            /\ job'.resources = r.objs /\ job'.todo = r.objs
         \/ job'.pc = "status" /\ r.kind # "ok" /\ job'.outcome = r.kind
  BY <1>2, Parts DEF Jobs
<1>5. HeldInv'
  <2>1. Held(job.set, job.snap.inventory \cup job.entries)
    BY <1>1 DEF TidyInv, HeldInv
  <2>2. job'.pc = "status" => NewInventory(job') = job.snap.inventory
    BY <1>4 DEF NewInventory
  <2>3. (NewInventory(job))' = NewInventory(job')
    BY DEF NewInventory
  <2>4. QED  BY <1>1, <1>4, <2>1, <2>2, <2>3 DEF TidyInv, HeldInv, Held, OneEach
<1>6. DoneInv'
  BY <1>4 DEF DoneInv, AtHand
<1>7. CurrentInv'
  <2>1. Now' = r
    BY <1>1, <1>2, <1>4 DEF Now
  <2>2. (job.outcome = "noArtifact" => job.snap.spec \notin PolledSpecs)'
    BY <1>1, <1>3, <1>4 DEF TidyInv, CurrentInv, Working
  <2>3. ASSUME Quiet(job.set)' PROVE job.snap.gen = obj[job.set].gen
    <3>1. Quiet(job.set)
      BY <1>1, <1>4, <2>3, Zenon DEF Quiet
    <3>2. QED  BY <1>1, <3>1 DEF TidyInv, CurrentInv, Working
  <2>4. QED  BY <1>1, <1>4, <2>1, <2>2, <2>3 DEF CurrentInv, AtHand
<1>8. QuietInv'
  BY <1>4 DEF QuietInv
<1>9. QED  BY <1>5, <1>6, <1>7, <1>8 DEF TidyInv

LEMMA GetTidy ==
  ASSUME TypeInv, TidyInv, GetExisting
  PROVE  TidyInv'
<1>1. /\ UNCHANGED <<obj, cache, data, cluster, queue, timer>> /\ job.pc = "apply"
      /\ job'.set = job.set /\ job'.snap = job.snap /\ job'.resources = job.resources
      /\ job'.outcome = job.outcome
      /\ job'.entries = job.entries \cup {Head(job.todo).ref}
      /\ Head(job.todo).ref \in job.snap.inventory
      /\ \/ job'.pc = "apply" /\ job'.todo = Tail(job.todo) /\ job'.failed
         \/ job'.pc \in {"create", "patch"} /\ job'.todo = job.todo /\ job'.failed = job.failed
  BY AfterGet DEF GetExisting, server
<1>2. job'.pc = "patch" => job'.got = cluster[Head(job.todo).ref.id]
  <2> DEFINE ref == Head(job.todo).ref
             kept == Keep(job, ref)
  <2>1. ref \in Refs /\ kept \in Jobs /\ Failed(kept).pc = "apply"
    BY <1>1, HeadType, Parts, AfterGet, FS_AddElement DEF Keep, Failed, Next1, Jobs
  <2>2. \/ job' = Failed(kept) \/ job' = [kept EXCEPT !.pc = "create"]
        \/ job' = [kept EXCEPT !.pc = "patch", !.got = cluster[ref.id]]
    BY DEF GetExisting
  <2> HIDE DEF kept, ref
  <2>3. [kept EXCEPT !.pc = "create"].pc = "create"
    BY <2>1 DEF Jobs
  <2>4. [kept EXCEPT !.pc = "patch", !.got = cluster[ref.id]].got = cluster[ref.id]
    BY <2>1 DEF Jobs
  <2>5. QED  BY <2>1, <2>2, <2>3, <2>4 DEF ref
<1>3. HeldInv'
  <2>1. job.snap.inventory \cup job'.entries = job.snap.inventory \cup job.entries
    BY <1>1
  <2>2. QED  BY <1>1, <2>1 DEF TidyInv, HeldInv, Held, OneEach
<1>4. DoneInv'
  BY <1>1, <1>2 DEF TidyInv, DoneInv, AtHand
<1>5. CurrentInv' /\ QuietInv'
  BY <1>1, HandGoesOn DEF AtHand
<1>6. QED  BY <1>3, <1>4, <1>5 DEF TidyInv

\* A patch makes the contents what was rendered, of a resource that is the set's already.
LEMMA PatchTidy ==
  ASSUME TypeInv, Alone, RenderedInv, TidyInv, PatchResource
  PROVE  TidyInv'
<1> DEFINE new == Head(job.todo)
           id == new.ref.id
<1>1. /\ UNCHANGED <<obj, cache, data, queue, timer>> /\ job.pc = "patch" /\ job.todo # <<>>
      /\ new \in Rendered /\ new.ref \in Refs /\ id \in Ids
  BY HeadType DEF PatchResource, server, TypeInv
<1>2. job' \in {Next1(job), Failed(job)}
  BY DEF PatchResource
<1>3. /\ job'.pc = "apply" /\ job'.set = job.set /\ job'.snap = job.snap
      /\ job'.resources = job.resources /\ job'.outcome = job.outcome
      /\ job'.todo = Tail(job.todo) /\ job'.entries = job.entries
      /\ job'.failed \/ ~job.failed
  <2>1. job \in Jobs
    BY Parts
  <2>2. QED  BY <1>1, <1>2, <2>1, AfterOne
<1>4. cluster[id].owner = job.set /\ job.got = cluster[id] /\ cluster[id] # Absent
  <2>1. new.ref \in job.entries
    BY <1>1 DEF RenderedInv
  <2>2. cluster[id].owner = job.set
    BY <1>1, <2>1 DEF TidyInv, HeldInv, Held
  <2>3. job.got = cluster[id]
    BY <1>1 DEF TidyInv, DoneInv
  <2>4. QED  BY <2>2, <2>3, Parts, SetsAssumption DEF Absent
<1>5. Merged(cluster[id], job.got, job.set, new.val) = [owner |-> job.set, val |-> new.val]
  BY <1>4 DEF Merged
<1>6. /\ \A i \in Ids \ {id} : cluster'[i] = cluster[i]
      /\ cluster'[id] \in {cluster[id], [owner |-> job.set, val |-> new.val]}
      /\ job'.failed \/ cluster'[id] = [owner |-> job.set, val |-> new.val]
  <2>1. PICK out \in Outcomes("patch") :
          /\ cluster' = IF out = "refused" \/ cluster[id] = Absent THEN cluster
                        ELSE [cluster EXCEPT ![id] = Merged(@, job.got, job.set, new.val)]
          /\ job' = IF out = "ok" /\ cluster[id] # Absent THEN Next1(job) ELSE Failed(job)
    BY DEF PatchResource
  <2>2. cluster' \in {cluster, [cluster EXCEPT ![id] = [owner |-> job.set, val |-> new.val]]}
    BY <1>5, <2>1
  <2>3. out = "ok" => cluster' = [cluster EXCEPT ![id] = [owner |-> job.set, val |-> new.val]]
    BY <1>4, <1>5, <2>1
  <2>4. out # "ok" => job'.failed
    <3>1. job \in Jobs
      BY Parts
    <3>2. QED  BY <1>1, <2>1, <3>1, AfterOne
  <2>5. cluster \in [Ids -> Resources]
    BY Parts DEF TypeOK
  <2> HIDE DEF new, id
  <2>6. QED  BY <1>1, <2>2, <2>3, <2>4, <2>5
<1>7. HeldInv'
  <2>1. job.snap.inventory \cup job.entries \subseteq Refs
    BY Parts DEF SetObjects
  <2>2. Held(job.set, job.snap.inventory \cup job.entries)
    BY <1>1 DEF TidyInv, HeldInv
  <2>3. cluster'[id].owner = job.set
    BY <1>4, <1>6
  <2>4. \A ref \in job.snap.inventory \cup job.entries : cluster'[ref.id].owner = job.set
    BY <1>6, <2>1, <2>2, <2>3 DEF Held, Refs
  <2>5. QED  BY <1>1, <1>3, <2>2, <2>4 DEF TidyInv, HeldInv, Held, OneEach
<1>8. DoneInv'
  <2>1. AtHand
    BY <1>1 DEF AtHand
  <2>2. QED  BY <1>1, <1>3, <1>6, <2>1, NextDone
<1>9. CurrentInv' /\ QuietInv'
  BY <1>1, <1>3, HandGoesOn DEF AtHand
<1>10. QED  BY <1>7, <1>8, <1>9 DEF TidyInv

\* A create makes a resource that was absent, or fails.
LEMMA CreateTidy ==
  ASSUME TypeInv, Fresh, Alone, RenderedInv, TidyInv, CreateResource
  PROVE  TidyInv'
<1> DEFINE new == Head(job.todo)
           id == new.ref.id
<1>1. /\ UNCHANGED <<obj, cache, data, queue, timer>> /\ job.pc \in {"apply", "create"}
      /\ job.todo # <<>> /\ new \in Rendered /\ new.ref \in Refs /\ id \in Ids
  BY HeadType DEF CreateResource, MayCreate, server
<1>2. PICK out \in Outcomes("create") :
        /\ cluster' = IF out = "refused" \/ cluster[id] # Absent THEN cluster
                      ELSE [cluster EXCEPT ![id] = [owner |-> job.set, val |-> new.val]]
        /\ job' = IF out = "ok" /\ cluster[id] = Absent THEN Applied(job) ELSE Failed(job)
  BY DEF CreateResource
<1>3. out \in {"ok", "refused"}
  BY FreshOutcomes DEF Outcomes
<1>4. \/ cluster' = cluster /\ job' = Failed(job)
      \/ /\ cluster[id] = Absent /\ job' = Applied(job)
         /\ cluster' = [cluster EXCEPT ![id] = [owner |-> job.set, val |-> new.val]]
  BY <1>2, <1>3
<1>5. job \in Jobs /\ job.entries \subseteq Refs /\ job.snap.inventory \subseteq Refs
      /\ cluster \in [Ids -> Resources]
  BY Parts DEF SetObjects, TypeOK
<1>6. /\ job'.pc = "apply" /\ job'.set = job.set /\ job'.snap = job.snap
      /\ job'.resources = job.resources /\ job'.outcome = job.outcome
      /\ job'.todo = Tail(job.todo)
  BY <1>1, <1>4, <1>5, AfterOne
<1>7. \/ cluster' = cluster /\ job'.entries = job.entries /\ job'.failed
      \/ /\ cluster[id] = Absent /\ job'.entries = job.entries \cup {new.ref}
         /\ job'.failed = job.failed
         /\ cluster'[id] = [owner |-> job.set, val |-> new.val]
         /\ \A i \in Ids \ {id} : cluster'[i] = cluster[i]
  <2>1. CASE cluster' = cluster /\ job' = Failed(job)
    BY <1>1, <1>5, <2>1, AfterOne
  <2>2. CASE /\ cluster[id] = Absent /\ job' = Applied(job)
             /\ cluster' = [cluster EXCEPT ![id] = [owner |-> job.set, val |-> new.val]]
    <3>1. job'.entries = job.entries \cup {new.ref} /\ job'.failed = job.failed
      BY <1>1, <1>5, <2>2, AfterOne
    <3> HIDE DEF new, id
    <3>2. QED  BY <1>1, <1>5, <2>2, <3>1
  <2>3. QED  BY <1>4, <2>1, <2>2
<1> HIDE DEF id
<1>8. HeldInv'
  <2>1. Held(job.set, job.snap.inventory \cup job.entries)
    BY <1>1 DEF TidyInv, HeldInv
  <2>2. CASE cluster' = cluster /\ job'.entries = job.entries
    BY <1>1, <1>6, <2>1, <2>2 DEF TidyInv, HeldInv, Held, OneEach
  <2>3. CASE /\ cluster[id] = Absent /\ job'.entries = job.entries \cup {new.ref}
             /\ cluster'[id] = [owner |-> job.set, val |-> new.val]
             /\ \A i \in Ids \ {id} : cluster'[i] = cluster[i]
    <3> DEFINE refs == job.snap.inventory \cup job.entries
    <3>1. /\ Held(job.set, refs) /\ refs \subseteq Refs /\ job.set \in Sets
          /\ refs \cup {new.ref} = job'.snap.inventory \cup job'.entries
      BY <1>5, <1>6, <2>1, <2>3, Parts
    <3>2. new.ref.id = id /\ cluster'[new.ref.id].owner = job.set
      BY <2>3 DEF id
    <3> HIDE DEF refs, new
    <3>3. OneEach(refs \cup {new.ref})
          /\ \A ref \in refs \cup {new.ref} : cluster'[ref.id].owner = job.set
      <4>1. \A q \in refs : q.id # id /\ q.id \in Ids
        BY <2>3, <3>1, SetsAssumption DEF Held, Absent, Refs
      <4>2. QED  BY <2>3, <3>1, <3>2, <4>1 DEF Held, OneEach
    <3>4. QED  BY <1>1, <1>6, <3>1, <3>3 DEF TidyInv, HeldInv, Held
  <2>4. QED  BY <1>7, <2>2, <2>3
<1>9. DoneInv'
  <2>1. AtHand
    BY <1>1 DEF AtHand
  <2>2. QED  BY <1>1, <1>6, <1>7, <2>1, NextDone DEF id
<1>10. CurrentInv' /\ QuietInv'
  BY <1>1, <1>6, HandGoesOn DEF AtHand
<1>11. QED  BY <1>8, <1>9, <1>10 DEF TidyInv

\* What is pruned is of no entry's resource.
LEMMA PruneTidy ==
  ASSUME TypeInv, Fresh, AppliedInv, OwnedInv, RenderedInv, TidyInv,
         EndApply \/ PruneOne \/ EndPrune
  PROVE  TidyInv'
<1>1. UNCHANGED <<obj, cache, data, queue, timer>>
  BY DEF EndApply, PruneOne, EndPrune, server
<1>2. job \in Jobs /\ job.entries \subseteq Refs /\ job.remove \subseteq Refs
  BY Parts
<1>3. CASE EndApply
  <2>1. /\ UNCHANGED cluster /\ job.pc = "apply" /\ job.todo = <<>>
        /\ job'.pc = "prune" /\ job'.set = job.set /\ job'.snap = job.snap
        /\ job'.resources = job.resources /\ job'.todo = job.todo
        /\ job'.outcome = job.outcome /\ job'.failed = job.failed
        /\ job'.entries = job.entries /\ job'.remove = job.snap.inventory \ job.entries
    BY <1>2, <1>3 DEF EndApply, Jobs
  <2>2. HeldInv'
    BY <1>1, <2>1 DEF TidyInv, HeldInv, Held, OneEach
  <2>3. DoneInv'
    BY <2>1 DEF TidyInv, DoneInv, AtHand
  <2>4. CurrentInv' /\ QuietInv'
    BY <1>1, <2>1, HandGoesOn DEF AtHand
  <2>5. QED  BY <2>2, <2>3, <2>4 DEF TidyInv
<1>4. CASE PruneOne
  <2>1. PICK ref \in job.remove, out \in Outcomes("delete") :
          /\ IF out # "refused" THEN Delete(ref.id) ELSE UNCHANGED cluster
          /\ job' = IF out = "ok" THEN [job EXCEPT !.remove = @ \ {ref}]
                    ELSE [job EXCEPT !.remove = {}, !.failed = TRUE]
    BY <1>4 DEF PruneOne
  <2>2. out = "ok" /\ job.pc = "prune"
    BY <1>4, FreshOutcomes DEF PruneOne
  <2>3. \A id \in Ids \ {ref.id} : cluster'[id] = cluster[id]
    BY <2>1, <2>2, Parts DEF Delete, TypeOK
  <2>4. /\ job'.pc = "prune" /\ job'.set = job.set /\ job'.snap = job.snap
        /\ job'.resources = job.resources /\ job'.todo = job.todo
        /\ job'.outcome = job.outcome /\ job'.failed = job.failed
        /\ job'.entries = job.entries /\ job'.remove \subseteq job.remove
    BY <1>2, <2>1, <2>2 DEF Jobs
  <2>5. \A e \in job.entries : e.id # ref.id /\ cluster'[e.id] = cluster[e.id]
    <3>1. OneEach(job.entries \cup job.remove)
      BY <2>2 DEF TidyInv, HeldInv
    <3>2. ref \notin job.entries
      BY <2>2 DEF AppliedInv
    <3>3. QED  BY <1>2, <2>3, <3>1, <3>2 DEF OneEach, Refs
  <2>6. HeldInv'
    BY <1>1, <2>2, <2>4, <2>5 DEF TidyInv, HeldInv, Held, OneEach
  <2>7. DoneInv'
    <3>1. ASSUME ~job.failed, NEW n \in DOMAIN job.resources
          PROVE  cluster'[job.resources[n].ref.id] =
                   [owner |-> job.set, val |-> job.resources[n].val]
      <4>1. job.todo = <<>> /\ AtHand
        BY <2>2 DEF RenderedInv, AtHand
      <4>2. ~ \E k \in DOMAIN job.todo : job.todo[k] = job.resources[n]
        BY <4>1
      <4>3. job.resources[n].ref \in job.entries
        BY <3>1, <4>1, <4>2 DEF RenderedInv
      <4>4. QED  BY <2>5, <3>1, <4>1, <4>2, <4>3 DEF TidyInv, DoneInv
    <3>2. QED  BY <2>4, <3>1 DEF DoneInv
  <2>8. CurrentInv' /\ QuietInv'
    BY <1>1, <2>2, <2>4, HandGoesOn DEF AtHand
  <2>9. QED  BY <2>6, <2>7, <2>8 DEF TidyInv
<1>5. CASE EndPrune
  <2>1. /\ UNCHANGED cluster /\ job.pc = "prune" /\ job.outcome = "ok"
        /\ job'.pc = "status" /\ job'.set = job.set /\ job'.snap = job.snap
        /\ job'.resources = job.resources /\ job'.todo = job.todo
        /\ job'.outcome = job.outcome /\ job'.failed = job.failed
        /\ job'.entries = job.entries
    BY <1>2, <1>5 DEF EndPrune, Jobs, OwnedInv
  <2>2. HeldInv'
    BY <1>1, <2>1 DEF TidyInv, HeldInv, Held, OneEach, NewInventory
  <2>3. DoneInv'
    BY <2>1 DEF TidyInv, DoneInv, AtHand
  <2>4. CurrentInv' /\ QuietInv'
    BY <1>1, <2>1, HandGoesOn DEF AtHand
  <2>5. QED  BY <2>2, <2>3, <2>4 DEF TidyInv
<1>6. QED  BY <1>3, <1>4, <1>5

\* What concerns the finalizer ends with the set in the queue, or gone.
LEMMA FinalizerTidy ==
  ASSUME TypeInv, Alone, TidyInv, AddFinalizer \/ FinalizeOne \/ RemoveFinalizer
  PROVE  TidyInv'
<1>1. job.set \in Sets /\ obj[job.set] \in SetObjects /\ job \in Jobs /\ Idle.pc = "idle"
  BY Parts DEF Idle
<1>2. \A t \in Sets : t = job.set
  BY <1>1 DEF Alone
<1>3. CASE AddFinalizer
  <2> DEFINE new == [obj[job.set] EXCEPT !.finalizer = TRUE]
  <2>1. /\ job.pc = "addFinalizer" /\ job' = Idle /\ queue' = queue \cup {job.set}
        /\ UNCHANGED cluster /\ (UNCHANGED obj \/ Store(job.set, new))
    BY <1>3 DEF AddFinalizer, Retry, server
  <2>2. /\ new \in SetObjects /\ new.inventory = obj[job.set].inventory
        /\ new.deleting = obj[job.set].deleting
    BY <1>1 DEF SetObjects
  <2> HIDE DEF new
  <2>3. \A t \in Sets : obj'[t].inventory = obj[t].inventory /\ obj'[t].deleting = obj[t].deleting
    BY <1>1, <2>1, <2>2, StoreWrites
  <2>4. HeldInv'
    BY <1>1, <2>1, <2>3 DEF TidyInv, HeldInv, Held, OneEach
  <2>5. DoneInv' /\ CurrentInv' /\ QuietInv'
    BY <1>1, <1>2, <2>1 DEF DoneInv, CurrentInv, QuietInv, AtHand, Working, Quiet
  <2>6. QED  BY <2>4, <2>5 DEF TidyInv
<1>4. CASE FinalizeOne
  <2>1. /\ job.pc = "finalize" /\ UNCHANGED obj
        /\ \/ job'.pc = "finalize" /\ job'.set = job.set
           \/ job' = Idle /\ queue' = queue \cup {job.set}
    BY <1>1, <1>4 DEF FinalizeOne, Retry, server, Jobs
  <2>2. obj[job.set].deleting
    BY <2>1 DEF TidyInv, HeldInv
  <2>3. HeldInv'
    BY <1>1, <1>2, <2>1, <2>2 DEF TidyInv, HeldInv
  <2>4. DoneInv' /\ CurrentInv' /\ QuietInv'
    BY <1>1, <1>2, <2>1 DEF DoneInv, CurrentInv, QuietInv, AtHand, Working, Quiet
  <2>5. QED  BY <2>3, <2>4 DEF TidyInv
<1>5. CASE RemoveFinalizer
  <2>1. /\ job.pc = "finalize" /\ job' = Idle /\ UNCHANGED cluster
        /\ \/ UNCHANGED obj /\ queue' = queue \cup {job.set}
           \/ Store(job.set, Removed(obj[job.set]))
    BY <1>5 DEF RemoveFinalizer, Retry, Finish, server
  <2>2. obj[job.set].deleting
    BY <2>1 DEF TidyInv, HeldInv
  <2>3. \/ UNCHANGED obj /\ queue' = queue \cup {job.set}
        \/ ~obj'[job.set].exists /\ obj'[job.set].inventory = {}
    <3>1. /\ Removed(obj[job.set]) \in SetObjects /\ Removed(obj[job.set]).inventory = {}
          /\ ~Removed(obj[job.set]).exists
      BY <1>1, RemovedValues
    <3> HIDE DEF Removed
    <3>2. QED  BY <1>1, <2>1, <3>1, StoreWrites
  <2>4. HeldInv'
    BY <1>1, <1>2, <2>1, <2>2, <2>3 DEF TidyInv, HeldInv, Held, OneEach, IdsOf
  <2>5. DoneInv' /\ CurrentInv' /\ QuietInv'
    BY <1>1, <1>2, <2>1, <2>3 DEF DoneInv, CurrentInv, QuietInv, AtHand, Working, Quiet
  <2>6. QED  BY <2>4, <2>5 DEF TidyInv
<1>6. QED  BY <1>3, <1>4, <1>5

\* After the status is written nothing follows only if the set has what it renders now,
\* or renders nothing now.
LEMMA QuietIsDone ==
  ASSUME TypeInv, OwnedInv, RenderedInv, GenerationInv, TidyInv, PatchStatus,
         Quiet(job.set), job.set \notin queue' \cup timer'
  PROVE  obj[job.set].spec \notin PolledSpecs /\ Clean(job.set)
<1> DEFINE s == job.set
           r == Rendering[obj[s].spec, data[s]]
<1>1. job.pc = "status" /\ Working /\ s \in Sets
  BY Parts DEF PatchStatus, Working
<1>2. /\ job.snap.spec = obj[s].spec
      /\ \/ job.snap.spec \in PolledSpecs
         \/ /\ job.outcome = "ok" => r.kind = "ok" /\ r.objs = job.resources
            /\ job.outcome # "ok" => r.kind = job.outcome
  <2>1. /\ job.snap.gen = obj[s].gen
        /\ job.snap.spec \in PolledSpecs \/
             /\ AtHand => Now.kind = "ok" /\ Now.objs = job.resources
             /\ job.pc = "status" /\ job.outcome # "ok" => Now.kind = job.outcome
    BY <1>1 DEF TidyInv, CurrentInv
  <2>2. job.snap.spec = obj[s].spec
    BY <1>1, <2>1 DEF GenerationInv
  <2>3. Now = r
    BY <2>2 DEF Now
  <2> HIDE DEF r
  <2>4. QED  BY <1>1, <2>1, <2>2, <2>3 DEF AtHand
<1>3. \/ job.outcome = "noArtifact"
      \/ job.outcome = "ok" /\ ~job.failed /\ (job.snap.spec \in PolledSpecs => s \in timer')
      \/ s \in queue'
  BY DEF PatchStatus, AfterStatus, Outcome, Retry
<1>4. Clean(s) <=> (r.kind = "ok" =>
        /\ OwnedIds(s) = IdsOf(RefsOf(r))
        /\ \A n \in DOMAIN r.objs : cluster[r.objs[n].ref.id].val = r.objs[n].val)
  BY Zenon DEF Clean
<1> HIDE DEF r
<1>5. CASE job.outcome = "noArtifact"
  <2>1. job.snap.spec \notin PolledSpecs
    BY <1>1, <1>5 DEF TidyInv, CurrentInv
  <2>2. QED  BY <1>2, <1>4, <1>5, <2>1
<1>6. CASE job.outcome = "ok" /\ ~job.failed /\ job.snap.spec \notin PolledSpecs
  <2>1. /\ r.objs = job.resources /\ AtHand /\ job.todo = <<>>
        /\ \A ref \in job.entries : \E n \in DOMAIN r.objs : r.objs[n].ref = ref
    BY <1>1, <1>2, <1>6 DEF AtHand, RenderedInv
  <2>2. ASSUME NEW n \in DOMAIN r.objs
        PROVE  cluster[r.objs[n].ref.id].owner = s /\ cluster[r.objs[n].ref.id].val = r.objs[n].val
    <3>1. cluster[r.objs[n].ref.id] = [owner |-> s, val |-> r.objs[n].val]
      BY <1>6, <2>1 DEF TidyInv, DoneInv
    <3>2. QED  BY <3>1
  <2>3. \A n \in DOMAIN r.objs : r.objs[n].ref.id \in Ids
    BY <2>1, ItemTypes, Parts
  <2>4. IdsOf(RefsOf(r)) \subseteq OwnedIds(s)
    BY <2>2, <2>3 DEF IdsOf, RefsOf, OwnedIds
  <2>5. OwnedIds(s) \subseteq IdsOf(job.entries)
    BY <1>1, <1>6 DEF OwnedInv
  <2>6. IdsOf(job.entries) \subseteq IdsOf(RefsOf(r))
    BY <2>1 DEF IdsOf, RefsOf
  <2>7. OwnedIds(s) = IdsOf(RefsOf(r))
    BY <2>4, <2>5, <2>6
  <2>8. Clean(s)
    BY <1>4, <2>2, <2>7, Zenon
  <2>9. QED  BY <1>2, <1>6, <2>8
<1>7. QED  BY <1>3, <1>5, <1>6

LEMMA StatusTidy ==
  ASSUME TypeInv, SafeInv, Fresh, Alone, OwnedInv, RenderedInv, GenerationInv, CopiesInv,
         TidyInv, PatchStatus
  PROVE  TidyInv'
<1>1. job.set \in Sets /\ job.pc = "status" /\ job' = Idle /\ UNCHANGED <<cache, cluster, data>>
  BY Parts, FreshStatusEffect DEF PatchStatus
<1>2. \A t \in Sets : t = job.set
  BY <1>1 DEF Alone
<1>3. obj'[job.set].inventory = NewInventory(job)
  <2>1. PICK o \in SetObjects :
          /\ (UNCHANGED <<obj, watch>> /\ obj[job.set] = o) \/ Store(job.set, o)
          /\ o.inventory = NewInventory(job)
    BY FreshStatusEffect
  <2>2. QED  BY <1>1, <2>1, StoreWrites
<1>4. HeldInv'
  <2>1. IdsOf(NewInventory(job)) \cap UserIds = {}
    <3>1. CASE job.outcome = "ok"
      BY <1>1, <3>1, HandIsFree DEF AtHand, NewInventory, IdsOf
    <3>2. CASE job.outcome # "ok"
      BY <1>1, <3>2 DEF NewInventory, OwnedInv, TidyInv, HeldInv
    <3>3. QED  BY <3>1, <3>2
  <2>2. Held(job.set, NewInventory(job))
    BY <1>1 DEF TidyInv, HeldInv
  <2>3. Idle.pc = "idle"
    BY DEF Idle
  <2>4. QED  BY <1>1, <1>2, <1>3, <2>1, <2>2, <2>3 DEF HeldInv, Held, OneEach
<1>5. DoneInv' /\ CurrentInv'
  BY <1>1 DEF DoneInv, CurrentInv, AtHand, Working, Idle
<1>6. ASSUME NEW t \in Sets, Quiet(t)'
      PROVE  obj'[t].spec \notin PolledSpecs /\ Clean(t)'
  <2>1. queue \subseteq queue' /\ timer \subseteq timer'
    BY DEF PatchStatus, AfterStatus, Finish, Retry
  <2>2. t \notin queue' \cup timer'
    BY <1>6 DEF Quiet
  <2>3. Quiet(t) /\ obj'[t].spec = obj[t].spec
    <3>1. CASE UNCHANGED obj
      BY <1>1, <1>6, <2>1, <3>1 DEF Quiet
    <3>2. CASE \E o \in SetObjects : Store(job.set, o) /\ Later(obj[job.set], o)
      BY <1>1, <1>6, <2>1, <3>2, QuietWrite
    <3>3. QED  BY <3>1, <3>2, WorkerWrite DEF Worker
  <2>4. obj[t].spec \notin PolledSpecs /\ Clean(t)
    <3>1. t = job.set
      BY <1>2
    <3>2. QED  BY <2>2, <2>3, <3>1, QuietIsDone
  <2>5. QED  BY <1>1, <2>3, <2>4, SameClean
<1>7. QuietInv'
  BY <1>6 DEF QuietInv
<1>8. QED  BY <1>4, <1>5, <1>7 DEF TidyInv

-----------------------------------------------------------------------------
(* Every step, and the theorem. *)

\* The hypotheses are about the constants.
LEMMA SettledConstants == (Fresh' <=> Fresh) /\ (Alone' <=> Alone)
BY Zenon DEF Fresh, Alone

LEMMA NextSettledInv ==
  IndInv /\ FreshInv /\ ReadyInv /\ SettledInv /\ [Next]_vars => SettledInv'
<1> SUFFICES ASSUME IndInv, FreshInv, ReadyInv, SettledInv, [Next]_vars PROVE SettledInv'
  OBVIOUS
<1>1. TypeInv /\ SafeInv /\ AppliedInv /\ RenderedInv /\ CopiesInv /\ CopiesInv'
  BY NextCopiesInv DEF IndInv, ReadyInv, SettledInv
<1>2. ASSUME Fresh, Alone PROVE TidyInv'
  <2>1. ~Crash /\ OwnedInv /\ GenerationInv /\ TidyInv
    BY <1>2 DEF Fresh, Crash, FreshInv, ReadyInv, SettledInv
  <2>2. CASE UNCHANGED vars
    <3>1. job.pc = "finalize" => obj[job.set].deleting
      BY <2>1 DEF TidyInv, HeldInv
    <3>2. UNCHANGED <<obj, cache, cluster, data, queue, timer, job>>
      BY <2>2 DEF vars, server
    <3>3. \A s \in Sets : Quiet(s)' => Quiet(s)
      BY <3>2 DEF Quiet
    <3>4. QED  BY <1>1, <2>1, <3>1, <3>2, <3>3, AsideTidy
  <2>3. CASE Users
    BY <1>1, <1>2, <2>1, <2>3, UsersTidy
  <2>4. CASE \E s \in Sets : Deliver(s) \/ TimerFire(s) \/ Begin(s) \/ ClientFailure(s)
    BY <1>1, <1>2, <2>1, <2>4, ManagerTidy
  <2>5. CASE AddFinalizer \/ FinalizeOne \/ RemoveFinalizer
    BY <1>1, <1>2, <2>1, <2>5, FinalizerTidy
  <2>6. CASE Render \/ GetExisting \/ PatchResource \/ CreateResource
    BY <1>1, <1>2, <2>1, <2>6, RenderTidy, GetTidy, PatchTidy, CreateTidy
  <2>7. CASE EndApply \/ PruneOne \/ EndPrune
    BY <1>1, <1>2, <2>1, <2>7, PruneTidy
  <2>8. CASE PatchStatus
    BY <1>1, <1>2, <2>1, <2>8, StatusTidy
  <2>9. ~Unread
    BY <1>1, <1>2, FreshReads
  <2>10. QED
    BY <2>1, <2>2, <2>3, <2>4, <2>5, <2>6, <2>7, <2>8, <2>9 DEF Next, Worker, Unread
<1>3. QED  BY <1>1, <1>2, SettledConstants DEF SettledInv

LEMMA InitSettledInv == Init => SettledInv
<1> SUFFICES ASSUME Init PROVE SettledInv
  OBVIOUS
<1>1. Idle.pc = "idle" /\ ~NoSet.exists /\ NoSet.inventory = {} /\ NoSet.gen = 0
  BY DEF Idle, NoSet
<1>2. /\ \A s \in Sets : obj[s] = NoSet /\ Known(s) = {NoSet}
      /\ job.pc = "idle"
  BY <1>1 DEF Init, Known
<1>3. CopiesInv
  BY <1>1, <1>2 DEF CopiesInv, Same
<1>4. TidyInv
  BY <1>1, <1>2 DEF TidyInv, HeldInv, DoneInv, CurrentInv, QuietInv, Quiet, Held, OneEach,
                    IdsOf, AtHand, Working
<1>5. QED  BY <1>3, <1>4 DEF SettledInv

\* Where nothing is left to do, the copy in the cache is the set and the set is quiet.
LEMMA SettledIsQuiet ==
  ASSUME OwnedInv, QuietInv PROVE SettledIsClean
<1>1. ASSUME NEW s \in Sets, Settled(s) PROVE Clean(s)
  <2>1. watch[s] = {} /\ obj[s].exists /\ ~obj[s].suspend /\ s \notin queue \cup timer
        /\ job.pc = "idle"
    BY <1>1 DEF Settled
  <2>2. cache[s] = obj[s]
    BY <2>1 DEF OwnedInv, Known
  <2>3. Quiet(s)
    BY <2>1, <2>2 DEF Quiet
  <2>4. QED  BY <2>1, <2>3 DEF QuietInv
<1>2. ASSUME NEW s \in Sets, Clean(s)
      PROVE  LET r == Rendering[obj[s].spec, data[s]] IN
             r.kind = "ok" =>
               /\ OwnedIds(s) = {ref.id : ref \in RefsOf(r)}
               /\ \A n \in DOMAIN r.objs : cluster[r.objs[n].ref.id].val = r.objs[n].val
  BY <1>2, Zenon DEF Clean, IdsOf
<1>3. QED  BY <1>1, <1>2, Zenon DEF SettledIsClean

\* When nothing is left to do for a set (its worker idle, nothing queued, due or on its way
\* to the cache) it owns what its spec renders for the sources as they are, with those
\* contents, and nothing else: with fresh reads and the faults that a retry repairs, for a
\* set that shares nothing with another one or with the users.
THEOREM SettledSafe == Fresh /\ Alone => (Spec => []SettledIsClean)
<1>1. SUFFICES ASSUME Fresh, Alone PROVE Spec => []SettledIsClean
  OBVIOUS
<1>2. IndInv /\ FreshInv /\ SettledInv => SettledIsClean
  BY <1>1, SettledIsQuiet DEF FreshInv, SettledInv, TidyInv
<1>3. QED  BY <1>2, FreshSafe, InitReadyInv, NextReadyInv, InitSettledInv, NextSettledInv, PTL DEF Spec
=============================================================================
