--------------------- MODULE GitOpsSetReconcilerProofs ---------------------
(***************************************************************************)
(* Theorems about GitOpsSetReconciler, for every value of its constants.   *)
(***************************************************************************)
EXTENDS GitOpsSetReconcilerInvariants, FiniteSetTheorems, TLAPS

\* The initial values of a set, of a resource and of a job have their types.
LEMMA InitialValues == NoSet \in SetObjects /\ Absent \in Resources
                       /\ ForeignResource \in Resources /\ Idle \in Jobs
<1>1. NoSet \in SetObjects
  BY SpecsAssumption DEF NoSet, SetObjects, AnySpec, Unset, Conditions
<1>2. Absent \in Resources /\ ForeignResource \in Resources
  BY DEF Absent, ForeignResource, Resources
<1>3. (CHOOSE s \in Sets : TRUE) \in Sets
  BY SetsAssumption
<1>4. Idle \in Jobs
  BY <1>1, <1>2, <1>3 DEF Idle, Jobs, Phases
<1>5. QED  BY <1>1, <1>2, <1>4

\* A write keeps the type of the server.
LEMMA StoreType ==
  ASSUME TypeOK, NEW s \in Sets, NEW o \in SetObjects, Store(s, o)
  PROVE  obj' \in [Sets -> SetObjects] /\ watch' \in [Sets -> SUBSET SetObjects]
<1> DEFINE new == [o EXCEPT !.rv = obj[s].rv + 1]
<1>1. obj[s] \in SetObjects
  BY DEF TypeOK
<1>2. new \in SetObjects
  BY <1>1 DEF SetObjects
<1>3. QED  BY <1>2 DEF TypeOK, Store

\* A fault is counted within its bound.
LEMMA CountType ==
  ASSUME TypeOK, NEW op, NEW out \in Outcomes(op), Count(out)
  PROVE  faults' \in 0 .. MaxFaults
BY BoundsAssumption DEF TypeOK, Outcomes, Count

\* The state before any step has its type.
LEMMA InitTypeInv == Init => TypeInv
<1> SUFFICES ASSUME Init PROVE TypeInv
  OBVIOUS
<1>1. TypeOK
  BY InitialValues, BoundsAssumption DEF Init, TypeOK
<1>2. IsFiniteSet(job.entries) /\ job.pc = "idle"
  BY FS_EmptySet DEF Init, Idle
<1>3. QED  BY <1>1, <1>2 DEF TypeInv

\* The informer and the timers keep the types.
LEMMA DeliverTypeInv ==
  ASSUME TypeInv, NEW s \in Sets, Deliver(s) \/ TimerFire(s)
  PROVE  TypeInv'
<1>1. CASE Deliver(s)
  BY <1>1, SMTT(40) DEF Deliver, TypeInv, TypeOK
<1>2. CASE TimerFire(s)
  BY <1>2, SMTT(40) DEF TimerFire, TypeInv, TypeOK, server
<1>3. QED  BY <1>1, <1>2

\* Users keep the types.
LEMMA UsersTypeInv == TypeInv /\ Users => TypeInv'
<1> SUFFICES ASSUME TypeInv, Users PROVE TypeInv'
  OBVIOUS
<1>1. ASSUME NEW s \in Sets, NEW o \in SetObjects, EditSet(s, o)
      PROVE  TypeInv'
  BY <1>1, StoreType, BoundsAssumption DEF EditSet, UserStep, TypeInv, TypeOK
<1>2. ASSUME NEW s \in Sets
      PROVE  obj[s] \in SetObjects /\ obj[s].gen + 1 \in Nat /\ obj[s].requested + 1 \in Nat
  BY DEF TypeInv, TypeOK, SetObjects
<1>3. ASSUME NEW s \in Sets, CreateSet(s) PROVE TypeInv'
  <2>1. PICK spec \in Specs, suspend \in BOOLEAN :
          EditSet(s, [NoSet EXCEPT !.exists = TRUE, !.spec = spec,
                                   !.suspend = suspend, !.gen = obj[s].gen + 1])
    BY <1>3 DEF CreateSet
  <2> DEFINE new == [NoSet EXCEPT !.exists = TRUE, !.spec = spec,
                                  !.suspend = suspend, !.gen = obj[s].gen + 1]
  <2>2. new \in SetObjects
    BY <1>2, InitialValues DEF SetObjects
  <2>3. \E o \in SetObjects : EditSet(s, o)
    BY <2>1, <2>2 DEF EditSet, Store
  <2>4. QED  BY <1>1, <2>3
<1>4. ASSUME NEW s \in Sets, EditSpec(s) PROVE TypeInv'
  <2>1. PICK spec \in Specs : EditSet(s, [obj[s] EXCEPT !.spec = spec, !.gen = @ + 1])
    BY <1>4 DEF EditSpec
  <2> DEFINE new == [obj[s] EXCEPT !.spec = spec, !.gen = @ + 1]
  <2>2. new \in SetObjects
    BY <1>2 DEF SetObjects
  <2>3. \E o \in SetObjects : EditSet(s, o)
    BY <2>1, <2>2 DEF EditSet, Store
  <2>4. QED  BY <1>1, <2>3
<1>5. ASSUME NEW s \in Sets, ToggleSuspend(s) PROVE TypeInv'
  <2> DEFINE new == [obj[s] EXCEPT !.suspend = ~@, !.gen = @ + 1]
  <2>1. new \in SetObjects
    BY <1>2 DEF SetObjects
  <2>2. \E o \in SetObjects : EditSet(s, o)
    BY <1>5, <2>1 DEF ToggleSuspend, EditSet, Store
  <2>3. QED  BY <1>1, <2>2
<1>6. ASSUME NEW s \in Sets, RequestReconcile(s) PROVE TypeInv'
  <2> DEFINE new == [obj[s] EXCEPT !.requested = @ + 1]
  <2>1. new \in SetObjects
    BY <1>2 DEF SetObjects
  <2>2. \E o \in SetObjects : EditSet(s, o)
    BY <1>6, <2>1 DEF RequestReconcile, EditSet, Store
  <2>3. QED  BY <1>1, <2>2
<1>7. ASSUME NEW s \in Sets, DeleteSet(s) PROVE TypeInv'
  <2> DEFINE marked == [obj[s] EXCEPT !.deleting = TRUE, !.gen = @ + 1]
  <2>1. marked \in SetObjects /\ Removed(obj[s]) \in SetObjects
    BY <1>2, InitialValues DEF SetObjects, Removed
  <2>2. \E o \in SetObjects : EditSet(s, o)
    BY <1>7, <2>1 DEF DeleteSet, EditSet, Store
  <2>3. QED  BY <1>1, <2>2
<1>8. ASSUME NEW s \in Sets, ChangeSource(s) PROVE TypeInv'
  BY <1>8, BoundsAssumption DEF ChangeSource, UserStep, TypeInv, TypeOK, server
<1>9. ASSUME NEW id \in UserIds, UserCreateResource(id) \/ UserDeleteResource(id)
      PROVE  TypeInv'
  BY <1>9, InitialValues, IdsAssumption, BoundsAssumption
  DEF UserCreateResource, UserDeleteResource, UserStep, TypeInv, TypeOK, server
<1>10. QED
  BY <1>3, <1>4, <1>5, <1>6, <1>7, <1>8, <1>9 DEF Users

\* Taking a set off the queue keeps the types.
LEMMA BeginTypeInv ==
  ASSUME TypeInv, NEW s \in Sets, Begin(s) \/ ClientFailure(s)
  PROVE  TypeInv'
<1> USE BoundsAssumption
<1>1. cache[s] \in SetObjects /\ Acknowledged(cache[s]) \in SetObjects
  BY ZenonT(40) DEF TypeInv, TypeOK, Acknowledged, SetObjects
<1>2. ReadCache(s) => stale' \in 0 .. MaxStale
  BY DEF ReadCache, TypeInv, TypeOK
<1>3. ASSUME Take(s), faults' = faults, job' \in Jobs, IsFiniteSet(job'.entries),
             job'.pc \notin {"patch", "create"}
      PROVE  TypeInv'
  BY <1>2, <1>3 DEF Take, TypeInv, TypeOK, server
<1>4. CASE SkipReconcile(s)
  <2>1. job'.pc = "idle" /\ IsFiniteSet(job'.entries) /\ job' \in Jobs
    BY <1>4 DEF SkipReconcile, Take, TypeInv, TypeOK
  <2>2. QED  BY <1>3, <1>4, <2>1 DEF SkipReconcile
<1>5. CASE BeginAddFinalizer(s)
  <2>1. job'.pc = "addFinalizer" /\ job'.entries = {} /\ job' \in Jobs
    BY <1>1, <1>5, InitialValues DEF BeginAddFinalizer, Idle, Jobs, Phases
  <2>2. QED  BY <1>3, <1>5, <2>1, FS_EmptySet DEF BeginAddFinalizer
<1>6. CASE BeginFinalize(s)
  <2>1. cache[s].inventory \subseteq Refs
    BY <1>1 DEF SetObjects
  <2>2. job'.pc = "finalize" /\ job'.entries = {} /\ job' \in Jobs
    BY <1>1, <1>6, <2>1, InitialValues DEF BeginFinalize, Idle, Jobs, Phases
  <2>3. QED  BY <1>3, <1>6, <2>2, FS_EmptySet DEF BeginFinalize
<1>7. CASE BeginRender(s)
  <2>1. job'.pc = "render" /\ job'.entries = {} /\ job' \in Jobs
    BY <1>1, <1>7, InitialValues DEF BeginRender, Idle, Jobs, Phases
  <2>2. QED  BY <1>3, <1>7, <2>1, FS_EmptySet DEF BeginRender
<1>8. CASE ClientFailure(s)
  <2>1. faults' \in 0 .. MaxFaults
    BY <1>8, CountType DEF ClientFailure, TypeInv
  <2>2. QED  BY <1>2, <1>8, <2>1 DEF ClientFailure, TypeInv, TypeOK, server
<1>9. QED  BY <1>4, <1>5, <1>6, <1>7, <1>8 DEF Begin

\* The patch of a status is a status: every field comes from the set or from
\* the new status.
LEMMA PatchedType ==
  ASSUME TypeInv, NEW reworded \in BOOLEAN, job.pc # "idle"
  PROVE  Patched(obj[job.set], cache[job.set], NewStatus(job), reworded) \in SetObjects
<1>1. job \in Jobs /\ job.snap \in SetObjects /\ job.set \in Sets
  BY DEF TypeInv, TypeOK, Jobs
<1>2. obj[job.set] \in SetObjects
  BY <1>1 DEF TypeInv, TypeOK
<1>3. NewInventory(job) \in SUBSET Refs
  BY <1>1 DEF NewInventory, Jobs, SetObjects
<1>4. Cardinality(job.entries) \in Nat
  BY FS_CardinalityType DEF TypeInv
<1>5. NewCondition(job) \in Conditions
  BY <1>4 DEF NewCondition, Conditions
<1>6. job.snap.gen \in Nat
  BY <1>1 DEF SetObjects
<1>7. NewStatus(job) \in SetObjects
  BY <1>1, <1>3, <1>5, <1>6 DEF NewStatus, SetObjects
<1>8. QED  BY <1>2, <1>7 DEF Patched, SetObjects

\* What Render returns can be applied.
LEMMA RenderingType ==
  ASSUME TypeInv
  PROVE  Rendering[job.snap.spec, data[job.set]] \in Renderings
<1>1. job.snap.spec \in Specs /\ data[job.set] \in Data
  BY DEF TypeInv, TypeOK, Jobs, SetObjects
<1>2. <<job.snap.spec, data[job.set]>> \in Specs \X Data
  BY <1>1
<1>3. QED  BY <1>2, RenderingAssumption

\* The resource at hand has its type.
LEMMA HeadType ==
  ASSUME TypeInv, job.todo # <<>>
  PROVE  /\ Head(job.todo) \in Rendered
         /\ Head(job.todo).ref \in Refs /\ Head(job.todo).ref.id \in Ids
         /\ Head(job.todo).val \in Values
         /\ Tail(job.todo) \in Seq(Rendered)
<1>1. job.todo \in Seq(Rendered)
  BY DEF TypeInv, TypeOK, Jobs
<1>2. Head(job.todo) \in Rendered /\ Tail(job.todo) \in Seq(Rendered)
  BY <1>1
<1>3. QED  BY <1>2 DEF Rendered, Refs

\* A step from one resource to the next keeps the type of the job.
LEMMA NextJobType ==
  ASSUME TypeInv, job.todo # <<>>, NEW k \in {job, Keep(job, Head(job.todo).ref)}
  PROVE  \A l \in {Next1(k), Applied(k), Failed(k)} :
           l \in Jobs /\ l.pc = "apply" /\ IsFiniteSet(l.entries)
<1> DEFINE ref == Head(job.todo).ref
<1>1. ref \in Refs /\ Tail(job.todo) \in Seq(Rendered)
  BY HeadType
<1>2. job \in Jobs /\ job.entries \in SUBSET Refs
  BY DEF TypeInv, TypeOK, Jobs
<1>3. IsFiniteSet(job.entries) /\ IsFiniteSet(job.entries \cup {ref})
  BY FS_AddElement DEF TypeInv
<1>4. job.entries \cup {ref} \in SUBSET Refs
  BY <1>1, <1>2
<1>5. /\ k \in Jobs /\ k.todo = job.todo
      /\ k.entries \in {job.entries, job.entries \cup {ref}}
  BY <1>2, <1>4 DEF Keep, Jobs
<1>6. k.entries \cup {ref} = job.entries \cup {ref}
  BY <1>5
<1>7. Next1(k) \in Jobs /\ Next1(k).pc = "apply" /\ Next1(k).entries = k.entries
  BY <1>1, <1>5, InitialValues DEF Next1, Jobs, Phases
<1>8. /\ Failed(k) \in Jobs /\ Failed(k).pc = "apply" /\ Failed(k).entries = k.entries
  BY <1>1, <1>5, InitialValues DEF Failed, Next1, Jobs, Phases
<1>9. /\ Applied(k) \in Jobs /\ Applied(k).pc = "apply"
      /\ Applied(k).entries = job.entries \cup {ref}
  BY <1>1, <1>4, <1>5, <1>6, InitialValues DEF Applied, Next1, Jobs, Phases
<1>10. QED  BY <1>3, <1>5, <1>7, <1>8, <1>9

\* Every step of the worker, and a restart, keep the types.
LEMMA WorkerTypeInv == TypeInv /\ (Worker \/ Crash) => TypeInv'
<1> SUFFICES ASSUME TypeInv, Worker \/ Crash PROVE TypeInv'
  OBVIOUS
<1> USE BoundsAssumption
<1>1. TypeOK /\ job \in Jobs /\ job.set \in Sets /\ job.snap \in SetObjects
  BY DEF TypeInv, TypeOK, Jobs
<1>2. Idle \in Jobs /\ IsFiniteSet(Idle.entries) /\ Idle.pc = "idle"
  BY InitialValues, FS_EmptySet DEF Idle
<1>3. obj[job.set] \in SetObjects
  BY <1>1 DEF TypeOK
<1>4. ASSUME NEW op, NEW out \in Outcomes(op), Count(out)
      PROVE  faults' \in 0 .. MaxFaults
  BY <1>1, <1>4, CountType
<1>5. Retry \/ Finish => /\ queue' \subseteq Sets /\ job' \in Jobs
                        /\ IsFiniteSet(job'.entries) /\ job'.pc = "idle"
  BY <1>1, <1>2 DEF Retry, Finish, TypeOK
<1>6. CASE AddFinalizer
  <2>1. [obj[job.set] EXCEPT !.finalizer = TRUE] \in SetObjects
    BY <1>3 DEF SetObjects
  <2>2. obj' \in [Sets -> SetObjects] /\ watch' \in [Sets -> SUBSET SetObjects]
    BY <1>1, <1>6, <2>1, StoreType DEF AddFinalizer, TypeOK, server
  <2>3. faults' \in 0 .. MaxFaults
    BY <1>4, <1>6 DEF AddFinalizer
  <2>4. QED  BY <1>1, <1>5, <1>6, <2>2, <2>3 DEF AddFinalizer, TypeInv, TypeOK
<1>7. CASE FinalizeOne
  <2>1. PICK ref \in job.remove, out \in Outcomes("delete") :
          /\ Count(out)
          /\ IF out # "refused" THEN Delete(ref.id) ELSE UNCHANGED cluster
          /\ IF out = "ok"
             THEN job' = [job EXCEPT !.remove = @ \ {ref}] /\ UNCHANGED queue
             ELSE Retry
    BY <1>7 DEF FinalizeOne
  <2>2. faults' \in 0 .. MaxFaults
    BY <1>4, <2>1
  <2>3. cluster' \in [Ids -> Resources]
    BY <1>1, <2>1, InitialValues DEF Delete, TypeOK
  <2>4. /\ queue' \subseteq Sets /\ job' \in Jobs
        /\ IsFiniteSet(job'.entries) /\ job'.pc \in {"idle", "finalize"}
    <3>1. CASE out = "ok"
      <4>1. job' = [job EXCEPT !.remove = @ \ {ref}] /\ queue' = queue
        BY <2>1, <3>1
      <4>2. job \in Jobs /\ IsFiniteSet(job.entries) /\ job.pc = "finalize" /\ queue \subseteq Sets
        BY <1>1, <1>7 DEF FinalizeOne, TypeInv, TypeOK
      <4>3. job' \in Jobs /\ job'.entries = job.entries /\ job'.pc = job.pc
        BY <4>1, <4>2 DEF Jobs
      <4>4. QED  BY <4>1, <4>2, <4>3
    <3>2. CASE out # "ok"
      BY <1>5, <2>1, <3>2
    <3>3. QED  BY <3>1, <3>2
  <2>5. QED  BY <1>1, <1>7, <2>2, <2>3, <2>4 DEF FinalizeOne, TypeInv, TypeOK, server
<1>8. CASE RemoveFinalizer
  <2>1. Removed(obj[job.set]) \in SetObjects
    BY <1>3, InitialValues DEF Removed, SetObjects
  <2>2. obj' \in [Sets -> SetObjects] /\ watch' \in [Sets -> SUBSET SetObjects]
    BY <1>1, <1>8, <2>1, StoreType DEF RemoveFinalizer, TypeOK, server
  <2>3. faults' \in 0 .. MaxFaults
    BY <1>4, <1>8 DEF RemoveFinalizer
  <2>4. Retry \/ Finish
    BY <1>8 DEF RemoveFinalizer
  <2>5. QED  BY <1>1, <1>5, <1>8, <2>2, <2>3, <2>4 DEF RemoveFinalizer, TypeInv, TypeOK
<1>9. CASE Render
  <2> DEFINE r == Rendering[job.snap.spec, data[job.set]]
  <2>1. r.kind \in {"ok", "noArtifact", "renderError"} /\ r.objs \in Seq(Rendered)
    BY RenderingType DEF Renderings
  <2>2. /\ job' \in Jobs /\ job'.entries = job.entries /\ job'.pc \in {"apply", "status"}
    BY <1>1, <1>9, <2>1 DEF Render, Jobs, Phases
  <2>3. QED  BY <1>1, <1>9, <2>2 DEF Render, TypeInv, TypeOK, server
<1>10. CASE GetExisting
  <2> DEFINE ref == Head(job.todo).ref
  <2> DEFINE kept == Keep(job, ref)
  <2>1. PICK out \in Outcomes("get") :
          /\ Count(out)
          /\ job' = IF out # "ok" THEN Failed(kept)
                    ELSE IF cluster[ref.id] = Absent THEN [kept EXCEPT !.pc = "create"]
                    ELSE [kept EXCEPT !.pc = "patch", !.got = cluster[ref.id]]
    BY <1>10 DEF GetExisting
  <2>2. faults' \in 0 .. MaxFaults
    BY <1>4, <2>1
  <2>3. job.todo # <<>>
    BY <1>10 DEF GetExisting
  <2>4. /\ ref \in Refs /\ cluster[ref.id] \in Resources
    BY <1>1, <2>3, HeadType DEF TypeOK
  <2>5. /\ kept \in Jobs /\ IsFiniteSet(kept.entries) /\ kept.todo # <<>>
    <3>1. job.entries \cup {ref} \in SUBSET Refs
      BY <1>1, <2>4 DEF Jobs
    <3>2. IsFiniteSet(job.entries \cup {ref})
      BY FS_AddElement DEF TypeInv
    <3>3. kept \in Jobs /\ kept.entries = job.entries \cup {ref} /\ kept.todo = job.todo
      BY <1>1, <3>1 DEF Keep, Jobs
    <3>4. QED  BY <2>3, <3>2, <3>3
  <2>6. /\ job' \in Jobs /\ IsFiniteSet(job'.entries)
        /\ job'.pc \in {"patch", "create"} => job'.todo # <<>>
    <3>1. CASE out # "ok"
      <4>1. job' = Failed(kept)
        BY <2>1, <3>1
      <4>2. QED  BY <2>3, <4>1, NextJobType
    <3>2. CASE out = "ok"
      BY <2>1, <2>4, <2>5, <3>2 DEF Jobs, Phases
    <3>3. QED  BY <3>1, <3>2
  <2>7. QED  BY <1>1, <1>10, <2>2, <2>6 DEF GetExisting, TypeInv, TypeOK, server
<1>11. ASSUME job.todo # <<>>, cluster' \in [Ids -> Resources],
              job' \in {Next1(job), Applied(job), Failed(job)},
              faults' \in 0 .. MaxFaults,
              UNCHANGED <<server, cache, data, queue, timer, stale, userOps>>
       PROVE  TypeInv'
  <2>1. job' \in Jobs /\ job'.pc = "apply" /\ IsFiniteSet(job'.entries)
    BY <1>11, NextJobType
  <2>2. QED  BY <1>1, <1>11, <2>1 DEF TypeInv, TypeOK, server
<1>12. CASE PatchResource
  <2> DEFINE new == Head(job.todo)
  <2>1. job.todo # <<>>
    BY <1>12 DEF PatchResource, TypeInv
  <2>2. new.ref.id \in Ids /\ new.val \in Values /\ cluster[new.ref.id] \in Resources
    BY <1>1, <2>1, HeadType DEF TypeOK
  <2>3. Merged(cluster[new.ref.id], job.got, job.set, new.val) \in Resources
    BY <1>1, <2>2 DEF Merged, Resources
  <2>4. cluster' \in [Ids -> Resources] /\ job' \in {Next1(job), Failed(job)}
    BY <1>1, <1>12, <2>2, <2>3 DEF PatchResource, TypeOK
  <2>5. faults' \in 0 .. MaxFaults
    BY <1>4, <1>12 DEF PatchResource
  <2>6. QED  BY <1>11, <1>12, <2>1, <2>4, <2>5 DEF PatchResource
<1>13. CASE CreateResource
  <2> DEFINE new == Head(job.todo)
  <2>1. job.todo # <<>>
    BY <1>13 DEF CreateResource
  <2>2. new.ref.id \in Ids /\ new.val \in Values
    BY <2>1, HeadType
  <2>3. [owner |-> job.set, val |-> new.val] \in Resources
    BY <1>1, <2>2 DEF Resources
  <2>4. cluster' \in [Ids -> Resources] /\ job' \in {Applied(job), Failed(job)}
    BY <1>1, <1>13, <2>2, <2>3 DEF CreateResource, TypeOK
  <2>5. faults' \in 0 .. MaxFaults
    BY <1>4, <1>13 DEF CreateResource
  <2>6. QED  BY <1>11, <1>13, <2>1, <2>4, <2>5 DEF CreateResource
<1>14. CASE EndApply
  <2>1. job.snap.inventory \ job.entries \in SUBSET Refs
    BY <1>1 DEF SetObjects
  <2>2. job' \in Jobs /\ job'.entries = job.entries /\ job'.pc = "prune"
    BY <1>1, <1>14, <2>1 DEF EndApply, Jobs, Phases
  <2>3. QED  BY <1>1, <1>14, <2>2 DEF EndApply, TypeInv, TypeOK, server
<1>15. CASE PruneOne
  <2>1. PICK ref \in job.remove, out \in Outcomes("delete") :
          /\ Count(out)
          /\ IF out # "refused" THEN Delete(ref.id) ELSE UNCHANGED cluster
          /\ job' = IF out = "ok" THEN [job EXCEPT !.remove = @ \ {ref}]
                    ELSE [job EXCEPT !.remove = {}, !.failed = TRUE]
    BY <1>15 DEF PruneOne
  <2>2. faults' \in 0 .. MaxFaults
    BY <1>4, <2>1
  <2>3. cluster' \in [Ids -> Resources]
    BY <1>1, <2>1, InitialValues DEF Delete, TypeOK
  <2>4. job' \in Jobs /\ job'.entries = job.entries /\ job'.pc = "prune"
    BY <1>1, <1>15, <2>1 DEF PruneOne, Jobs
  <2>5. QED  BY <1>1, <1>15, <2>2, <2>3, <2>4 DEF PruneOne, TypeInv, TypeOK, server
<1>16. CASE EndPrune
  <2>1. job' \in Jobs /\ job'.entries = job.entries /\ job'.pc = "status"
    BY <1>1, <1>16 DEF EndPrune, Jobs, Phases
  <2>2. QED  BY <1>1, <1>16, <2>1 DEF EndPrune, TypeInv, TypeOK, server
<1>17. CASE PatchStatus
  <2>1. PICK out \in Outcomes("status"), reworded \in BOOLEAN :
          /\ Count(out)
          /\ \/ StoreStatus(job.set, NewStatus(job), reworded)
             \/ UNCHANGED server
          /\ \E written : AfterStatus(written)
    BY <1>17 DEF PatchStatus
  <2>2. faults' \in 0 .. MaxFaults
    BY <1>4, <2>1
  <2>3. obj' \in [Sets -> SetObjects] /\ watch' \in [Sets -> SUBSET SetObjects]
    <3> DEFINE p == Patched(obj[job.set], cache[job.set], NewStatus(job), reworded)
    <3>1. p \in SetObjects
      BY <1>17, PatchedType DEF PatchStatus
    <3>2. Store(job.set, p) \/ UNCHANGED server
      BY <2>1 DEF StoreStatus
    <3> HIDE DEF p
    <3>3. QED  BY <1>1, <3>1, <3>2, StoreType DEF TypeOK, server
  <2>4. timer' \subseteq Sets /\ (Retry \/ Finish)
    BY <1>1, <2>1 DEF AfterStatus, TypeOK
  <2>5. stale' \in 0 .. MaxStale
    BY <1>1, <1>17 DEF PatchStatus, ReadCache, TypeOK
  <2>6. QED  BY <1>1, <1>5, <1>17, <2>2, <2>3, <2>4, <2>5 DEF PatchStatus, TypeInv, TypeOK
<1>18. CASE Crash
  BY <1>1, <1>2, <1>18 DEF Crash, TypeInv, TypeOK
<1>19. CASE FinalizeUnreadable
  BY <1>1, <1>5, <1>19 DEF FinalizeUnreadable, TypeInv, TypeOK, server
<1>20. CASE GetUnreadable
  <2>1. job.todo # <<>> /\ job' = Failed(job)
    BY <1>20 DEF GetUnreadable
  <2>2. QED  BY <1>1, <1>11, <1>20, <2>1 DEF GetUnreadable, TypeOK
<1>21. CASE PruneUnreadable
  <2>1. job' \in Jobs /\ job'.entries = job.entries /\ job'.pc = "prune"
    BY <1>1, <1>21 DEF PruneUnreadable, Jobs
  <2>2. QED  BY <1>1, <1>21, <2>1 DEF PruneUnreadable, TypeInv, TypeOK, server
<1>22. QED
  BY <1>6, <1>7, <1>8, <1>9, <1>10, <1>12, <1>13, <1>14, <1>15, <1>16, <1>17, <1>18,
     <1>19, <1>20, <1>21
  DEF Worker

\* TypeInv is inductive.
LEMMA NextTypeInv == TypeInv /\ [Next]_vars => TypeInv'
<1>1. ASSUME TypeInv, UNCHANGED vars PROVE TypeInv'
  BY <1>1 DEF vars, TypeInv, TypeOK
<1>2. QED
  BY <1>1, DeliverTypeInv, BeginTypeInv, WorkerTypeInv, UsersTypeInv DEF Next

\* Every reachable state of the reconciler, the API server and the cache has
\* its type.
THEOREM TypeCorrect == Spec => []TypeOK
<1>1. TypeInv => TypeOK
  BY DEF TypeInv
<1>2. QED  BY <1>1, InitTypeInv, NextTypeInv, PTL DEF Spec

-----------------------------------------------------------------------------
(* Resources that were there before are never touched. *)

\* A set that names no protected resource may be written.
LEMMA StoreForeign ==
  ASSUME TypeOK, ForeignInv, NEW s \in Sets, NEW o \in SetObjects, Store(s, o),
         Unclaiming(o.inventory)
  PROVE  \A t \in Sets : /\ Unclaiming(obj'[t].inventory)
                         /\ \A w \in watch'[t] : Unclaiming(w.inventory)
<1> DEFINE new == [o EXCEPT !.rv = obj[s].rv + 1]
<1>1. new.inventory = o.inventory
  BY DEF SetObjects
<1>2. obj' = [obj EXCEPT ![s] = new] /\ watch' = [watch EXCEPT ![s] = @ \cup {new}]
  BY DEF Store
<1> HIDE DEF new
<1>3. QED  BY <1>1, <1>2 DEF TypeOK, ForeignInv

\* The parts of ForeignInv that speak of the sets, of the job, and of the
\* cluster.
LEMMA ForeignParts ==
  ForeignInv' <=>
    /\ ForeignUntouched'
    /\ \A t \in Sets :
         /\ Unclaiming(obj'[t].inventory) /\ Unclaiming(cache'[t].inventory)
         /\ \A o \in watch'[t] : Unclaiming(o.inventory)
    /\ Unclaiming(job'.snap.inventory)
    /\ Unclaiming(job'.entries)
    /\ Unclaiming(job'.remove)
    /\ job'.pc \in {"patch", "create"} => Head(job'.todo).ref.id \notin Protected
BY DEF ForeignInv, Unclaiming, Protected

\* An idle worker names no resource.
LEMMA IdleForeign ==
  /\ Unclaiming(Idle.snap.inventory) /\ Unclaiming(Idle.entries)
  /\ Unclaiming(Idle.remove) /\ Idle.pc = "idle"
BY DEF Idle, NoSet, Unclaiming

\* No resource is claimed at the start.
LEMMA InitForeignInv == Init => ForeignInv
<1> SUFFICES ASSUME Init PROVE ForeignInv
  OBVIOUS
<1>1. ForeignUntouched
  BY IdsAssumption DEF Init, ForeignUntouched
<1>2. NoSet.inventory = {}
  BY DEF NoSet
<1>3. QED  BY <1>1, <1>2, IdleForeign DEF Init, ForeignInv, Unclaiming

\* The users, the informer and the timers touch no protected resource.
LEMMA OthersForeignInv ==
  ASSUME TypeInv, ForeignInv,
         Users \/ \E s \in Sets : Deliver(s) \/ TimerFire(s) \/ ClientFailure(s)
  PROVE  ForeignInv'
<1>1. ASSUME UNCHANGED <<obj, watch, cache, cluster, job>> PROVE ForeignInv'
  BY <1>1 DEF ForeignInv, ForeignUntouched, Unclaiming
<1>2. ASSUME NEW s \in Sets, NEW o \in SetObjects, EditSet(s, o), Unclaiming(o.inventory)
      PROVE  ForeignInv'
  <2>1. \A t \in Sets : /\ Unclaiming(obj'[t].inventory)
                        /\ \A w \in watch'[t] : Unclaiming(w.inventory)
    BY <1>2, StoreForeign DEF EditSet, TypeInv
  <2>2. UNCHANGED <<cache, cluster, job>>
    BY <1>2 DEF EditSet, UserStep
  <2>3. QED  BY <2>1, <2>2, ForeignParts DEF ForeignInv, ForeignUntouched
<1>3. ASSUME NEW s \in Sets
      PROVE  /\ obj[s] \in SetObjects /\ obj[s].gen + 1 \in Nat /\ obj[s].requested + 1 \in Nat
             /\ Unclaiming(obj[s].inventory)
  BY DEF TypeInv, TypeOK, SetObjects, ForeignInv
<1>4. NoSet \in SetObjects /\ Unclaiming(NoSet.inventory)
  BY InitialValues DEF NoSet, Unclaiming
<1>5. ASSUME NEW s \in Sets, CreateSet(s) PROVE ForeignInv'
  <2>1. PICK spec \in Specs, suspend \in BOOLEAN :
          EditSet(s, [NoSet EXCEPT !.exists = TRUE, !.spec = spec,
                                   !.suspend = suspend, !.gen = obj[s].gen + 1])
    BY <1>5 DEF CreateSet
  <2> DEFINE new == [NoSet EXCEPT !.exists = TRUE, !.spec = spec,
                                  !.suspend = suspend, !.gen = obj[s].gen + 1]
  <2>2. new \in SetObjects /\ Unclaiming(new.inventory)
    BY <1>3, <1>4 DEF SetObjects
  <2>3. \E o \in SetObjects : EditSet(s, o) /\ Unclaiming(o.inventory)
    BY <2>1, <2>2 DEF EditSet, Store
  <2>4. QED  BY <1>2, <2>3
<1>6. ASSUME NEW s \in Sets, EditSpec(s) PROVE ForeignInv'
  <2>1. PICK spec \in Specs : EditSet(s, [obj[s] EXCEPT !.spec = spec, !.gen = @ + 1])
    BY <1>6 DEF EditSpec
  <2> DEFINE new == [obj[s] EXCEPT !.spec = spec, !.gen = @ + 1]
  <2>2. new \in SetObjects /\ Unclaiming(new.inventory)
    BY <1>3 DEF SetObjects
  <2>3. \E o \in SetObjects : EditSet(s, o) /\ Unclaiming(o.inventory)
    BY <2>1, <2>2 DEF EditSet, Store
  <2>4. QED  BY <1>2, <2>3
<1>7. ASSUME NEW s \in Sets, ToggleSuspend(s) \/ RequestReconcile(s) PROVE ForeignInv'
  <2> DEFINE toggled == [obj[s] EXCEPT !.suspend = ~@, !.gen = @ + 1]
  <2> DEFINE asked == [obj[s] EXCEPT !.requested = @ + 1]
  <2>1. toggled \in SetObjects /\ Unclaiming(toggled.inventory)
    BY <1>3 DEF SetObjects
  <2>2. asked \in SetObjects /\ Unclaiming(asked.inventory)
    BY <1>3 DEF SetObjects
  <2>3. \E o \in SetObjects : EditSet(s, o) /\ Unclaiming(o.inventory)
    BY <1>7, <2>1, <2>2 DEF ToggleSuspend, RequestReconcile, EditSet, Store
  <2>4. QED  BY <1>2, <2>3
<1>8. ASSUME NEW s \in Sets, DeleteSet(s) PROVE ForeignInv'
  <2> DEFINE marked == [obj[s] EXCEPT !.deleting = TRUE, !.gen = @ + 1]
  <2>1. marked \in SetObjects /\ Unclaiming(marked.inventory)
    BY <1>3 DEF SetObjects
  <2>2. Removed(obj[s]) \in SetObjects /\ Unclaiming(Removed(obj[s]).inventory)
    BY <1>3, <1>4 DEF SetObjects, Removed
  <2>3. \E o \in SetObjects : EditSet(s, o) /\ Unclaiming(o.inventory)
    BY <1>8, <2>1, <2>2 DEF DeleteSet, EditSet, Store
  <2>4. QED  BY <1>2, <2>3
<1>9. ASSUME NEW s \in Sets, ChangeSource(s) PROVE ForeignInv'
  BY <1>1, <1>9 DEF ChangeSource, UserStep, server
<1>10. ASSUME NEW id \in UserIds, UserCreateResource(id) \/ UserDeleteResource(id)
       PROVE  ForeignInv'
  <2>1. ForeignUntouched'
    <3>1. \A i \in Preexisting \ UserIds : i \in Ids /\ i # id
      BY IdsAssumption
    <3>2. \E r : cluster' = [cluster EXCEPT ![id] = r]
      BY <1>10 DEF UserCreateResource, UserDeleteResource
    <3>3. \A i \in Preexisting \ UserIds : cluster'[i] = cluster[i]
      BY <3>1, <3>2 DEF TypeInv, TypeOK
    <3>4. QED  BY <3>3 DEF ForeignInv, ForeignUntouched
  <2>2. UNCHANGED <<obj, watch, cache, job>>
    BY <1>10 DEF UserCreateResource, UserDeleteResource, UserStep, server
  <2>3. QED  BY <2>1, <2>2, ForeignParts DEF ForeignInv
<1>11. ASSUME NEW s \in Sets, Deliver(s) PROVE ForeignInv'
  <2>1. UNCHANGED <<obj, cluster, job>>
    BY <1>11 DEF Deliver
  <2>2. \A t \in Sets : Unclaiming(cache'[t].inventory)
    BY <1>11 DEF Deliver, ForeignInv, TypeInv, TypeOK
  <2>3. \A t \in Sets : watch'[t] \subseteq watch[t]
    BY <1>11 DEF Deliver, TypeInv, TypeOK
  <2>4. QED  BY <2>1, <2>2, <2>3, ForeignParts DEF ForeignInv, ForeignUntouched
<1>12. ASSUME NEW s \in Sets, TimerFire(s) \/ ClientFailure(s) PROVE ForeignInv'
  BY <1>1, <1>12 DEF TimerFire, ClientFailure, server
<1>13. QED
  BY <1>5, <1>6, <1>7, <1>8, <1>9, <1>10, <1>11, <1>12 DEF Users

\* The worker, and a restart, touch no protected resource.
LEMMA WorkerForeignInv ==
  ASSUME TypeInv, ForeignInv, Worker \/ Crash \/ \E s \in Sets : Begin(s)
  PROVE  ForeignInv'
<1>1. /\ TypeOK /\ job \in Jobs /\ job.set \in Sets /\ job.snap \in SetObjects
      /\ obj[job.set] \in SetObjects /\ Unclaiming(obj[job.set].inventory)
  BY DEF TypeInv, TypeOK, Jobs, ForeignInv
<1>2. ASSUME UNCHANGED <<obj, watch, cache>>, ForeignUntouched',
             Unclaiming(job'.snap.inventory), Unclaiming(job'.entries),
             Unclaiming(job'.remove),
             job'.pc \in {"patch", "create"} => Head(job'.todo).ref.id \notin Protected
      PROVE  ForeignInv'
  BY <1>2, ForeignParts DEF ForeignInv
<1>3. ASSUME UNCHANGED cluster PROVE ForeignUntouched'
  BY <1>3 DEF ForeignInv, ForeignUntouched
<1>4. Retry \/ Finish => job' = Idle
  BY DEF Retry, Finish
<1>5. ASSUME NEW s \in Sets, Begin(s) PROVE ForeignInv'
  <2>1. UNCHANGED <<obj, watch, cache, cluster>>
    BY <1>5 DEF Begin, SkipReconcile, BeginAddFinalizer, BeginFinalize, BeginRender,
                Take, server
  <2>2. /\ Unclaiming(cache[s].inventory)
        /\ Acknowledged(cache[s]).inventory = cache[s].inventory
    BY DEF ForeignInv, Acknowledged, TypeInv, TypeOK, SetObjects
  <2>3. CASE SkipReconcile(s)
    BY <1>2, <1>3, <2>1, <2>3 DEF SkipReconcile, ForeignInv
  <2>4. CASE BeginAddFinalizer(s)
    <3>1. /\ job'.snap = cache[s] /\ job'.entries = {} /\ job'.remove = {}
          /\ job'.pc = "addFinalizer"
      BY <2>4 DEF BeginAddFinalizer, Idle
    <3>2. QED  BY <1>2, <1>3, <2>1, <2>2, <3>1 DEF Unclaiming
  <2>5. CASE BeginFinalize(s)
    <3>1. /\ job'.snap = cache[s] /\ job'.entries = {}
          /\ job'.remove = cache[s].inventory /\ job'.pc = "finalize"
      BY <2>5 DEF BeginFinalize, Idle
    <3>2. QED  BY <1>2, <1>3, <2>1, <2>2, <3>1 DEF Unclaiming
  <2>6. CASE BeginRender(s)
    <3>1. /\ job'.snap = Acknowledged(cache[s]) /\ job'.entries = {} /\ job'.remove = {}
          /\ job'.pc = "render"
      BY <2>6 DEF BeginRender, Idle
    <3>2. QED  BY <1>2, <1>3, <2>1, <2>2, <3>1 DEF Unclaiming
  <2>7. QED  BY <1>5, <2>3, <2>4, <2>5, <2>6 DEF Begin
<1>6. ASSUME NEW o \in SetObjects, Store(job.set, o), Unclaiming(o.inventory),
             UNCHANGED <<cache, cluster>>, job' = Idle
      PROVE  ForeignInv'
  <2>1. \A t \in Sets : /\ Unclaiming(obj'[t].inventory)
                        /\ \A w \in watch'[t] : Unclaiming(w.inventory)
    BY <1>1, <1>6, StoreForeign
  <2>2. QED  BY <1>3, <1>6, <2>1, IdleForeign, ForeignParts DEF ForeignInv
<1>7. ASSUME UNCHANGED <<obj, watch, cache, cluster>>, job' = Idle
      PROVE  ForeignInv'
  BY <1>2, <1>3, <1>7, IdleForeign
<1>8. CASE AddFinalizer
  <2> DEFINE new == [obj[job.set] EXCEPT !.finalizer = TRUE]
  <2>1. new \in SetObjects /\ Unclaiming(new.inventory)
    BY <1>1 DEF SetObjects
  <2>2. \/ \E o \in SetObjects : Store(job.set, o) /\ Unclaiming(o.inventory)
        \/ UNCHANGED server
    BY <1>8, <2>1 DEF AddFinalizer, Store
  <2>3. job' = Idle /\ UNCHANGED <<cache, cluster>>
    BY <1>4, <1>8 DEF AddFinalizer
  <2>4. QED  BY <1>6, <1>7, <2>2, <2>3 DEF server
<1>9. CASE RemoveFinalizer
  <2>1. Removed(obj[job.set]) \in SetObjects /\ Unclaiming(Removed(obj[job.set]).inventory)
    BY <1>1, InitialValues DEF Removed, SetObjects, NoSet, Unclaiming
  <2>2. \/ \E o \in SetObjects : Store(job.set, o) /\ Unclaiming(o.inventory)
        \/ UNCHANGED server
    BY <1>9, <2>1 DEF RemoveFinalizer, Store
  <2>3. job' = Idle /\ UNCHANGED <<cache, cluster>>
    BY <1>4, <1>9 DEF RemoveFinalizer
  <2>4. QED  BY <1>6, <1>7, <2>2, <2>3 DEF server
<1>10. ASSUME NEW ref \in job.remove, Delete(ref.id) \/ UNCHANGED cluster
       PROVE  ForeignUntouched'
  <2>1. ref.id \notin Protected
    BY <1>10 DEF ForeignInv, Unclaiming
  <2>2. \A i \in Protected : i \in Ids /\ cluster'[i] = cluster[i]
    BY <1>1, <1>10, <2>1, IdsAssumption DEF Delete, Protected, TypeOK
  <2>3. QED  BY <2>2 DEF ForeignInv, ForeignUntouched, Protected
<1>11. CASE FinalizeOne
  <2>1. UNCHANGED <<obj, watch, cache>> /\ job.pc = "finalize"
    BY <1>11 DEF FinalizeOne, server
  <2>2. PICK ref \in job.remove :
          /\ Delete(ref.id) \/ UNCHANGED cluster
          /\ job' = [job EXCEPT !.remove = @ \ {ref}] \/ job' = Idle
    BY <1>4, <1>11 DEF FinalizeOne
  <2>3. ForeignUntouched'
    BY <1>10, <2>2
  <2>4. CASE job' = Idle
    BY <1>2, <2>1, <2>3, <2>4, IdleForeign
  <2>5. CASE job' = [job EXCEPT !.remove = @ \ {ref}]
    <3>1. /\ job'.snap = job.snap /\ job'.entries = job.entries
          /\ job'.remove = job.remove \ {ref} /\ job'.pc = job.pc
      BY <1>1, <2>5 DEF Jobs
    <3>2. QED  BY <1>2, <2>1, <2>3, <3>1 DEF ForeignInv, Unclaiming
  <2>6. QED  BY <2>2, <2>4, <2>5
<1>12. CASE PruneOne
  <2>1. UNCHANGED <<obj, watch, cache>> /\ job.pc = "prune"
    BY <1>12 DEF PruneOne, server
  <2>2. PICK ref \in job.remove :
          /\ Delete(ref.id) \/ UNCHANGED cluster
          /\ \/ job' = [job EXCEPT !.remove = @ \ {ref}]
             \/ job' = [job EXCEPT !.remove = {}, !.failed = TRUE]
    BY <1>12 DEF PruneOne
  <2>3. ForeignUntouched'
    BY <1>10, <2>2
  <2>4. /\ job'.snap = job.snap /\ job'.entries = job.entries
        /\ job'.remove \subseteq job.remove /\ job'.pc = job.pc
    BY <1>1, <2>2 DEF Jobs
  <2>5. QED  BY <1>2, <2>1, <2>3, <2>4 DEF ForeignInv, Unclaiming
<1>13. ASSUME UNCHANGED <<obj, watch, cache, cluster>>,
              job'.snap = job.snap, job'.entries = job.entries,
              Unclaiming(job'.remove), job'.pc \notin {"patch", "create"}
       PROVE  ForeignInv'
  BY <1>2, <1>3, <1>13 DEF ForeignInv
<1>14. CASE Render
  <2>1. /\ job'.snap = job.snap /\ job'.entries = job.entries /\ job'.remove = job.remove
        /\ job'.pc \in {"apply", "status"}
    BY <1>1, <1>14 DEF Render, Jobs
  <2>2. QED  BY <1>13, <1>14, <2>1 DEF Render, server, ForeignInv
<1>15. CASE EndApply
  <2>1. /\ job'.snap = job.snap /\ job'.entries = job.entries
        /\ job'.remove = job.snap.inventory \ job.entries /\ job'.pc = "prune"
    BY <1>1, <1>15 DEF EndApply, Jobs
  <2>2. QED  BY <1>13, <1>15, <2>1 DEF EndApply, server, ForeignInv, Unclaiming
<1>16. CASE EndPrune
  <2>1. /\ job'.snap = job.snap /\ job'.entries = job.entries /\ job'.remove = job.remove
        /\ job'.pc = "status"
    BY <1>1, <1>16 DEF EndPrune, Jobs
  <2>2. QED  BY <1>13, <1>16, <2>1 DEF EndPrune, server, ForeignInv
<1>17. ASSUME NEW k \in Jobs, k.todo = job.todo, NEW l \in {Next1(k), Failed(k)}
       PROVE  /\ l.snap = k.snap /\ l.entries = k.entries /\ l.remove = k.remove
              /\ l.pc = "apply"
  BY <1>17 DEF Next1, Failed, Jobs
<1>18. CASE GetExisting
  <2> DEFINE ref == Head(job.todo).ref
  <2> DEFINE kept == Keep(job, ref)
  <2>1. /\ ref \in job.snap.inventory /\ job.todo # <<>>
        /\ \/ job' = Failed(kept)
           \/ job' = [kept EXCEPT !.pc = "create"]
           \/ job' = [kept EXCEPT !.pc = "patch", !.got = cluster[ref.id]]
        /\ UNCHANGED <<obj, watch, cache, cluster>>
    BY <1>18 DEF GetExisting, server
  <2>2. ref.id \notin Protected /\ ref \in Refs
    BY <1>1, <2>1 DEF ForeignInv, Unclaiming, SetObjects
  <2>3. job.entries \cup {ref} \in SUBSET Refs
    BY <1>1, <2>2 DEF Jobs
  <2>4. /\ kept \in Jobs /\ kept.snap = job.snap /\ kept.remove = job.remove
        /\ kept.entries = job.entries \cup {ref} /\ kept.todo = job.todo
    BY <1>1, <2>3 DEF Keep, Jobs
  <2>5. Unclaiming(kept.entries)
    BY <2>2, <2>4 DEF ForeignInv, Unclaiming
  <2>6. CASE job' = Failed(kept)
    <3>1. /\ job'.snap = job.snap /\ job'.entries = kept.entries
          /\ job'.remove = job.remove /\ job'.pc = "apply"
      BY <1>17, <2>4, <2>6
    <3>2. QED  BY <1>2, <1>3, <2>1, <2>5, <3>1 DEF ForeignInv
  <2>7. CASE \/ job' = [kept EXCEPT !.pc = "create"]
             \/ job' = [kept EXCEPT !.pc = "patch", !.got = cluster[ref.id]]
    <3>1. /\ job'.snap = kept.snap /\ job'.entries = kept.entries
          /\ job'.remove = kept.remove /\ job'.todo = kept.todo
      BY <2>4, <2>7 DEF Jobs
    <3>2. Head(job'.todo).ref.id \notin Protected
      BY <2>2, <2>4, <3>1
    <3>3. QED  BY <1>2, <1>3, <2>1, <2>4, <2>5, <3>1, <3>2 DEF ForeignInv
  <2>8. QED  BY <2>1, <2>6, <2>7
<1>19. CASE PatchResource
  <2>1. Head(job.todo).ref.id \notin Protected
    BY <1>19 DEF PatchResource, ForeignInv
  <2>2. \/ UNCHANGED cluster
        \/ \E r : cluster' = [cluster EXCEPT ![Head(job.todo).ref.id] = r]
    BY <1>19 DEF PatchResource
  <2>3. \A i \in Protected : i \in Ids /\ cluster'[i] = cluster[i]
    BY <1>1, <2>1, <2>2, IdsAssumption DEF Protected, TypeOK
  <2>4. ForeignUntouched'
    BY <2>3 DEF ForeignInv, ForeignUntouched, Protected
  <2>5. job' \in {Next1(job), Failed(job)} /\ UNCHANGED <<obj, watch, cache>>
    BY <1>19 DEF PatchResource, server
  <2>6. /\ job'.snap = job.snap /\ job'.entries = job.entries
        /\ job'.remove = job.remove /\ job'.pc = "apply"
    BY <1>1, <1>17, <2>5
  <2>7. QED  BY <1>2, <2>4, <2>5, <2>6 DEF ForeignInv
<1>20. CASE CreateResource
  <2> DEFINE id == Head(job.todo).ref.id
  <2>1. job.todo # <<>> /\ UNCHANGED <<obj, watch, cache>>
    BY <1>20 DEF CreateResource, server
  <2>2. /\ \/ UNCHANGED cluster
           \/ cluster[id] = Absent /\ \E r : cluster' = [cluster EXCEPT ![id] = r]
        /\ \/ job' = Failed(job)
           \/ cluster[id] = Absent /\ job' = Applied(job)
    BY <1>20 DEF CreateResource
  <2>3. Absent # ForeignResource
    BY SetsAssumption DEF Absent, ForeignResource
  <2>4. cluster[id] = Absent => id \notin Protected
    BY <2>3 DEF ForeignInv, ForeignUntouched, Protected
  <2>5. \A i \in Protected : i \in Ids /\ cluster'[i] = cluster[i]
    BY <1>1, <2>2, <2>4, IdsAssumption DEF Protected, TypeOK
  <2>6. ForeignUntouched'
    BY <2>5 DEF ForeignInv, ForeignUntouched, Protected
  <2>7. CASE job' = Failed(job)
    <3>1. /\ job'.snap = job.snap /\ job'.entries = job.entries
          /\ job'.remove = job.remove /\ job'.pc = "apply"
      BY <1>1, <1>17, <2>7
    <3>2. QED  BY <1>2, <2>1, <2>6, <3>1 DEF ForeignInv
  <2>8. CASE cluster[id] = Absent /\ job' = Applied(job)
    <3>1. /\ job'.snap = job.snap /\ job'.remove = job.remove /\ job'.pc = "apply"
          /\ job'.entries = job.entries \cup {Head(job.todo).ref}
      BY <1>1, <2>8 DEF Applied, Next1, Jobs
    <3>2. Unclaiming(job'.entries)
      BY <2>4, <2>8, <3>1 DEF ForeignInv, Unclaiming
    <3>3. QED  BY <1>2, <2>1, <2>6, <3>1, <3>2 DEF ForeignInv
  <2>9. QED  BY <2>2, <2>7, <2>8
<1>21. CASE PatchStatus
  <2>1. PICK reworded \in BOOLEAN :
          StoreStatus(job.set, NewStatus(job), reworded) \/ UNCHANGED server
    BY <1>21 DEF PatchStatus
  <2> DEFINE p == Patched(obj[job.set], cache[job.set], NewStatus(job), reworded)
  <2>2. p \in SetObjects
    BY <1>21, PatchedType DEF PatchStatus
  <2>3. Unclaiming(NewInventory(job))
    BY DEF NewInventory, ForeignInv
  <2>4. NewStatus(job).inventory = NewInventory(job)
    BY <1>1 DEF NewStatus, SetObjects
  <2>5. p.inventory \in {obj[job.set].inventory, NewStatus(job).inventory}
    BY <1>1 DEF Patched, SetObjects
  <2>6. Unclaiming(p.inventory)
    BY <1>1, <2>3, <2>4, <2>5
  <2>7. \/ \E o \in SetObjects : Store(job.set, o) /\ Unclaiming(o.inventory)
        \/ UNCHANGED server
    BY <2>1, <2>2, <2>6 DEF StoreStatus
  <2>8. job' = Idle /\ UNCHANGED <<cache, cluster>>
    BY <1>4, <1>21 DEF PatchStatus, AfterStatus
  <2>9. QED  BY <1>6, <1>7, <2>7, <2>8 DEF server
<1>22. CASE Crash
  <2>1. /\ cache' = obj /\ \A s \in Sets : watch'[s] = {}
        /\ job' = Idle /\ UNCHANGED <<obj, cluster>>
    BY <1>22 DEF Crash
  <2>2. QED  BY <1>3, <2>1, IdleForeign, ForeignParts DEF ForeignInv
<1>23. CASE FinalizeUnreadable
  BY <1>4, <1>7, <1>23 DEF FinalizeUnreadable, server
<1>24. CASE GetUnreadable
  <2>1. job' = Failed(job)
    BY <1>24 DEF GetUnreadable
  <2>2. /\ job'.snap = job.snap /\ job'.entries = job.entries
        /\ job'.remove = job.remove /\ job'.pc = "apply"
    BY <1>1, <1>17, <2>1
  <2>3. QED  BY <1>13, <1>24, <2>2 DEF GetUnreadable, server, ForeignInv
<1>25. CASE PruneUnreadable
  <2>1. /\ job'.snap = job.snap /\ job'.entries = job.entries /\ job'.remove = {}
        /\ job'.pc = "prune"
    BY <1>1, <1>25 DEF PruneUnreadable, Jobs
  <2>2. QED  BY <1>13, <1>25, <2>1 DEF PruneUnreadable, server, Unclaiming
<1>26. QED
  BY <1>5, <1>8, <1>9, <1>11, <1>12, <1>14, <1>15, <1>16, <1>18, <1>19, <1>20, <1>21, <1>22,
     <1>23, <1>24, <1>25
  DEF Worker

\* ForeignInv is inductive with TypeInv.
LEMMA NextForeignInv == TypeInv /\ ForeignInv /\ [Next]_vars => ForeignInv'
<1>1. ASSUME ForeignInv, UNCHANGED vars PROVE ForeignInv'
  BY <1>1 DEF vars, ForeignInv, ForeignUntouched, Unclaiming
<1>2. QED
  BY <1>1, OthersForeignInv, WorkerForeignInv DEF Next

\* A resource that was in the cluster before any set, and that no user touches,
\* is the same in every reachable state, whatever fails, restarts or is read
\* late.
THEOREM ForeignSafe == Spec => []ForeignUntouched
<1>1. ForeignInv => ForeignUntouched
  BY DEF ForeignInv
<1>2. QED
  BY <1>1, InitTypeInv, NextTypeInv, InitForeignInv, NextForeignInv, PTL DEF Spec

-----------------------------------------------------------------------------
(* The finalizer outlives the work, and finalizing forgets nothing. *)

\* What a write does to the server and to what is on its way.
LEMMA StoreEffect ==
  ASSUME TypeOK, NEW s \in Sets, NEW o \in SetObjects, Store(s, o)
  PROVE  \E new \in SetObjects :
           /\ new.rv = obj[s].rv + 1
           /\ new.exists = o.exists /\ new.finalizer = o.finalizer
           /\ new.deleting = o.deleting /\ new.inventory = o.inventory
           /\ obj'[s] = new /\ watch'[s] = watch[s] \cup {new}
           /\ \A t \in Sets \ {s} : obj'[t] = obj[t] /\ watch'[t] = watch[t]
<1> DEFINE new == [o EXCEPT !.rv = obj[s].rv + 1]
<1>1. obj[s].rv + 1 \in Nat
  BY DEF TypeOK, SetObjects
<1>2. /\ new \in SetObjects /\ new.rv = obj[s].rv + 1
      /\ new.exists = o.exists /\ new.finalizer = o.finalizer
      /\ new.deleting = o.deleting /\ new.inventory = o.inventory
  BY <1>1 DEF SetObjects
<1>3. obj' = [obj EXCEPT ![s] = new] /\ watch' = [watch EXCEPT ![s] = @ \cup {new}]
  BY DEF Store
<1> HIDE DEF new
<1>4. /\ obj'[s] = new /\ watch'[s] = watch[s] \cup {new}
      /\ \A t \in Sets \ {s} : obj'[t] = obj[t] /\ watch'[t] = watch[t]
  BY <1>3 DEF TypeOK
<1>5. QED  BY <1>2, <1>4, Zenon

\* Versions are natural numbers.
LEMMA VersionsAreNat ==
  ASSUME TypeInv
  PROVE  /\ \A s \in Sets : obj[s].rv \in Nat /\ cache[s].rv \in Nat
         /\ \A s \in Sets : \A o \in watch[s] : o.rv \in Nat
         /\ job.snap.rv \in Nat
<1>1. TypeOK
  BY DEF TypeInv
<1>2. \A o \in SetObjects : o.rv \in Nat
  BY DEF SetObjects
<1>3. \A s \in Sets : obj[s] \in SetObjects /\ cache[s] \in SetObjects
  BY <1>1 DEF TypeOK
<1>4. \A s \in Sets : \A o \in watch[s] : o \in SetObjects
  BY <1>1 DEF TypeOK
<1>5. job.snap \in SetObjects
  BY <1>1 DEF TypeOK, Jobs
<1>6. QED  BY <1>2, <1>3, <1>4, <1>5

\* A write keeps the order of the versions.
LEMMA StoreVersionInv ==
  ASSUME TypeInv, VersionInv, NEW s \in Sets, NEW o \in SetObjects, Store(s, o),
         UNCHANGED cache, job' = job \/ job'.pc = "idle"
  PROVE  VersionInv'
<1>1. PICK new \in SetObjects :
        /\ new.rv = obj[s].rv + 1
        /\ obj'[s] = new /\ watch'[s] = watch[s] \cup {new}
        /\ \A t \in Sets \ {s} : obj'[t] = obj[t] /\ watch'[t] = watch[t]
  BY StoreEffect DEF TypeInv
<1>2. ASSUME NEW t \in Sets
      PROVE  /\ cache'[t].rv <= obj'[t].rv
             /\ \A w \in watch'[t] : cache'[t].rv < w.rv /\ w.rv <= obj'[t].rv
             /\ \A w \in {cache'[t]} \cup watch'[t] : w.rv = obj'[t].rv => w = obj'[t]
  <2>1. CASE t = s
    BY <1>1, <2>1, VersionsAreNat DEF VersionInv, Known
  <2>2. CASE t # s
    BY <1>1, <2>2 DEF VersionInv, Known
  <2>3. QED  BY <2>1, <2>2
<1>3. ASSUME job'.pc # "idle"
      PROVE  /\ job'.snap.rv <= cache'[job'.set].rv
             /\ job'.snap.rv = obj'[job'.set].rv =>
                  [job'.snap EXCEPT !.handled = 0] = [obj'[job'.set] EXCEPT !.handled = 0]
  <2>1. job' = job /\ job.set \in Sets /\ job.snap.rv <= cache[job.set].rv
    BY <1>3 DEF VersionInv, TypeInv, TypeOK, Jobs
  <2>2. CASE job.set = s
    <3>1. job.snap.rv < obj'[job.set].rv
      BY <1>1, <2>1, <2>2, VersionsAreNat DEF VersionInv
    <3>2. QED  BY <2>1, <3>1, VersionsAreNat, <1>1, <2>2
  <2>3. CASE job.set # s
    BY <1>1, <1>3, <2>1, <2>3 DEF VersionInv
  <2>4. QED  BY <2>2, <2>3
<1>4. QED  BY <1>2, <1>3 DEF VersionInv, Known

\* A write keeps the finalizer where it is needed.
LEMMA StoreGuardInv ==
  ASSUME TypeInv, GuardInv, NEW s \in Sets, NEW o \in SetObjects, Store(s, o),
         UNCHANGED cache, job' = job \/ job' = Idle,
         o.deleting => o.exists /\ o.finalizer,
         o.inventory # {} => o.exists /\ o.finalizer,
         \/ obj[s].exists /\ obj[s].finalizer => o.exists /\ o.finalizer
         \/ (\A w \in Known(s) : ~Live(w)) /\ (Working => job.set # s \/ job' = Idle)
  PROVE  GuardInv'
<1>1. PICK new \in SetObjects :
        /\ new.exists = o.exists /\ new.finalizer = o.finalizer
        /\ new.deleting = o.deleting /\ new.inventory = o.inventory
        /\ obj'[s] = new /\ watch'[s] = watch[s] \cup {new}
        /\ \A t \in Sets \ {s} : obj'[t] = obj[t] /\ watch'[t] = watch[t]
  BY StoreEffect DEF TypeInv
<1>2. ASSUME NEW t \in Sets
      PROVE  /\ obj'[t].inventory # {} => obj'[t].exists /\ obj'[t].finalizer
             /\ \A w \in {cache'[t]} \cup watch'[t] :
                  Live(w) => obj'[t].exists /\ obj'[t].finalizer
             /\ obj'[t].deleting => obj'[t].exists /\ obj'[t].finalizer
  <2>1. CASE t = s
    BY <1>1, <2>1 DEF GuardInv, Known, Live
  <2>2. CASE t # s
    BY <1>1, <2>2 DEF GuardInv, WorkIsGuarded, Known
  <2>3. QED  BY <2>1, <2>2
<1>3. Idle.pc = "idle"
  BY DEF Idle
<1>4. Working' => obj'[job'.set].exists /\ obj'[job'.set].finalizer
  <2>1. SUFFICES ASSUME Working' PROVE obj'[job'.set].exists /\ obj'[job'.set].finalizer
    OBVIOUS
  <2>2. job' = job /\ Working /\ job' # Idle /\ job.set \in Sets
    BY <1>3, <2>1 DEF Working, TypeInv, TypeOK, Jobs
  <2>3. obj[job.set].exists /\ obj[job.set].finalizer
    BY <2>2 DEF GuardInv, WorkIsGuarded, Working
  <2>4. QED  BY <1>1, <2>2, <2>3
<1>5. /\ Working' => Live(job'.snap)
      /\ job'.pc = "finalize" => job'.snap.exists /\ job'.snap.finalizer /\ job'.snap.deleting
      /\ job'.pc = "addFinalizer" => job'.snap.exists /\ ~job'.snap.finalizer
  BY <1>3 DEF GuardInv, Working
<1>6. QED  BY <1>2, <1>4, <1>5 DEF GuardInv, WorkIsGuarded, Known, Working, Live

\* Nothing is known at the start.
LEMMA InitSafeInv == Init => SafeInv
<1> SUFFICES ASSUME Init PROVE SafeInv
  OBVIOUS
<1>1. Idle.pc = "idle"
  BY DEF Idle
<1>2. NoSet \in SetObjects /\ NoSet.inventory = {} /\ ~NoSet.exists /\ ~NoSet.deleting
  BY InitialValues DEF NoSet
<1>3. NoSet.rv <= NoSet.rv
  BY <1>2 DEF SetObjects
<1>4. VersionInv
  BY <1>1, <1>3 DEF Init, VersionInv, Known
<1>5. GuardInv
  BY <1>1, <1>2 DEF Init, GuardInv, WorkIsGuarded, Working, Known, Live
<1>6. FinalizeInv
  BY <1>1 DEF Init, FinalizeInv
<1>7. QED  BY <1>4, <1>5, <1>6 DEF SafeInv

\* A step that leaves the sets, the cache and the job alone.
LEMMA QuietSafeInv ==
  ASSUME SafeInv, UNCHANGED <<obj, watch, cache, job>>,
         job.pc = "finalize" => \A id \in Ids : cluster'[id].owner = job.set =>
                                               cluster[id].owner = job.set,
         TypeInv
  PROVE  SafeInv'
<1>1. VersionInv'
  BY DEF SafeInv, VersionInv, Known
<1>2. GuardInv'
  BY DEF SafeInv, GuardInv, WorkIsGuarded, Working, Known, Live
<1>3. \A ref \in job.snap.inventory : ref.id \in Ids
  BY DEF TypeInv, TypeOK, Jobs, SetObjects, Refs
<1>4. FinalizeInv'
  BY <1>3 DEF SafeInv, FinalizeInv
<1>5. QED  BY <1>1, <1>2, <1>4 DEF SafeInv

\* A step of the work between its first read and its last write.
LEMMA WorkSafeInv ==
  ASSUME SafeInv, UNCHANGED <<obj, watch, cache>>, Working, Working',
         job'.set = job.set, job'.snap = job.snap
  PROVE  SafeInv'
<1>1. job.pc # "idle" /\ job'.pc \notin {"finalize", "addFinalizer"}
  BY DEF Working
<1>2. VersionInv'
  BY <1>1 DEF SafeInv, VersionInv, Known
<1>3. GuardInv'
  BY <1>1 DEF SafeInv, GuardInv, WorkIsGuarded, Working, Known, Live
<1>4. QED  BY <1>1, <1>2, <1>3 DEF SafeInv, FinalizeInv

\* A reconciliation that ends without a write.
LEMMA IdleSafeInv ==
  ASSUME SafeInv, UNCHANGED <<obj, watch, cache>>, job' = Idle
  PROVE  SafeInv'
<1>1. job'.pc = "idle"
  BY DEF Idle
<1>2. VersionInv'
  BY <1>1 DEF SafeInv, VersionInv, Known
<1>3. GuardInv'
  BY <1>1 DEF SafeInv, GuardInv, WorkIsGuarded, Working, Known, Live
<1>4. QED  BY <1>1, <1>2, <1>3 DEF SafeInv, FinalizeInv

\* Users write sets, and never take a finalizer away.
LEMMA UsersSafeInv == TypeInv /\ SafeInv /\ Users => SafeInv'
<1> SUFFICES ASSUME TypeInv, SafeInv, Users PROVE SafeInv'
  OBVIOUS
<1> DEFINE Keeps(s, o) ==
             /\ o.deleting => o.exists /\ o.finalizer
             /\ o.inventory # {} => o.exists /\ o.finalizer
             /\ \/ obj[s].exists /\ obj[s].finalizer => o.exists /\ o.finalizer
                \/ (\A w \in Known(s) : ~Live(w)) /\ (Working => job.set # s)
<1>1. ASSUME NEW s \in Sets, NEW o \in SetObjects, EditSet(s, o), Keeps(s, o)
      PROVE  SafeInv'
  <2>1. Store(s, o) /\ UNCHANGED <<cache, cluster, job>>
    BY <1>1 DEF EditSet, UserStep
  <2>2. VersionInv'
    BY <1>1, <2>1, StoreVersionInv DEF SafeInv
  <2>3. GuardInv'
    BY <1>1, <2>1, StoreGuardInv DEF SafeInv
  <2>4. FinalizeInv'
    BY <2>1 DEF SafeInv, FinalizeInv
  <2>5. QED  BY <2>2, <2>3, <2>4 DEF SafeInv
<1>2. ASSUME NEW s \in Sets
      PROVE  /\ obj[s] \in SetObjects /\ obj[s].gen + 1 \in Nat /\ obj[s].requested + 1 \in Nat
             /\ obj[s].deleting => obj[s].exists /\ obj[s].finalizer
             /\ obj[s].inventory # {} => obj[s].exists /\ obj[s].finalizer
             /\ ~(obj[s].exists /\ obj[s].finalizer) =>
                  (\A w \in Known(s) : ~Live(w)) /\ (Working => job.set # s)
  <2>1. obj[s] \in SetObjects
    BY DEF TypeInv, TypeOK
  <2>2. obj[s].gen + 1 \in Nat /\ obj[s].requested + 1 \in Nat
    BY <2>1 DEF SetObjects
  <2>3. /\ obj[s].deleting => obj[s].exists /\ obj[s].finalizer
        /\ obj[s].inventory # {} => obj[s].exists /\ obj[s].finalizer
        /\ ~(obj[s].exists /\ obj[s].finalizer) =>
             (\A w \in Known(s) : ~Live(w)) /\ (Working => job.set # s)
    BY SMTT(40) DEF SafeInv, GuardInv, WorkIsGuarded, Working
  <2>4. QED  BY <2>1, <2>2, <2>3
<1>3. NoSet \in SetObjects /\ NoSet.inventory = {} /\ ~NoSet.exists /\ ~NoSet.deleting
  BY InitialValues DEF NoSet
<1>4. ASSUME NEW s \in Sets, CreateSet(s) PROVE SafeInv'
  <2>1. PICK spec \in Specs, suspend \in BOOLEAN :
          EditSet(s, [NoSet EXCEPT !.exists = TRUE, !.spec = spec,
                                   !.suspend = suspend, !.gen = obj[s].gen + 1])
    BY <1>4 DEF CreateSet
  <2> DEFINE new == [NoSet EXCEPT !.exists = TRUE, !.spec = spec,
                                  !.suspend = suspend, !.gen = obj[s].gen + 1]
  <2>2. new \in SetObjects /\ new.inventory = {} /\ ~new.deleting
    BY <1>2, <1>3 DEF SetObjects
  <2>3. ~obj[s].exists
    BY <1>4 DEF CreateSet
  <2>4. Keeps(s, new)
    BY <1>2, <2>2, <2>3
  <2>5. \E o \in SetObjects : EditSet(s, o) /\ Keeps(s, o)
    BY <2>1, <2>2, <2>4 DEF EditSet, Store
  <2>6. QED  BY <1>1, <2>5
<1>5. ASSUME NEW s \in Sets, EditSpec(s) PROVE SafeInv'
  <2>1. PICK spec \in Specs : EditSet(s, [obj[s] EXCEPT !.spec = spec, !.gen = @ + 1])
    BY <1>5 DEF EditSpec
  <2> DEFINE new == [obj[s] EXCEPT !.spec = spec, !.gen = @ + 1]
  <2>2. /\ new \in SetObjects /\ new.inventory = obj[s].inventory
        /\ new.deleting = obj[s].deleting /\ new.exists = obj[s].exists
        /\ new.finalizer = obj[s].finalizer
    BY <1>2 DEF SetObjects
  <2>3. Keeps(s, new)
    BY <1>2, <2>2
  <2>4. \E o \in SetObjects : EditSet(s, o) /\ Keeps(s, o)
    BY <2>1, <2>2, <2>3 DEF EditSet, Store
  <2>5. QED  BY <1>1, <2>4
<1>6. ASSUME NEW s \in Sets, ToggleSuspend(s) PROVE SafeInv'
  <2> DEFINE new == [obj[s] EXCEPT !.suspend = ~@, !.gen = @ + 1]
  <2>1. /\ new \in SetObjects /\ new.inventory = obj[s].inventory
        /\ new.deleting = obj[s].deleting /\ new.exists = obj[s].exists
        /\ new.finalizer = obj[s].finalizer
    BY <1>2 DEF SetObjects
  <2>2. Keeps(s, new)
    BY <1>2, <2>1
  <2>3. \E o \in SetObjects : EditSet(s, o) /\ Keeps(s, o)
    BY <1>6, <2>1, <2>2 DEF ToggleSuspend, EditSet, Store
  <2>4. QED  BY <1>1, <2>3
<1>7. ASSUME NEW s \in Sets, RequestReconcile(s) PROVE SafeInv'
  <2> DEFINE new == [obj[s] EXCEPT !.requested = @ + 1]
  <2>1. /\ new \in SetObjects /\ new.inventory = obj[s].inventory
        /\ new.deleting = obj[s].deleting /\ new.exists = obj[s].exists
        /\ new.finalizer = obj[s].finalizer
    BY <1>2 DEF SetObjects
  <2>2. Keeps(s, new)
    BY <1>2, <2>1
  <2>3. \E o \in SetObjects : EditSet(s, o) /\ Keeps(s, o)
    BY <1>7, <2>1, <2>2 DEF RequestReconcile, EditSet, Store
  <2>4. QED  BY <1>1, <2>3
<1>8. ASSUME NEW s \in Sets, DeleteSet(s) PROVE SafeInv'
  <2> DEFINE marked == [obj[s] EXCEPT !.deleting = TRUE, !.gen = @ + 1]
  <2>1. CASE obj[s].finalizer
    <3>1. /\ marked \in SetObjects /\ marked.exists = obj[s].exists
          /\ marked.finalizer = obj[s].finalizer
      BY <1>2 DEF SetObjects
    <3>2. obj[s].exists
      BY <1>8 DEF DeleteSet
    <3>3. Keeps(s, marked)
      BY <2>1, <3>1, <3>2
    <3>4. \E o \in SetObjects : EditSet(s, o) /\ Keeps(s, o)
      BY <1>8, <2>1, <3>1, <3>3 DEF DeleteSet, EditSet, Store
    <3>5. QED  BY <1>1, <3>4
  <2>2. CASE ~obj[s].finalizer
    <3>1. /\ Removed(obj[s]) \in SetObjects /\ Removed(obj[s]).inventory = {}
          /\ ~Removed(obj[s]).deleting
      BY <1>2, <1>3 DEF Removed, SetObjects
    <3>2. Keeps(s, Removed(obj[s]))
      BY <1>2, <2>2, <3>1
    <3>3. \E o \in SetObjects : EditSet(s, o) /\ Keeps(s, o)
      BY <1>8, <2>2, <3>1, <3>2 DEF DeleteSet, EditSet, Store
    <3>4. QED  BY <1>1, <3>3
  <2>3. QED  BY <2>1, <2>2
<1>9. ASSUME NEW s \in Sets, ChangeSource(s) PROVE SafeInv'
  BY <1>9, QuietSafeInv DEF ChangeSource, UserStep, server
<1>10. ASSUME NEW id \in UserIds, UserCreateResource(id) \/ UserDeleteResource(id)
       PROVE  SafeInv'
  <2>1. PICK r \in {ForeignResource, Absent} : cluster' = [cluster EXCEPT ![id] = r]
    BY <1>10 DEF UserCreateResource, UserDeleteResource
  <2>2. r.owner # job.set
    BY SetsAssumption DEF ForeignResource, Absent, TypeInv, TypeOK, Jobs
  <2>3. \A i \in Ids : cluster'[i].owner = job.set => cluster[i].owner = job.set
    BY <2>1, <2>2 DEF TypeInv, TypeOK
  <2>4. UNCHANGED <<obj, watch, cache, job>>
    BY <1>10 DEF UserCreateResource, UserDeleteResource, UserStep, server
  <2>5. QED  BY <2>3, <2>4, QuietSafeInv
<1>11. QED
  BY <1>4, <1>5, <1>6, <1>7, <1>8, <1>9, <1>10 DEF Users

\* The informer moves forward, the queue and the timers change no set.
LEMMA ManagerSafeInv ==
  ASSUME TypeInv, SafeInv,
         Crash \/ \E s \in Sets : Deliver(s) \/ TimerFire(s) \/ ClientFailure(s) \/ Begin(s)
  PROVE  SafeInv'
<1>1. ASSUME NEW s \in Sets, Deliver(s) PROVE SafeInv'
  <2>1. PICK o \in watch[s] :
          /\ cache' = [cache EXCEPT ![s] = o]
          /\ watch' = [watch EXCEPT ![s] = {w \in @ : w.rv > o.rv}]
    BY <1>1 DEF Deliver
  <2>2. UNCHANGED <<obj, cluster, job>>
    BY <1>1 DEF Deliver
  <2>3. /\ cache'[s] = o /\ watch'[s] = {w \in watch[s] : w.rv > o.rv}
        /\ \A t \in Sets \ {s} : cache'[t] = cache[t] /\ watch'[t] = watch[t]
    BY <2>1 DEF TypeInv, TypeOK
  <2>4. cache[s].rv < o.rv /\ o.rv <= obj[s].rv
    BY DEF SafeInv, VersionInv
  <2>5. \A t \in Sets : {cache'[t]} \cup watch'[t] \subseteq Known(t)
    BY <2>3 DEF Known
  <2>6. VersionInv'
    <3>1. ASSUME NEW t \in Sets
          PROVE  /\ cache'[t].rv <= obj[t].rv
                 /\ \A w \in watch'[t] : cache'[t].rv < w.rv /\ w.rv <= obj[t].rv
                 /\ cache[t].rv <= cache'[t].rv
      <4>1. CASE t = s
        BY <2>3, <2>4, <4>1, VersionsAreNat DEF SafeInv, VersionInv
      <4>2. CASE t # s
        BY <2>3, <4>2, VersionsAreNat DEF SafeInv, VersionInv
      <4>3. QED  BY <4>1, <4>2
    <3>2. job.pc # "idle" => job.snap.rv <= cache'[job.set].rv
      <4>1. SUFFICES ASSUME job.pc # "idle" PROVE job.snap.rv <= cache'[job.set].rv
        OBVIOUS
      <4>2. job.set \in Sets /\ job.snap.rv <= cache[job.set].rv
        BY <4>1 DEF SafeInv, VersionInv, TypeInv, TypeOK, Jobs
      <4>3. cache'[job.set].rv \in Nat
        BY <2>3, <4>2, VersionsAreNat
      <4>4. QED  BY <3>1, <4>2, <4>3, VersionsAreNat
    <3>3. QED  BY <2>2, <2>5, <3>1, <3>2 DEF SafeInv, VersionInv, Known
  <2>7. GuardInv'
    BY <2>2, <2>5 DEF SafeInv, GuardInv, WorkIsGuarded, Working, Known, Live
  <2>8. FinalizeInv'
    BY <2>2 DEF SafeInv, FinalizeInv
  <2>9. QED  BY <2>6, <2>7, <2>8 DEF SafeInv
<1>2. ASSUME NEW s \in Sets, TimerFire(s) \/ ClientFailure(s) \/ SkipReconcile(s) PROVE SafeInv'
  BY <1>2, QuietSafeInv DEF TimerFire, ClientFailure, SkipReconcile, Take, server
<1>3. ASSUME NEW s \in Sets, UNCHANGED <<obj, watch, cache>>, job'.set = s,
             job'.snap \in {cache[s], Acknowledged(cache[s])},
             \/ job'.pc = "render" /\ Live(cache[s])
             \/ /\ job'.pc = "finalize" /\ job'.remove = job'.snap.inventory
                /\ cache[s].exists /\ cache[s].finalizer /\ cache[s].deleting
             \/ job'.pc = "addFinalizer" /\ cache[s].exists /\ ~cache[s].finalizer
      PROVE  SafeInv'
  <2>1. /\ cache[s] \in SetObjects /\ cache[s].rv \in Nat
    BY DEF TypeInv, TypeOK, SetObjects
  <2>2. /\ job'.snap.rv = cache[s].rv /\ job'.snap.exists = cache[s].exists
        /\ job'.snap.finalizer = cache[s].finalizer /\ job'.snap.deleting = cache[s].deleting
        /\ [job'.snap EXCEPT !.handled = 0] = [cache[s] EXCEPT !.handled = 0]
    BY <1>3, <2>1 DEF Acknowledged, SetObjects
  <2>3. job'.snap.rv <= cache[s].rv
    BY <2>1, <2>2
  <2>4. job'.snap.rv = obj[s].rv =>
          [job'.snap EXCEPT !.handled = 0] = [obj[s] EXCEPT !.handled = 0]
    BY <2>2 DEF SafeInv, VersionInv, Known
  <2>5. VersionInv'
    BY <1>3, <2>3, <2>4 DEF SafeInv, VersionInv, Known
  <2>6. Live(cache[s]) => obj[s].exists /\ obj[s].finalizer
    BY DEF SafeInv, GuardInv, Known
  <2>7. GuardInv'
    BY <1>3, <2>2, <2>6 DEF SafeInv, GuardInv, WorkIsGuarded, Working, Known, Live
  <2>8. FinalizeInv'
    BY <1>3 DEF FinalizeInv
  <2>9. QED  BY <2>5, <2>7, <2>8 DEF SafeInv
<1>4. ASSUME NEW s \in Sets, BeginAddFinalizer(s) \/ BeginFinalize(s) \/ BeginRender(s)
      PROVE  SafeInv'
  <2>1. UNCHANGED <<obj, watch, cache>>
    BY <1>4 DEF BeginAddFinalizer, BeginFinalize, BeginRender, Take, server
  <2>2. job'.set = s /\ job'.snap \in {cache[s], Acknowledged(cache[s])}
    BY <1>4 DEF BeginAddFinalizer, BeginFinalize, BeginRender, Idle
  <2>3. CASE BeginAddFinalizer(s)
    <3>1. job'.pc = "addFinalizer" /\ cache[s].exists /\ ~cache[s].finalizer
      BY <2>3 DEF BeginAddFinalizer, Idle
    <3>2. QED  BY <1>3, <2>1, <2>2, <3>1
  <2>4. CASE BeginFinalize(s)
    <3>1. /\ job'.pc = "finalize" /\ job'.remove = job'.snap.inventory
          /\ cache[s].exists /\ cache[s].finalizer /\ cache[s].deleting
      BY <2>4 DEF BeginFinalize, Idle, Works
    <3>2. QED  BY <1>3, <2>1, <2>2, <3>1
  <2>5. CASE BeginRender(s)
    <3>1. job'.pc = "render" /\ Live(cache[s])
      BY <2>5 DEF BeginRender, Idle, Works, Live
    <3>2. QED  BY <1>3, <2>1, <2>2, <3>1
  <2>6. QED  BY <1>4, <2>3, <2>4, <2>5
<1>5. CASE Crash
  <2>1. /\ cache' = obj /\ \A s \in Sets : watch'[s] = {}
        /\ job'.pc = "idle" /\ UNCHANGED <<obj, cluster>>
    BY <1>5 DEF Crash, Idle
  <2>2. VersionInv'
    BY <2>1, VersionsAreNat DEF VersionInv, Known
  <2>3. GuardInv'
    BY <2>1 DEF SafeInv, GuardInv, WorkIsGuarded, Working, Known, Live
  <2>4. FinalizeInv'
    BY <2>1 DEF FinalizeInv
  <2>5. QED  BY <2>2, <2>3, <2>4 DEF SafeInv
<1>6. QED
  BY <1>1, <1>2, <1>4, <1>5 DEF Begin

\* When the worker may take the finalizer away, it has seen the newest version
\* of the set, and so has the cache.
LEMMA RemovalIsKnown ==
  ASSUME TypeInv, SafeInv, job.pc = "finalize", Current(job.snap, job.set)
  PROVE  /\ obj[job.set].deleting /\ obj[job.set].inventory = job.snap.inventory
         /\ \A w \in Known(job.set) : ~Live(w)
<1> DEFINE s == job.set
<1>1. s \in Sets /\ job.snap \in SetObjects /\ obj[s] \in SetObjects
  BY DEF TypeInv, TypeOK, Jobs
<1>2. job.snap.rv = obj[s].rv /\ job.snap.rv <= cache[s].rv
  BY DEF Current, SafeInv, VersionInv
<1>3. [job.snap EXCEPT !.handled = 0] = [obj[s] EXCEPT !.handled = 0]
  BY <1>2 DEF SafeInv, VersionInv
<1>4. /\ [job.snap EXCEPT !.handled = 0].deleting = job.snap.deleting
      /\ [job.snap EXCEPT !.handled = 0].inventory = job.snap.inventory
      /\ [obj[s] EXCEPT !.handled = 0].deleting = obj[s].deleting
      /\ [obj[s] EXCEPT !.handled = 0].inventory = obj[s].inventory
  BY <1>1 DEF SetObjects
<1>5. obj[s].deleting /\ obj[s].inventory = job.snap.inventory
  BY <1>3, <1>4 DEF SafeInv, GuardInv
<1>6. cache[s].rv <= obj[s].rv /\ cache[s].rv \in Nat /\ obj[s].rv \in Nat
  BY <1>1, VersionsAreNat DEF SafeInv, VersionInv
<1>7. cache[s].rv = obj[s].rv
  BY <1>2, <1>6
<1>8. cache[s] = obj[s]
  BY <1>1, <1>7 DEF SafeInv, VersionInv, Known
<1>9. \A w \in watch[s] : cache[s].rv < w.rv /\ w.rv <= obj[s].rv /\ w.rv \in Nat
  BY <1>1, VersionsAreNat DEF SafeInv, VersionInv
<1>10. watch[s] = {}
  BY <1>6, <1>7, <1>9
<1>11. QED  BY <1>5, <1>8, <1>10 DEF Known, Live

\* The worker writes a set only in ways that keep the invariant.
LEMMA WorkerSafeInv ==
  ASSUME TypeInv, SafeInv, Worker
  PROVE  SafeInv'
<1>1. /\ TypeOK /\ job \in Jobs /\ job.set \in Sets /\ job.snap \in SetObjects
      /\ obj[job.set] \in SetObjects
  BY DEF TypeInv, TypeOK, Jobs
<1>2. Retry \/ Finish => job' = Idle
  BY DEF Retry, Finish
<1>3. Idle.pc = "idle"
  BY DEF Idle
<1>4. ASSUME NEW o \in SetObjects, Store(job.set, o), UNCHANGED cache, job' = Idle,
             o.deleting => o.exists /\ o.finalizer,
             o.inventory # {} => o.exists /\ o.finalizer,
             \/ obj[job.set].exists /\ obj[job.set].finalizer => o.exists /\ o.finalizer
             \/ \A w \in Known(job.set) : ~Live(w)
      PROVE  SafeInv'
  <2>1. VersionInv'
    BY <1>1, <1>3, <1>4, StoreVersionInv DEF SafeInv
  <2>2. GuardInv'
    BY <1>1, <1>4, StoreGuardInv DEF SafeInv
  <2>3. FinalizeInv'
    BY <1>3, <1>4 DEF FinalizeInv
  <2>4. QED  BY <2>1, <2>2, <2>3 DEF SafeInv
<1>5. CASE AddFinalizer
  <2> DEFINE new == [obj[job.set] EXCEPT !.finalizer = TRUE]
  <2>1. job' = Idle /\ UNCHANGED cache
    BY <1>2, <1>5 DEF AddFinalizer
  <2>2. CASE UNCHANGED server
    BY <2>1, <2>2, IdleSafeInv DEF server
  <2>3. CASE Current(job.snap, job.set) /\ Store(job.set, new)
    <3>1. new \in SetObjects /\ new.exists /\ new.finalizer
      BY <1>1, <2>3 DEF SetObjects, Current
    <3>2. \E o \in SetObjects : Store(job.set, o) /\ o.exists /\ o.finalizer
      BY <2>3, <3>1 DEF Store
    <3>3. QED  BY <1>4, <2>1, <3>2
  <2>4. QED  BY <1>5, <2>2, <2>3 DEF AddFinalizer
<1>6. CASE RemoveFinalizer
  <2> DEFINE new == Removed(obj[job.set])
  <2>1. job' = Idle /\ UNCHANGED cache
    BY <1>2, <1>6 DEF RemoveFinalizer
  <2>2. CASE UNCHANGED server
    BY <2>1, <2>2, IdleSafeInv DEF server
  <2>3. CASE Current(job.snap, job.set) /\ Store(job.set, new)
    <3>1. \A w \in Known(job.set) : ~Live(w)
      BY <1>6, <2>3, RemovalIsKnown DEF RemoveFinalizer
    <3>2. new \in SetObjects /\ new.inventory = {} /\ ~new.deleting
      BY <1>1, InitialValues DEF Removed, NoSet, SetObjects
    <3>3. \E o \in SetObjects : Store(job.set, o) /\ o.inventory = {} /\ ~o.deleting
      BY <2>3, <3>2
    <3>4. QED  BY <1>4, <2>1, <3>1, <3>3
  <2>4. QED  BY <1>6, <2>2, <2>3 DEF RemoveFinalizer
<1>7. CASE FinalizeOne
  <2>1. PICK ref \in job.remove, out \in Outcomes("delete") :
          /\ IF out # "refused" THEN Delete(ref.id) ELSE UNCHANGED cluster
          /\ IF out = "ok" THEN job' = [job EXCEPT !.remove = @ \ {ref}] ELSE job' = Idle
    BY <1>2, <1>7 DEF FinalizeOne
  <2>2. UNCHANGED <<obj, watch, cache>> /\ job.pc = "finalize"
    BY <1>7 DEF FinalizeOne, server
  <2>3. CASE out # "ok"
    BY <2>1, <2>2, <2>3, IdleSafeInv
  <2>4. CASE out = "ok"
    <3>1. /\ job'.pc = "finalize" /\ job'.set = job.set /\ job'.snap = job.snap
          /\ job'.remove = job.remove \ {ref}
      BY <1>1, <2>1, <2>2, <2>4 DEF Jobs
    <3>2. cluster' = [cluster EXCEPT ![ref.id] = Absent]
      BY <2>1, <2>4 DEF Delete
    <3>3. Absent.owner # job.set
      BY <1>1, SetsAssumption DEF Absent
    <3>4. \A r \in job.snap.inventory : r.id \in Ids
      BY <1>1 DEF SetObjects, Refs
    <3>5. FinalizeInv'
      BY <1>1, <2>2, <3>1, <3>2, <3>3, <3>4 DEF SafeInv, FinalizeInv, TypeOK
    <3>6. VersionInv'
      BY <2>2, <3>1 DEF SafeInv, VersionInv, Known
    <3>7. GuardInv'
      BY <2>2, <3>1 DEF SafeInv, GuardInv, WorkIsGuarded, Working, Known, Live
    <3>8. QED  BY <3>5, <3>6, <3>7 DEF SafeInv
  <2>5. QED  BY <2>3, <2>4
<1>8. CASE Render \/ EndApply \/ PruneOne \/ PruneUnreadable \/ EndPrune
  <2>1. UNCHANGED <<obj, watch, cache>> /\ Working
    BY <1>8 DEF Render, EndApply, PruneOne, PruneUnreadable, EndPrune, server, Working
  <2>2. job'.set = job.set /\ job'.snap = job.snap /\ Working'
    BY <1>1, <1>8 DEF Render, EndApply, PruneOne, PruneUnreadable, EndPrune, Working, Jobs
  <2>3. QED  BY <2>1, <2>2, WorkSafeInv
<1>9. CASE GetExisting \/ GetUnreadable \/ PatchResource \/ CreateResource
  <2>1. /\ UNCHANGED <<obj, watch, cache>>
        /\ job.pc \in {"apply", "patch", "create"}
    BY <1>9 DEF GetExisting, GetUnreadable, PatchResource, CreateResource, MayCreate, server
  <2>2. ASSUME NEW k \in Jobs
        PROVE  \A l \in {Next1(k), Failed(k)} : l.set = k.set /\ l.snap = k.snap /\ l.pc = "apply"
    BY DEF Next1, Failed, Jobs
  <2>3. Applied(job).set = job.set /\ Applied(job).snap = job.snap /\ Applied(job).pc = "apply"
    BY <1>1 DEF Applied, Next1, Jobs
  <2>4. CASE GetUnreadable \/ PatchResource \/ CreateResource
    <3>1. job' \in {Next1(job), Failed(job), Applied(job)}
      BY <2>4 DEF GetUnreadable, PatchResource, CreateResource
    <3>2. job'.set = job.set /\ job'.snap = job.snap /\ job'.pc = "apply"
      BY <1>1, <2>2, <2>3, <3>1
    <3>3. QED  BY <2>1, <3>2, WorkSafeInv DEF Working
  <2>5. CASE GetExisting
    <3> DEFINE ref == Head(job.todo).ref
    <3> DEFINE kept == Keep(job, ref)
    <3>1. /\ ref \in job.snap.inventory
          /\ \/ job' = Failed(kept)
             \/ job' = [kept EXCEPT !.pc = "create"]
             \/ job' = [kept EXCEPT !.pc = "patch", !.got = cluster[ref.id]]
      BY <2>5 DEF GetExisting
    <3>2. job.entries \cup {ref} \in SUBSET Refs
      BY <1>1, <3>1 DEF Jobs, SetObjects
    <3>3. kept \in Jobs /\ kept.set = job.set /\ kept.snap = job.snap
      BY <1>1, <3>2 DEF Keep, Jobs
    <3>4. CASE job' = Failed(kept)
      <4>1. job'.set = job.set /\ job'.snap = job.snap /\ job'.pc = "apply"
        BY <2>2, <3>3, <3>4
      <4>2. QED  BY <2>1, <4>1, WorkSafeInv DEF Working
    <3>5. CASE \/ job' = [kept EXCEPT !.pc = "create"]
               \/ job' = [kept EXCEPT !.pc = "patch", !.got = cluster[ref.id]]
      <4>1. job'.set = job.set /\ job'.snap = job.snap /\ job'.pc \in {"create", "patch"}
        BY <3>3, <3>5 DEF Jobs
      <4>2. QED  BY <2>1, <4>1, WorkSafeInv DEF Working
    <3>6. QED  BY <3>1, <3>4, <3>5
  <2>6. QED  BY <1>9, <2>4, <2>5
<1>10. CASE PatchStatus
  <2>1. PICK reworded \in BOOLEAN :
          StoreStatus(job.set, NewStatus(job), reworded) \/ UNCHANGED server
    BY <1>10 DEF PatchStatus
  <2> DEFINE p == Patched(obj[job.set], cache[job.set], NewStatus(job), reworded)
  <2>2. p \in SetObjects
    BY <1>10, PatchedType DEF PatchStatus
  <2>3. p.exists = obj[job.set].exists /\ p.finalizer = obj[job.set].finalizer
    BY <1>1 DEF Patched, SetObjects
  <2>4. p.exists /\ p.finalizer
    BY <1>10, <2>3 DEF PatchStatus, SafeInv, GuardInv, WorkIsGuarded
  <2>5. \/ \E o \in SetObjects : Store(job.set, o) /\ o.exists /\ o.finalizer
        \/ UNCHANGED server
    BY <2>1, <2>2, <2>4 DEF StoreStatus
  <2>6. job' = Idle /\ UNCHANGED cache
    BY <1>2, <1>10 DEF PatchStatus, AfterStatus
  <2>7. QED  BY <1>4, <2>5, <2>6, IdleSafeInv DEF server
<1>11. CASE FinalizeUnreadable
  BY <1>2, <1>11, IdleSafeInv DEF FinalizeUnreadable, server
<1>12. QED
  BY <1>5, <1>6, <1>7, <1>8, <1>9, <1>10, <1>11 DEF Worker

\* SafeInv is inductive with TypeInv.
LEMMA NextSafeInv == TypeInv /\ SafeInv /\ [Next]_vars => SafeInv'
<1>1. ASSUME TypeInv, SafeInv, UNCHANGED vars PROVE SafeInv'
  BY <1>1, QuietSafeInv DEF vars
<1>2. QED
  BY <1>1, UsersSafeInv, ManagerSafeInv, WorkerSafeInv DEF Next

\* Whatever is recorded, or worked on from any copy of a set however old, the
\* set is there with its finalizer.
THEOREM WorkSafe == Spec => []WorkIsGuarded
<1>1. SafeInv => WorkIsGuarded
  BY DEF SafeInv, GuardInv
<1>2. QED
  BY <1>1, InitTypeInv, NextTypeInv, InitSafeInv, NextSafeInv, PTL DEF Spec

\* What a step may do to a set that goes away.
LeavesNothing(s) ==
  obj[s].exists /\ ~obj'[s].exists =>
    \A ref \in obj[s].inventory : cluster'[ref.id].owner # s

\* Only two steps remove a set: its deletion before it has a finalizer, when
\* nothing is recorded yet, and the removal of its finalizer by a worker that
\* has seen its newest version and deleted all that version records.
LEMMA RemovalLeavesNothing ==
  TypeInv /\ SafeInv /\ [Next]_vars => \A s \in Sets : LeavesNothing(s)
<1> SUFFICES ASSUME TypeInv, SafeInv, [Next]_vars, NEW s \in Sets
             PROVE  LeavesNothing(s)
  OBVIOUS
<1>1. /\ TypeOK /\ job \in Jobs /\ job.set \in Sets
      /\ \A t \in Sets : obj[t] \in SetObjects
  BY DEF TypeInv, TypeOK, Jobs
<1>2. ASSUME obj'[s].exists = obj[s].exists PROVE LeavesNothing(s)
  BY <1>2 DEF LeavesNothing
<1>3. ASSUME NEW t \in Sets, NEW o, Store(t, o), o \in SetObjects,
             obj[t].exists => o.exists
      PROVE  LeavesNothing(s)
  <2>1. obj'[t].exists = o.exists /\ \A u \in Sets \ {t} : obj'[u] = obj[u]
    BY <1>1, <1>3 DEF Store, TypeOK, SetObjects
  <2>2. QED  BY <1>3, <2>1 DEF LeavesNothing
<1>4. CASE UNCHANGED obj
  BY <1>2, <1>4
<1>5. ASSUME NEW t \in Sets, CreateSet(t) PROVE LeavesNothing(s)
  <2>1. ~obj[t].exists /\ \A u \in Sets \ {t} : obj'[u] = obj[u]
    BY <1>1, <1>5 DEF CreateSet, EditSet, Store, TypeOK
  <2>2. QED  BY <2>1 DEF LeavesNothing
<1>6. ASSUME NEW t \in Sets, EditSpec(t) \/ ToggleSuspend(t) \/ RequestReconcile(t)
      PROVE  LeavesNothing(s)
  <2>1. obj[t].gen + 1 \in Nat /\ obj[t].requested + 1 \in Nat
    BY <1>1 DEF SetObjects
  <2>2. ASSUME NEW spec \in Specs
        PROVE  \A o \in {[obj[t] EXCEPT !.spec = spec, !.gen = @ + 1],
                         [obj[t] EXCEPT !.suspend = ~@, !.gen = @ + 1],
                         [obj[t] EXCEPT !.requested = @ + 1]} :
                 o \in SetObjects /\ o.exists = obj[t].exists
    BY <1>1, <2>1, ZenonT(40) DEF SetObjects
  <2>3. \E o \in SetObjects : Store(t, o) /\ o.exists = obj[t].exists
    BY <1>6, <2>2, SpecsAssumption
    DEF EditSpec, ToggleSuspend, RequestReconcile, EditSet, Store
  <2>4. QED  BY <1>3, <2>3
<1>7. ASSUME NEW t \in Sets, DeleteSet(t) PROVE LeavesNothing(s)
  <2>1. \A u \in Sets \ {t} : obj'[u] = obj[u]
    BY <1>1, <1>7 DEF DeleteSet, EditSet, Store, TypeOK
  <2>2. CASE obj[t].finalizer
    <3> DEFINE marked == [obj[t] EXCEPT !.deleting = TRUE, !.gen = @ + 1]
    <3>1. obj[t].gen + 1 \in Nat
      BY <1>1 DEF SetObjects
    <3>2. marked \in SetObjects /\ marked.exists = obj[t].exists
      BY <1>1, <3>1 DEF SetObjects
    <3>3. \E o \in SetObjects : Store(t, o) /\ o.exists = obj[t].exists
      BY <1>7, <2>2, <3>2 DEF DeleteSet, EditSet, Store
    <3>4. QED  BY <1>3, <3>3
  <2>3. CASE ~obj[t].finalizer
    <3>1. obj[t].inventory = {}
      BY <2>3 DEF SafeInv, GuardInv, WorkIsGuarded
    <3>2. QED  BY <2>1, <3>1 DEF LeavesNothing
  <2>4. QED  BY <2>2, <2>3
<1>8. CASE RemoveFinalizer
  <2>1. CASE UNCHANGED server
    BY <1>4, <2>1 DEF server
  <2>2. CASE Current(job.snap, job.set) /\ Store(job.set, Removed(obj[job.set]))
    <3>1. job.pc = "finalize" /\ job.remove = {} /\ UNCHANGED cluster
      BY <1>8 DEF RemoveFinalizer
    <3>2. obj[job.set].inventory = job.snap.inventory
      BY <2>2, <3>1, RemovalIsKnown
    <3>3. \A ref \in job.snap.inventory : cluster[ref.id].owner # job.set
      BY <3>1 DEF SafeInv, FinalizeInv
    <3>4. \A u \in Sets \ {job.set} : obj'[u] = obj[u]
      BY <1>1, <2>2 DEF Store, TypeOK
    <3>5. QED  BY <3>1, <3>2, <3>3, <3>4 DEF LeavesNothing
  <2>3. QED  BY <1>8, <2>1, <2>2 DEF RemoveFinalizer
<1>9. CASE AddFinalizer
  <2> DEFINE new == [obj[job.set] EXCEPT !.finalizer = TRUE]
  <2>1. new \in SetObjects /\ new.exists = obj[job.set].exists
    BY <1>1 DEF SetObjects
  <2>2. CASE Store(job.set, new)
    BY <1>1, <1>3, <2>1, <2>2
  <2>3. QED  BY <1>4, <1>9, <2>2 DEF AddFinalizer, server
<1>10. CASE PatchStatus
  <2>1. PICK reworded \in BOOLEAN :
          StoreStatus(job.set, NewStatus(job), reworded) \/ UNCHANGED server
    BY <1>10 DEF PatchStatus
  <2> DEFINE p == Patched(obj[job.set], cache[job.set], NewStatus(job), reworded)
  <2>2. p \in SetObjects
    BY <1>10, PatchedType DEF PatchStatus
  <2>3. p.exists = obj[job.set].exists
    BY <1>1 DEF Patched, SetObjects
  <2>4. CASE Store(job.set, p)
    BY <1>1, <1>3, <2>2, <2>3, <2>4
  <2>5. QED  BY <1>4, <2>1, <2>4 DEF StoreStatus, server
<1>11. ASSUME NEW t \in Sets,
              \/ Deliver(t) \/ TimerFire(t) \/ Begin(t) \/ ClientFailure(t) \/ ChangeSource(t)
       PROVE  LeavesNothing(s)
  BY <1>4, <1>11 DEF Deliver, TimerFire, Begin, SkipReconcile, BeginAddFinalizer,
     BeginFinalize, BeginRender, Take, ClientFailure, ChangeSource, server
<1>12. ASSUME NEW id \in UserIds, UserCreateResource(id) \/ UserDeleteResource(id)
       PROVE  LeavesNothing(s)
  BY <1>4, <1>12 DEF UserCreateResource, UserDeleteResource, server
<1>13. CASE \/ FinalizeOne \/ Render \/ GetExisting \/ PatchResource \/ CreateResource
            \/ EndApply \/ PruneOne \/ EndPrune \/ Crash
            \/ FinalizeUnreadable \/ GetUnreadable \/ PruneUnreadable
  BY <1>4, <1>13 DEF FinalizeOne, Render, GetExisting, PatchResource, CreateResource,
     EndApply, PruneOne, EndPrune, Crash, FinalizeUnreadable, GetUnreadable,
     PruneUnreadable, server
<1>14. CASE UNCHANGED vars
  BY <1>4, <1>14 DEF vars
<1>15. QED
  BY <1>5, <1>6, <1>7, <1>8, <1>9, <1>10, <1>11, <1>12, <1>13, <1>14 DEF Next, Users, Worker

\* A set goes away only once nothing its last inventory names is left with it,
\* whatever deletes failed, however old the copies that were worked on.
THEOREM FinalizeSafe == Spec => FinalizeRemovesRecorded
<1>1. TypeInv /\ SafeInv /\ [Next]_vars =>
        [\A s \in Sets : obj[s].exists /\ ~obj'[s].exists =>
           \A ref \in obj[s].inventory : cluster'[ref.id].owner # s]_vars
  BY RemovalLeavesNothing DEF LeavesNothing
<1>2. QED
  BY <1>1, InitTypeInv, NextTypeInv, InitSafeInv, NextSafeInv, PTL
  DEF Spec, FinalizeRemovesRecorded
=============================================================================
