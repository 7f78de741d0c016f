-------------------------- MODULE OwnershipProofs --------------------------
(***************************************************************************)
(* Theorems about what a set owns, records and prunes, and what its status *)
(* says: the second part of the proofs about GitOpsSetReconciler.          *)
(***************************************************************************)
EXTENDS GitOpsSetReconcilerProofs

\* The types of the parts that the proofs below look at.
LEMMA Parts ==
  ASSUME TypeInv
  PROVE  /\ TypeOK /\ job \in Jobs /\ job.set \in Sets /\ job.snap \in SetObjects
         /\ job.entries \subseteq Refs /\ job.remove \subseteq Refs
         /\ job.todo \in Seq(Rendered) /\ job.resources \in Seq(Rendered)
         /\ \A s \in Sets : obj[s] \in SetObjects /\ cache[s] \in SetObjects
BY DEF TypeInv, TypeOK, Jobs

-----------------------------------------------------------------------------
(* What was rendered is among the entries, or failed to be read. *)

\* What AppliedInv says of one resource that was rendered.
Recorded(j, ref) == ref \in j.snap.inventory /\ Readable(ref) => ref \in j.entries

LEMMA AppliedParts ==
  AppliedInv <=>
    /\ job.pc \in {"apply", "patch", "create"} =>
         \A n \in DOMAIN job.resources :
           \/ Recorded(job, job.resources[n].ref)
           \/ \E k \in DOMAIN job.todo : job.todo[k] = job.resources[n]
    /\ job.pc \in {"patch", "create"} => Recorded(job, Head(job.todo).ref)
    /\ job.pc = "prune" =>
         /\ job.remove \subseteq job.snap.inventory \ job.entries
         /\ \A n \in DOMAIN job.resources : Recorded(job, job.resources[n].ref)
BY DEF AppliedInv, Recorded

\* A state whose job is not applying or pruning.
LEMMA OutsideApplied ==
  ASSUME job'.pc \notin {"apply", "patch", "create", "prune"}
  PROVE  AppliedInv'
BY DEF AppliedInv

\* The next resource has been dealt with.
LEMMA NextApplied ==
  ASSUME TypeInv, AppliedInv, job.pc \in {"apply", "patch", "create"}, job.todo # <<>>,
         job'.pc = "apply", job'.resources = job.resources, job'.snap = job.snap,
         job'.todo = Tail(job.todo), job.entries \subseteq job'.entries,
         Recorded(job', Head(job.todo).ref)
  PROVE  AppliedInv'
<1>1. ASSUME NEW n \in DOMAIN job'.resources
      PROVE  \/ Recorded(job', job'.resources[n].ref)
             \/ \E k \in DOMAIN job'.todo : job'.todo[k] = job'.resources[n]
  <2>1. \/ Recorded(job, job.resources[n].ref)
        \/ \E k \in DOMAIN job.todo : job.todo[k] = job.resources[n]
    BY AppliedParts
  <2>2. CASE Recorded(job, job.resources[n].ref)
    BY <2>2 DEF Recorded
  <2>3. ASSUME NEW k \in DOMAIN job.todo, job.todo[k] = job.resources[n]
        PROVE  \/ Recorded(job', job'.resources[n].ref)
               \/ \E i \in DOMAIN job'.todo : job'.todo[i] = job'.resources[n]
    <3>1. job.todo \in Seq(Rendered)
      BY Parts
    <3>2. CASE k = 1
      BY <2>3, <3>1, <3>2
    <3>3. CASE k # 1
      <4>1. k - 1 \in DOMAIN Tail(job.todo) /\ Tail(job.todo)[k - 1] = job.todo[k]
        BY <3>1, <3>3
      <4>2. QED  BY <2>3, <4>1
    <3>4. QED  BY <3>2, <3>3
  <2>4. QED  BY <2>1, <2>2, <2>3
<1>2. QED  BY <1>1 DEF AppliedInv, Recorded

\* What a resource leaves in the job, whatever came of it.
LEMMA AfterOne ==
  ASSUME NEW j \in Jobs, j.todo # <<>>
  PROVE  /\ \A k \in {Next1(j), Failed(j), Applied(j)} :
              /\ k.pc = "apply" /\ k.set = j.set /\ k.resources = j.resources /\ k.snap = j.snap
              /\ k.todo = Tail(j.todo) /\ j.entries \subseteq k.entries
              /\ k.outcome = j.outcome
         /\ Next1(j).entries = j.entries /\ Failed(j).entries = j.entries
         /\ Applied(j).entries = j.entries \cup {Head(j.todo).ref}
         /\ Failed(j).failed /\ Next1(j).failed = j.failed /\ Applied(j).failed = j.failed
BY DEF Next1, Failed, Applied, Jobs

\* What reading a recorded resource may do to the job.
LEMMA AfterGet ==
  ASSUME TypeInv, GetExisting
  PROVE  /\ job.pc = "apply" /\ job.todo # <<>>
         /\ Head(job.todo).ref \in job.snap.inventory
         /\ job'.set = job.set /\ job'.resources = job.resources /\ job'.snap = job.snap
         /\ job'.entries = job.entries \cup {Head(job.todo).ref}
         /\ job'.outcome = job.outcome
         /\ \/ job'.pc = "apply" /\ job'.todo = Tail(job.todo) /\ job'.failed
            \/ job'.pc \in {"create", "patch"} /\ job'.todo = job.todo /\ job'.failed = job.failed
<1> DEFINE ref == Head(job.todo).ref
<1> DEFINE kept == Keep(job, ref)
<1>1. /\ ref \in job.snap.inventory /\ job.pc = "apply" /\ job.todo # <<>>
      /\ \/ job' = Failed(kept)
         \/ job' = [kept EXCEPT !.pc = "create"]
         \/ job' = [kept EXCEPT !.pc = "patch", !.got = cluster[ref.id]]
  BY DEF GetExisting
<1>2. job.entries \cup {ref} \in SUBSET Refs
  BY <1>1, Parts DEF SetObjects
<1>3. /\ kept \in Jobs /\ kept.set = job.set /\ kept.snap = job.snap /\ kept.todo = job.todo
      /\ kept.resources = job.resources /\ kept.entries = job.entries \cup {ref}
      /\ kept.outcome = job.outcome /\ kept.failed = job.failed
  BY <1>2, Parts DEF Keep, Jobs
<1> HIDE DEF kept
<1>4. CASE job' = Failed(kept)
  <2>1. kept.todo # <<>>
    BY <1>1, <1>3
  <2>2. QED  BY <1>1, <1>3, <1>4, <2>1, AfterOne
<1>5. CASE \/ job' = [kept EXCEPT !.pc = "create"]
           \/ job' = [kept EXCEPT !.pc = "patch", !.got = cluster[ref.id]]
  BY <1>1, <1>3, <1>5 DEF Jobs
<1>6. QED  BY <1>1, <1>4, <1>5

\* What a recorded resource whose reference cannot be read leaves in the job.
LEMMA AfterUnreadable ==
  ASSUME TypeInv, GetUnreadable
  PROVE  /\ job.pc = "apply" /\ job.todo # <<>> /\ ~Readable(Head(job.todo).ref)
         /\ job'.pc = "apply" /\ job'.set = job.set /\ job'.resources = job.resources
         /\ job'.snap = job.snap /\ job'.todo = Tail(job.todo)
         /\ job'.entries = job.entries /\ job'.outcome = job.outcome /\ job'.failed
<1>1. job' = Failed(job) /\ job.todo # <<>>
  BY DEF GetUnreadable
<1>2. QED  BY <1>1, Parts, AfterOne DEF GetUnreadable

\* What a reference to prune that cannot be read leaves in the job.
LEMMA AfterPruneUnreadable ==
  ASSUME TypeInv, PruneUnreadable
  PROVE  /\ job.pc = "prune" /\ job'.pc = "prune" /\ job'.set = job.set
         /\ job'.resources = job.resources /\ job'.todo = job.todo
         /\ job'.snap = job.snap /\ job'.entries = job.entries /\ job'.remove = {}
         /\ job'.outcome = job.outcome /\ job'.failed
BY Parts DEF PruneUnreadable, Jobs

\* The steps at a reference that cannot be read write nothing.
Unread == FinalizeUnreadable \/ GetUnreadable \/ PruneUnreadable

LEMMA UnreadWrites ==
  ASSUME Unread
  PROVE  UNCHANGED <<obj, watch, cache, data, cluster, timer>>
BY DEF Unread, FinalizeUnreadable, GetUnreadable, PruneUnreadable, server

\* Under Fresh there are none.
LEMMA FreshReads == TypeInv /\ Fresh => ~Unread
BY Parts
DEF Fresh, Unread, FinalizeUnreadable, GetUnreadable, PruneUnreadable, Readable

\* What writing a resource may do to the job.
LEMMA AfterWrite ==
  ASSUME TypeInv, PatchResource \/ CreateResource
  PROVE  /\ job.todo # <<>> /\ job.pc \in {"apply", "patch", "create"}
         /\ job' \in {Next1(job), Failed(job), Applied(job)}
<1>1. CASE PatchResource
  BY <1>1 DEF PatchResource, TypeInv
<1>2. CASE CreateResource
  BY <1>2 DEF CreateResource, MayCreate
<1>3. QED  BY <1>1, <1>2

\* Every step keeps AppliedInv.
LEMMA NextAppliedInv == TypeInv /\ AppliedInv /\ [Next]_vars => AppliedInv'
<1> SUFFICES ASSUME TypeInv, AppliedInv, [Next]_vars PROVE AppliedInv'
  OBVIOUS
<1>1. CASE job' = job
  BY <1>1 DEF AppliedInv
<1>2. ASSUME job' = Idle PROVE AppliedInv'
  BY <1>2, OutsideApplied DEF Idle
<1>3. ASSUME NEW s \in Sets, Begin(s) PROVE AppliedInv'
  <2>1. job' = job \/ job'.pc \in {"addFinalizer", "finalize", "render"}
    BY <1>3 DEF Begin, SkipReconcile, BeginAddFinalizer, BeginFinalize, BeginRender, Idle
  <2>2. QED  BY <1>1, <2>1, OutsideApplied
<1>4. CASE AddFinalizer \/ RemoveFinalizer \/ Crash
  BY <1>2, <1>4 DEF AddFinalizer, RemoveFinalizer, Crash, Retry, Finish
<1>5. CASE FinalizeOne \/ FinalizeUnreadable
  <2>1. job' = Idle \/ job'.pc = "finalize"
    BY <1>5, Parts DEF FinalizeOne, FinalizeUnreadable, Retry, Jobs
  <2>2. QED  BY <1>2, <2>1, OutsideApplied
<1>6. CASE Render
  <2>1. \/ job'.pc = "status"
        \/ job'.pc = "apply" /\ job'.todo = job'.resources
    BY <1>6, Parts DEF Render, Jobs
  <2>2. QED  BY <2>1, OutsideApplied DEF AppliedInv
<1>7. CASE GetExisting
  <2> DEFINE ref == Head(job.todo).ref
  <2>1. CASE job'.pc = "apply"
    <3>1. Recorded(job', ref)
      BY <1>7, AfterGet DEF Recorded
    <3>2. QED  BY <1>7, <2>1, <3>1, AfterGet, NextApplied
  <2>2. CASE job'.pc \in {"create", "patch"}
    <3>1. /\ job'.todo = job.todo /\ job'.resources = job.resources /\ job'.snap = job.snap
          /\ job'.entries = job.entries \cup {ref} /\ job.pc = "apply"
      BY <1>7, <2>2, AfterGet
    <3>2. QED  BY <2>2, <3>1 DEF AppliedInv
  <2>3. QED  BY <1>7, <2>1, <2>2, AfterGet
<1>8. CASE PatchResource \/ CreateResource
  <2> DEFINE ref == Head(job.todo).ref
  <2>1. /\ job.todo # <<>> /\ job.pc \in {"apply", "patch", "create"}
        /\ job' \in {Next1(job), Failed(job), Applied(job)}
    BY <1>8, AfterWrite
  <2>2. /\ job'.pc = "apply" /\ job'.resources = job.resources /\ job'.snap = job.snap
        /\ job'.todo = Tail(job.todo) /\ job.entries \subseteq job'.entries
    BY <2>1, AfterOne, Parts
  <2>3. Recorded(job, ref)
    BY <1>8, AppliedParts DEF Recorded, PatchResource, CreateResource, MayCreate
  <2>4. Recorded(job', ref)
    BY <2>2, <2>3 DEF Recorded
  <2>5. QED  BY <2>1, <2>2, <2>4, NextApplied
<1>9. CASE EndApply
  <2>1. /\ job.pc = "apply" /\ job.todo = <<>> /\ job'.pc = "prune" /\ job'.snap = job.snap
        /\ job'.remove = job.snap.inventory \ job.entries
        /\ job'.resources = job.resources /\ job'.entries = job.entries
    BY <1>9, Parts DEF EndApply, Jobs
  <2>2. \A n \in DOMAIN job.resources : Recorded(job, job.resources[n].ref)
    BY <2>1, AppliedParts
  <2>3. QED  BY <2>1, <2>2 DEF AppliedInv, Recorded
<1>10. CASE PruneOne \/ PruneUnreadable
  <2>1. /\ job.pc = "prune" /\ job'.pc = "prune" /\ job'.snap = job.snap
        /\ job'.remove \subseteq job.remove
        /\ job'.resources = job.resources /\ job'.entries = job.entries
    BY <1>10, Parts, AfterPruneUnreadable DEF PruneOne, Jobs
  <2>2. QED  BY <2>1 DEF AppliedInv
<1>11. CASE EndPrune
  BY <1>11, Parts, OutsideApplied DEF EndPrune, Jobs
<1>12. CASE PatchStatus
  BY <1>2, <1>12 DEF PatchStatus, AfterStatus, Retry, Finish
<1>13. CASE \/ Users \/ UNCHANGED vars
            \/ \E s \in Sets : Deliver(s) \/ TimerFire(s) \/ ClientFailure(s)
  BY <1>1, <1>13 DEF Users, CreateSet, EditSpec, ToggleSuspend, RequestReconcile, DeleteSet,
     ChangeSource, EditSet, UserStep, UserCreateResource, UserDeleteResource,
     Deliver, TimerFire, ClientFailure, vars
<1>14. CASE GetUnreadable
  <2>1. Recorded(job', Head(job.todo).ref)
    BY <1>14, AfterUnreadable DEF Recorded
  <2>2. QED  BY <1>14, <2>1, AfterUnreadable, NextApplied
<1>15. QED
  BY <1>3, <1>4, <1>5, <1>6, <1>7, <1>8, <1>9, <1>10, <1>11, <1>12, <1>13, <1>14
  DEF Next, Worker

-----------------------------------------------------------------------------
(* The status goes forward, and never runs ahead of the set. *)

\* The numbers of a set that its status is about.
LEMMA NumbersAreNat ==
  \A o \in SetObjects : /\ o.gen \in Nat /\ o.requested \in Nat
                        /\ o.observed \in Nat /\ o.handled \in Nat
BY DEF SetObjects

\* What is known of a set, and what may be added to it, is a set.
LEMMA KnownAreSets ==
  ASSUME TypeInv, NEW s \in Sets
  PROVE  \A o \in Known(s) : o \in SetObjects
BY DEF TypeInv, TypeOK, Known

\* What a write does to the numbers, and to what is on its way.
LEMMA StoreNumbers ==
  ASSUME TypeInv, NEW s \in Sets, NEW o \in SetObjects, Store(s, o)
  PROVE  \E new \in SetObjects :
           /\ new.rv = obj[s].rv + 1 /\ obj'[s] = new /\ watch'[s] = watch[s] \cup {new}
           /\ new.gen = o.gen /\ new.requested = o.requested
           /\ new.observed = o.observed /\ new.handled = o.handled
           /\ new.spec = o.spec /\ new.cond = o.cond /\ new.inventory = o.inventory
           /\ new.exists = o.exists
           /\ \A t \in Sets \ {s} : obj'[t] = obj[t] /\ watch'[t] = watch[t]
<1> DEFINE new == [o EXCEPT !.rv = obj[s].rv + 1]
<1>1. TypeOK /\ obj[s].rv + 1 \in Nat
  <2>1. TypeOK /\ obj[s] \in SetObjects
    BY DEF TypeInv, TypeOK
  <2>2. obj[s].rv \in Nat
    BY <2>1, Zenon DEF SetObjects
  <2> QED BY <2>1, <2>2
<1>2. /\ new \in SetObjects /\ new.rv = obj[s].rv + 1
      /\ new.gen = o.gen /\ new.requested = o.requested
      /\ new.observed = o.observed /\ new.handled = o.handled
      /\ new.spec = o.spec /\ new.cond = o.cond /\ new.inventory = o.inventory
      /\ new.exists = o.exists
  BY <1>1, ZenonT(40) DEF SetObjects
<1>3. obj' = [obj EXCEPT ![s] = new] /\ watch' = [watch EXCEPT ![s] = @ \cup {new}]
  BY DEF Store
<1> HIDE DEF new
<1>4. /\ obj'[s] = new /\ watch'[s] = watch[s] \cup {new}
      /\ \A t \in Sets \ {s} : obj'[t] = obj[t] /\ watch'[t] = watch[t]
  BY <1>1, <1>3 DEF TypeOK
<1>5. QED  BY <1>2, <1>4, Zenon

\* A write keeps StatusInv when what is written answers to itself, and every copy
\* that work can start from, or has started from, comes before it.
LEMMA StoreStatusInv ==
  ASSUME TypeInv, SafeInv, StatusInv, NEW s \in Sets, NEW o \in SetObjects, Store(s, o),
         UNCHANGED cache, job' = job \/ job' = Idle,
         Answered(o, o), ~o.exists => o.observed = 0 /\ o.handled = 0,
         \A w \in Known(s) : Live(w) => Precedes(w, o) /\ Answered(o, w),
         job' = job /\ Working /\ job.set = s => Precedes(job.snap, o) /\ Answered(o, job.snap)
  PROVE  StatusInv'
<1>1. PICK new \in SetObjects :
        /\ new.rv = obj[s].rv + 1 /\ obj'[s] = new /\ watch'[s] = watch[s] \cup {new}
        /\ new.gen = o.gen /\ new.requested = o.requested
        /\ new.observed = o.observed /\ new.handled = o.handled /\ new.exists = o.exists
        /\ \A t \in Sets \ {s} : obj'[t] = obj[t] /\ watch'[t] = watch[t]
  BY StoreNumbers
<1>2. /\ Answered(new, new) /\ Precedes(new, new)
      /\ \A w \in Known(s) : Live(w) => Precedes(w, new) /\ Answered(new, w)
  BY <1>1, NumbersAreNat DEF Answered, Precedes
<1>3. \A w \in Known(s) : w.rv < new.rv /\ w.rv \in Nat
  <2>1. obj[s].rv \in Nat /\ \A w \in Known(s) : w.rv <= obj[s].rv /\ w.rv \in Nat
    BY VersionsAreNat DEF SafeInv, VersionInv, Known
  <2>2. QED  BY <1>1, <2>1
<1>4. Known(s)' = Known(s) \cup {new} /\ \A t \in Sets \ {s} : Known(t)' = Known(t)
  BY <1>1 DEF Known
<1>5. ASSUME NEW t \in Sets
      PROVE  /\ Answered(obj'[t], obj'[t])
             /\ ~obj'[t].exists => obj'[t].observed = 0 /\ obj'[t].handled = 0
             /\ \A w \in Known(t)' :
                  /\ Answered(w, w)
                  /\ Live(w) => /\ Precedes(w, obj'[t]) /\ Answered(obj'[t], w)
                                /\ \A p \in Known(t)' : Live(p) /\ w.rv <= p.rv => Precedes(w, p)
  <2>1. CASE t = s
    <3>1. ASSUME NEW w \in Known(s) \cup {new}
          PROVE  /\ Answered(w, w)
                 /\ Live(w) => /\ Precedes(w, new) /\ Answered(new, w)
                               /\ \A p \in Known(s) \cup {new} :
                                    Live(p) /\ w.rv <= p.rv => Precedes(w, p)
      <4>1. CASE w = new
        <5>1. ASSUME NEW p \in Known(s), w.rv <= p.rv PROVE FALSE
          BY <1>1, <1>3, <4>1, <5>1 DEF SetObjects
        <5>2. QED  BY <1>2, <4>1, <5>1
      <4>2. CASE w \in Known(s)
        BY <1>2, <4>2 DEF StatusInv
      <4>3. QED  BY <4>1, <4>2
    <3>2. QED  BY <1>1, <1>2, <1>4, <2>1, <3>1
  <2>2. CASE t # s
    BY <1>1, <1>4, <2>2 DEF StatusInv
  <2>3. QED  BY <2>1, <2>2
<1>6. ASSUME Working'
      PROVE  /\ job'.snap.handled = job'.snap.requested
             /\ Precedes(job'.snap, obj'[job'.set]) /\ Answered(obj'[job'.set], job'.snap)
             /\ \A w \in {cache'[job'.set]} \cup watch'[job'.set] :
                  Live(w) => Precedes(job'.snap, w)
  <2>1. job' = job /\ Working /\ job.set \in Sets
    BY <1>6, Parts DEF Working, Idle
  <2>2. CASE job.set = s
    <3>1. Precedes(job.snap, new) /\ Answered(new, job.snap)
      BY <1>1, <2>1, <2>2 DEF Precedes, Answered
    <3>2. QED  BY <1>1, <2>1, <2>2, <3>1 DEF StatusInv, Known
  <2>3. CASE job.set # s
    BY <1>1, <2>1, <2>3 DEF StatusInv, Known
  <2>4. QED  BY <2>2, <2>3
<1>7. QED
  BY <1>5, <1>6 DEF StatusInv, Known, Answered, Precedes, Live, Working

\* A step that writes no set, and starts no work.
LEMMA QuietStatusInv ==
  ASSUME StatusInv, UNCHANGED <<obj, watch, cache>>,
         ~Working' \/ (Working /\ job'.set = job.set /\ job'.snap = job.snap)
  PROVE  StatusInv'
BY DEF StatusInv, Known, Answered, Precedes, Live, Working

\* An edit of a set there is leaves its status alone, and asks for no less.
LEMMA EditStatusInv ==
  ASSUME TypeInv, SafeInv, StatusInv, NEW s \in Sets, NEW o \in SetObjects, Store(s, o),
         UNCHANGED cache, job' = job \/ job' = Idle,
         o.observed = obj[s].observed, o.handled = obj[s].handled, o.exists = obj[s].exists,
         Precedes(obj[s], o)
  PROVE  StatusInv'
<1>1. obj[s] \in SetObjects /\ job.snap \in SetObjects
  BY Parts
<1>2. Answered(o, o) /\ (~o.exists => o.observed = 0 /\ o.handled = 0)
  BY <1>1, NumbersAreNat DEF StatusInv, Answered, Precedes
<1>3. \A w \in Known(s) : Live(w) => Precedes(w, o) /\ Answered(o, w)
  <2>1. \A w \in Known(s) : w \in SetObjects
    BY KnownAreSets
  <2>2. \A w \in Known(s) : Live(w) => Precedes(w, obj[s]) /\ Answered(obj[s], w)
    BY DEF StatusInv
  <2>3. QED  BY <1>1, <2>1, <2>2, NumbersAreNat DEF Answered, Precedes
<1>4. Working /\ job.set = s => Precedes(job.snap, o) /\ Answered(o, job.snap)
  BY <1>1, NumbersAreNat DEF StatusInv, Answered, Precedes
<1>5. QED  BY <1>2, <1>3, <1>4, StoreStatusInv

\* A set that is made, or goes away, has no copy that work can start from.
LEMMA FreshStatusInv ==
  ASSUME TypeInv, SafeInv, StatusInv, NEW s \in Sets, NEW o \in SetObjects, Store(s, o),
         UNCHANGED cache, job' = job \/ job' = Idle,
         o.observed = 0, o.handled = 0,
         \A w \in Known(s) : ~Live(w), job' = job /\ Working => job.set # s
  PROVE  StatusInv'
<1>1. Answered(o, o)
  BY NumbersAreNat DEF Answered
<1>2. QED  BY <1>1, StoreStatusInv

\* A set without its finalizer has no copy that work can start from.
LEMMA UnguardedIsUnknown ==
  ASSUME TypeInv, SafeInv, NEW s \in Sets, ~(obj[s].exists /\ obj[s].finalizer)
  PROVE  (\A w \in Known(s) : ~Live(w)) /\ (Working => job.set # s)
BY SMTT(40) DEF SafeInv, GuardInv, WorkIsGuarded, Working

\* The values a user may give a set that is there.
Edited(s, spec) ==
  {[obj[s] EXCEPT !.spec = spec, !.gen = @ + 1],
   [obj[s] EXCEPT !.suspend = ~@, !.gen = @ + 1],
   [obj[s] EXCEPT !.requested = @ + 1],
   [obj[s] EXCEPT !.deleting = TRUE, !.gen = @ + 1]}

\* They are sets, and leave the status alone.
LEMMA EditedValues ==
  ASSUME TypeInv, NEW s \in Sets, NEW spec \in Specs
  PROVE  \A o \in Edited(s, spec) :
           /\ o \in SetObjects /\ o.observed = obj[s].observed /\ o.handled = obj[s].handled
           /\ Precedes(obj[s], o) /\ o.inventory = obj[s].inventory
           /\ o.cond = obj[s].cond /\ o.exists = obj[s].exists
           /\ o.gen # obj[s].gen + 1 => o.spec = obj[s].spec /\ o.gen = obj[s].gen
<1>1. /\ obj[s] \in SetObjects /\ obj[s].gen \in Nat /\ obj[s].requested \in Nat
      /\ obj[s].gen + 1 \in Nat /\ obj[s].requested + 1 \in Nat
      /\ obj[s].gen <= obj[s].gen + 1 /\ obj[s].requested <= obj[s].requested + 1
      /\ obj[s].gen <= obj[s].gen /\ obj[s].requested <= obj[s].requested
  BY Parts, NumbersAreNat
<1>2. QED  BY <1>1, ZenonT(40) DEF SetObjects, Precedes, Edited

\* What an edit of a set there is does: a user's step other than making a set, or
\* deleting one that has no finalizer.
Edit(s) ==
  \/ EditSpec(s) \/ ToggleSuspend(s) \/ RequestReconcile(s)
  \/ DeleteSet(s) /\ obj[s].finalizer

LEMMA EditEffect ==
  ASSUME TypeInv, NEW s \in Sets, Edit(s)
  PROVE  /\ UNCHANGED <<cache, cluster, job>>
         /\ \E o \in SetObjects :
              /\ Store(s, o)
              /\ o.observed = obj[s].observed /\ o.handled = obj[s].handled
              /\ Precedes(obj[s], o) /\ o.inventory = obj[s].inventory
              /\ o.cond = obj[s].cond /\ o.exists = obj[s].exists
              /\ o.gen # obj[s].gen + 1 => o.spec = obj[s].spec /\ o.gen = obj[s].gen
<1>1. PICK spec \in Specs : \E o \in Edited(s, spec) : EditSet(s, o)
  BY SpecsAssumption
  DEF Edit, EditSpec, ToggleSuspend, RequestReconcile, DeleteSet, Edited
<1>2. PICK o \in Edited(s, spec) : EditSet(s, o)
  BY <1>1
<1>3. Store(s, o) /\ UNCHANGED <<cache, cluster, job>>
  BY <1>2 DEF EditSet, UserStep
<1>4. /\ o \in SetObjects /\ o.observed = obj[s].observed /\ o.handled = obj[s].handled
      /\ Precedes(obj[s], o) /\ o.inventory = obj[s].inventory
      /\ o.cond = obj[s].cond /\ o.exists = obj[s].exists
      /\ o.gen # obj[s].gen + 1 => o.spec = obj[s].spec /\ o.gen = obj[s].gen
  BY EditedValues
<1>5. QED  BY <1>3, <1>4

\* What making a set does.
LEMMA CreateEffect ==
  ASSUME TypeInv, NEW s \in Sets, CreateSet(s)
  PROVE  /\ UNCHANGED <<cache, cluster, job>> /\ ~obj[s].exists
         /\ \E o \in SetObjects : /\ Store(s, o) /\ o.observed = 0 /\ o.handled = 0
                                  /\ o.inventory = {} /\ o.cond = Unset
<1>1. PICK spec \in Specs, suspend \in BOOLEAN :
        EditSet(s, [NoSet EXCEPT !.exists = TRUE, !.spec = spec,
                                 !.suspend = suspend, !.gen = obj[s].gen + 1])
  BY DEF CreateSet
<1> DEFINE new == [NoSet EXCEPT !.exists = TRUE, !.spec = spec,
                                !.suspend = suspend, !.gen = obj[s].gen + 1]
<1>2. obj[s].gen + 1 \in Nat
  BY Parts, NumbersAreNat
<1>3. /\ NoSet \in SetObjects /\ NoSet.observed = 0 /\ NoSet.handled = 0
      /\ NoSet.inventory = {} /\ NoSet.cond = Unset
  BY InitialValues DEF NoSet
<1>4. /\ new \in SetObjects /\ new.observed = 0 /\ new.handled = 0
      /\ new.inventory = {} /\ new.cond = Unset
  BY <1>2, <1>3 DEF SetObjects
<1>5. Store(s, new) /\ UNCHANGED <<cache, cluster, job>> /\ ~obj[s].exists
  BY <1>1 DEF CreateSet, EditSet, UserStep
<1>6. QED  BY <1>4, <1>5

\* What a set that has gone looks like.
LEMMA RemovedValues ==
  ASSUME TypeInv, NEW s \in Sets
  PROVE  LET o == Removed(obj[s]) IN
         /\ o \in SetObjects /\ o.observed = 0 /\ o.handled = 0 /\ ~o.exists
         /\ o.inventory = {} /\ o.cond = Unset
<1>1. /\ NoSet \in SetObjects /\ NoSet.observed = 0 /\ NoSet.handled = 0 /\ ~NoSet.exists
      /\ NoSet.inventory = {} /\ NoSet.cond = Unset
  BY InitialValues DEF NoSet
<1>2. obj[s].gen \in Nat
  BY Parts, NumbersAreNat
<1>3. QED  BY <1>1, <1>2 DEF Removed, SetObjects

\* What the deletion of a set without a finalizer does.
LEMMA DropEffect ==
  ASSUME TypeInv, NEW s \in Sets, DeleteSet(s), ~obj[s].finalizer
  PROVE  UNCHANGED <<cache, cluster, job>> /\ Store(s, Removed(obj[s]))
BY DEF DeleteSet, EditSet, UserStep

\* Users keep StatusInv.
LEMMA UsersStatusInv == TypeInv /\ SafeInv /\ StatusInv /\ Users => StatusInv'
<1> SUFFICES ASSUME TypeInv, SafeInv, StatusInv, Users PROVE StatusInv'
  OBVIOUS
<1>1. ASSUME NEW s \in Sets, Edit(s) PROVE StatusInv'
  BY <1>1, EditEffect, EditStatusInv
<1>2. ASSUME NEW s \in Sets, CreateSet(s) PROVE StatusInv'
  <2>1. ~obj[s].exists /\ UNCHANGED <<cache, job>>
    BY <1>2, CreateEffect
  <2>2. PICK o \in SetObjects : Store(s, o) /\ o.observed = 0 /\ o.handled = 0
    BY <1>2, CreateEffect
  <2>3. (\A w \in Known(s) : ~Live(w)) /\ (Working => job.set # s)
    BY <2>1, UnguardedIsUnknown
  <2>4. QED  BY <2>1, <2>2, <2>3, FreshStatusInv
<1>3. ASSUME NEW s \in Sets, DeleteSet(s), ~obj[s].finalizer PROVE StatusInv'
  <2>1. (\A w \in Known(s) : ~Live(w)) /\ (Working => job.set # s)
    BY <1>3, UnguardedIsUnknown
  <2>2. /\ Removed(obj[s]) \in SetObjects /\ Removed(obj[s]).observed = 0
        /\ Removed(obj[s]).handled = 0
    BY RemovedValues
  <2>3. UNCHANGED <<cache, job>> /\ Store(s, Removed(obj[s]))
    BY <1>3, DropEffect
  <2> HIDE DEF Removed
  <2>4. QED  BY <2>1, <2>2, <2>3, FreshStatusInv
<1>4. ASSUME UNCHANGED <<obj, watch, cache, job>> PROVE StatusInv'
  BY <1>4, QuietStatusInv DEF Working
<1>5. QED
  BY <1>1, <1>2, <1>3, <1>4
  DEF Users, Edit, ChangeSource, UserCreateResource, UserDeleteResource, UserStep, server

\* The informer, the start of a reconciliation and a restart keep StatusInv.
LEMMA ManagerStatusInv ==
  ASSUME TypeInv, SafeInv, StatusInv,
         Crash \/ \E s \in Sets : Deliver(s) \/ TimerFire(s) \/ ClientFailure(s) \/ Begin(s)
  PROVE  StatusInv'
<1>1. ASSUME NEW s \in Sets, Deliver(s) PROVE StatusInv'
  <2>1. PICK o \in watch[s] :
          /\ cache' = [cache EXCEPT ![s] = o]
          /\ watch' = [watch EXCEPT ![s] = {w \in @ : w.rv > o.rv}]
    BY <1>1 DEF Deliver
  <2>2. UNCHANGED <<obj, job>>
    BY <1>1 DEF Deliver
  <2>3. \A t \in Sets : {cache'[t]} \cup watch'[t] \subseteq Known(t)
    BY <2>1, Parts DEF TypeOK, Known
  <2>4. Working => job.set \in Sets
    BY Parts
  <2>5. QED  BY <2>2, <2>3, <2>4 DEF StatusInv, Known, Answered, Precedes, Live, Working
<1>2. ASSUME NEW s \in Sets, TimerFire(s) \/ ClientFailure(s) \/ SkipReconcile(s)
      PROVE  StatusInv'
  <2>1. UNCHANGED <<obj, watch, cache, job>>
    BY <1>2 DEF TimerFire, ClientFailure, SkipReconcile, Take, server
  <2>2. QED  BY <2>1, QuietStatusInv DEF Working
<1>3. ASSUME NEW s \in Sets, BeginAddFinalizer(s) \/ BeginFinalize(s) PROVE StatusInv'
  <2>1. UNCHANGED <<obj, watch, cache>> /\ job'.pc \in {"addFinalizer", "finalize"}
    BY <1>3 DEF BeginAddFinalizer, BeginFinalize, Take, Idle, server
  <2>2. QED  BY <2>1, QuietStatusInv DEF Working
<1>4. ASSUME NEW s \in Sets, BeginRender(s) PROVE StatusInv'
  <2>1. /\ UNCHANGED <<obj, watch, cache>> /\ Live(cache[s])
        /\ job'.set = s /\ job'.snap = Acknowledged(cache[s])
    BY <1>4 DEF BeginRender, Take, Idle, server, Works, Live
  <2>2. cache[s] \in SetObjects /\ cache[s] \in Known(s)
    BY Parts DEF Known
  <2>3. Answered(cache[s], cache[s])
    BY <2>2 DEF StatusInv
  <2>4. /\ job'.snap.gen = cache[s].gen /\ job'.snap.requested = cache[s].requested
        /\ job'.snap.handled = cache[s].requested
    BY <2>1, <2>2, <2>3 DEF Acknowledged, SetObjects, Answered
  <2>5. /\ Precedes(cache[s], obj[s]) /\ Answered(obj[s], cache[s])
        /\ \A p \in Known(s) : Live(p) /\ cache[s].rv <= p.rv => Precedes(cache[s], p)
    BY <2>1, <2>2 DEF StatusInv
  <2>6. \A p \in Known(s) : cache[s].rv <= p.rv
    BY VersionsAreNat DEF SafeInv, VersionInv, Known
  <2>7. /\ Precedes(job'.snap, obj[s]) /\ Answered(obj[s], job'.snap)
        /\ \A p \in Known(s) : Live(p) => Precedes(job'.snap, p)
    BY <2>4, <2>5, <2>6 DEF Precedes, Answered
  <2>8. QED
    BY <2>1, <2>4, <2>7 DEF StatusInv, Known, Answered, Precedes, Live
<1>5. CASE Crash
  <2>1. /\ cache' = obj /\ \A s \in Sets : watch'[s] = {}
        /\ job'.pc = "idle" /\ UNCHANGED obj
    BY <1>5 DEF Crash, Idle
  <2>2. \A s \in Sets : Precedes(obj[s], obj[s])
    BY Parts, NumbersAreNat DEF Precedes
  <2>3. QED
    BY <2>1, <2>2 DEF StatusInv, Known, Answered, Precedes, Live, Working
<1>6. QED
  BY <1>1, <1>2, <1>3, <1>4, <1>5 DEF Begin

\* What the status patch writes, if anything.
LEMMA StatusEffect ==
  ASSUME TypeInv, PatchStatus
  PROVE  /\ UNCHANGED <<cache, cluster>> /\ job' = Idle /\ job.pc = "status"
         /\ \/ UNCHANGED <<obj, watch>>
            \/ \E o \in SetObjects :
                 /\ Store(job.set, o)
                 /\ o.gen = obj[job.set].gen /\ o.requested = obj[job.set].requested
                 /\ o.exists = obj[job.set].exists /\ o.spec = obj[job.set].spec
                 /\ o.observed \in {obj[job.set].observed, job.snap.gen}
                 /\ o.handled \in {obj[job.set].handled, job.snap.handled}
<1>1. PICK reworded \in BOOLEAN :
        StoreStatus(job.set, NewStatus(job), reworded) \/ UNCHANGED server
  BY DEF PatchStatus
<1> DEFINE p == Patched(obj[job.set], cache[job.set], NewStatus(job), reworded)
<1>2. p \in SetObjects
  BY PatchedType DEF PatchStatus
<1>3. NewStatus(job).observed = job.snap.gen /\ NewStatus(job).handled = job.snap.handled
  BY Parts DEF NewStatus, SetObjects
<1>4. /\ p.gen = obj[job.set].gen /\ p.requested = obj[job.set].requested
      /\ p.exists = obj[job.set].exists /\ p.spec = obj[job.set].spec
      /\ p.observed \in {obj[job.set].observed, NewStatus(job).observed}
      /\ p.handled \in {obj[job.set].handled, NewStatus(job).handled}
  BY Parts DEF Patched, SetObjects
<1>5. UNCHANGED <<obj, watch>> \/ Store(job.set, p)
  BY <1>1 DEF StoreStatus, server
<1>6. UNCHANGED <<cache, cluster>> /\ job' = Idle /\ job.pc = "status"
  BY DEF PatchStatus, AfterStatus, Retry, Finish
<1> HIDE DEF p
<1>7. QED  BY <1>2, <1>3, <1>4, <1>5, <1>6

\* The worker keeps StatusInv.
LEMMA WorkerStatusInv ==
  ASSUME TypeInv, SafeInv, StatusInv, Worker
  PROVE  StatusInv'
<1>1. Idle.pc = "idle"
  BY DEF Idle
<1>2. CASE AddFinalizer
  <2> DEFINE new == [obj[job.set] EXCEPT !.finalizer = TRUE]
  <2>1. UNCHANGED cache /\ job' = Idle
    BY <1>2 DEF AddFinalizer, Retry
  <2>2. CASE UNCHANGED server
    BY <1>1, <2>1, <2>2, QuietStatusInv DEF server, Working
  <2>3. CASE Store(job.set, new)
    <3>1. /\ new \in SetObjects /\ new.gen = obj[job.set].gen
          /\ new.requested = obj[job.set].requested /\ new.exists = obj[job.set].exists
          /\ new.observed = obj[job.set].observed /\ new.handled = obj[job.set].handled
      BY Parts DEF SetObjects
    <3> HIDE DEF new
    <3>2. Precedes(obj[job.set], new)
      BY <3>1, Parts, NumbersAreNat DEF Precedes
    <3>3. QED  BY <2>1, <2>3, <3>1, <3>2, Parts, EditStatusInv
  <2>4. QED  BY <1>2, <2>2, <2>3 DEF AddFinalizer
<1>3. CASE RemoveFinalizer
  <2>1. UNCHANGED cache /\ job' = Idle /\ job.pc = "finalize"
    BY <1>3 DEF RemoveFinalizer, Retry, Finish
  <2>2. CASE UNCHANGED server
    BY <1>1, <2>1, <2>2, QuietStatusInv DEF server, Working
  <2>3. CASE Current(job.snap, job.set) /\ Store(job.set, Removed(obj[job.set]))
    <3>1. \A w \in Known(job.set) : ~Live(w)
      BY <2>1, <2>3, RemovalIsKnown
    <3>2. LET o == Removed(obj[job.set]) IN
          o \in SetObjects /\ o.observed = 0 /\ o.handled = 0
      BY Parts, RemovedValues
    <3>3. job' = job /\ Working => job.set # job.set
      BY <2>1 DEF Working
    <3>4. QED  BY <2>1, <2>3, <3>1, <3>2, <3>3, Parts, FreshStatusInv
  <2>4. QED  BY <1>3, <2>2, <2>3 DEF RemoveFinalizer
<1>4. CASE FinalizeOne \/ FinalizeUnreadable
  <2>1. /\ UNCHANGED <<obj, watch, cache>>
        /\ job' = Idle \/ job'.pc = "finalize"
    BY <1>4, Parts DEF FinalizeOne, FinalizeUnreadable, Retry, Jobs, server
  <2>2. QED  BY <1>1, <2>1, QuietStatusInv DEF Working
<1>5. CASE Render \/ EndApply \/ PruneOne \/ PruneUnreadable \/ EndPrune
  <2>1. /\ UNCHANGED <<obj, watch, cache>> /\ Working
        /\ job'.set = job.set /\ job'.snap = job.snap
    BY <1>5, Parts
    DEF Render, EndApply, PruneOne, PruneUnreadable, EndPrune, server, Working, Jobs
  <2>2. QED  BY <2>1, QuietStatusInv
<1>6. CASE GetExisting \/ GetUnreadable \/ PatchResource \/ CreateResource
  <2>1. UNCHANGED <<obj, watch, cache>> /\ Working
    BY <1>6
    DEF GetExisting, GetUnreadable, PatchResource, CreateResource, MayCreate, server, Working
  <2>2. job'.set = job.set /\ job'.snap = job.snap
    BY <1>6, AfterGet, AfterUnreadable, AfterWrite, AfterOne, Parts
  <2>3. QED  BY <2>1, <2>2, QuietStatusInv
<1>7. CASE PatchStatus
  <2>1. UNCHANGED cache /\ job' = Idle /\ Working
    BY <1>7, StatusEffect DEF Working
  <2>2. CASE UNCHANGED <<obj, watch>>
    BY <1>1, <2>1, <2>2, QuietStatusInv DEF Working
  <2>3. ASSUME NEW o \in SetObjects, Store(job.set, o),
               o.gen = obj[job.set].gen, o.requested = obj[job.set].requested,
               o.observed \in {obj[job.set].observed, job.snap.gen},
               o.handled \in {obj[job.set].handled, job.snap.handled},
               o.exists = obj[job.set].exists
        PROVE  StatusInv'
    <3>1. /\ job.snap.handled = job.snap.requested
          /\ Precedes(job.snap, obj[job.set]) /\ Answered(obj[job.set], obj[job.set])
          /\ \A w \in Known(job.set) :
               Live(w) => /\ Precedes(job.snap, w) /\ Precedes(w, obj[job.set])
                          /\ Answered(obj[job.set], w)
      BY <2>1, Parts DEF StatusInv
    <3>2. Answered(o, o) /\ \A w \in Known(job.set) : Live(w) => Precedes(w, o) /\ Answered(o, w)
      BY <2>3, <3>1 DEF Answered, Precedes
    <3>3. ~(job' = job /\ Working)
      BY <1>1, <2>1 DEF Working
    <3>4. o.exists
      BY <2>1, <2>3 DEF SafeInv, GuardInv, WorkIsGuarded, Working
    <3>5. QED  BY <2>1, <2>3, <3>2, <3>3, <3>4, Parts, StoreStatusInv
  <2>4. QED  BY <1>7, <2>2, <2>3, StatusEffect
<1>8. QED
  BY <1>2, <1>3, <1>4, <1>5, <1>6, <1>7 DEF Worker

\* StatusInv is inductive.
LEMMA NextStatusInv == TypeInv /\ SafeInv /\ StatusInv /\ [Next]_vars => StatusInv'
<1>1. ASSUME StatusInv, UNCHANGED vars PROVE StatusInv'
  BY <1>1, QuietStatusInv DEF vars, Working
<1>2. QED
  BY <1>1, UsersStatusInv, ManagerStatusInv, WorkerStatusInv DEF Next

\* Nothing is observed or handled at the start.
LEMMA InitStatusInv == Init => StatusInv
<1> SUFFICES ASSUME Init PROVE StatusInv
  OBVIOUS
<1>1. /\ ~NoSet.exists /\ NoSet.gen = 0 /\ NoSet.requested = 0
      /\ NoSet.observed = 0 /\ NoSet.handled = 0
  BY DEF NoSet
<1>2. QED
  BY <1>1 DEF Init, Idle, StatusInv, Known, Answered, Precedes, Live, Working

\* The two strengthenings of this module, together with those they rest on.
LEMMA NextIndInv == IndInv /\ [Next]_vars => IndInv'
<1>1. TypeInv /\ ForeignInv /\ [Next]_vars => ForeignInv'
  BY NextForeignInv
<1>2. QED
  BY <1>1, NextTypeInv, NextSafeInv, NextAppliedInv, NextStatusInv DEF IndInv

\* The strengthenings hold in every state.
THEOREM IndInvSafe == Spec => []IndInv
<1>1. Init => AppliedInv
  BY DEF Init, Idle, AppliedInv
<1>2. Init => IndInv
  BY <1>1, InitTypeInv, InitForeignInv, InitSafeInv, InitStatusInv DEF IndInv
<1>3. QED  BY <1>2, NextIndInv, PTL DEF Spec

\* What a step may do to the status of a set.
GoesOn(s) ==
  obj'[s].exists => obj'[s].observed >= obj[s].observed /\ obj'[s].handled >= obj[s].handled

\* The status is written from a copy that is no older, for what the status answers
\* to, than any that was written from before.
LEMMA StatusGoesOn ==
  TypeInv /\ SafeInv /\ StatusInv /\ [Next]_vars => \A s \in Sets : GoesOn(s)
<1> SUFFICES ASSUME TypeInv, SafeInv, StatusInv, [Next]_vars, NEW s \in Sets
             PROVE  GoesOn(s)
  OBVIOUS
<1>1. ASSUME obj'[s] = obj[s] PROVE GoesOn(s)
  BY <1>1, Parts, NumbersAreNat DEF GoesOn
<1>2. ASSUME NEW t \in Sets, NEW o \in SetObjects, Store(t, o),
             o.exists => o.observed >= obj[t].observed /\ o.handled >= obj[t].handled
      PROVE  GoesOn(s)
  <2>1. PICK new \in SetObjects :
          /\ obj'[t] = new /\ new.observed = o.observed /\ new.handled = o.handled
          /\ new.exists = o.exists
          /\ \A u \in Sets \ {t} : obj'[u] = obj[u] /\ watch'[u] = watch[u]
    BY <1>2, StoreNumbers
  <2>2. QED  BY <1>1, <1>2, <2>1 DEF GoesOn
<1>3. ASSUME NEW t \in Sets, Edit(t) PROVE GoesOn(s)
  <2>1. PICK o \in SetObjects : /\ Store(t, o)
                                /\ o.observed = obj[t].observed /\ o.handled = obj[t].handled
    BY <1>3, EditEffect
  <2>2. QED  BY <1>2, <2>1, Parts, NumbersAreNat
<1>4. ASSUME NEW t \in Sets, CreateSet(t) PROVE GoesOn(s)
  <2>1. PICK o \in SetObjects : Store(t, o) /\ o.observed = 0 /\ o.handled = 0
    BY <1>4, CreateEffect
  <2>2. obj[t].observed = 0 /\ obj[t].handled = 0
    BY <1>4, CreateEffect DEF StatusInv
  <2>3. QED  BY <1>2, <2>1, <2>2
<1>5. ASSUME NEW t \in Sets, Store(t, Removed(obj[t])) PROVE GoesOn(s)
  <2>1. Removed(obj[t]) \in SetObjects /\ ~Removed(obj[t]).exists
    BY RemovedValues
  <2> HIDE DEF Removed
  <2>2. QED  BY <1>2, <1>5, <2>1
<1>6. ASSUME NEW t \in Sets, DeleteSet(t), ~obj[t].finalizer PROVE GoesOn(s)
  BY <1>5, <1>6, DropEffect
<1>7. ASSUME UNCHANGED obj PROVE GoesOn(s)
  BY <1>1, <1>7
<1>8. CASE Users
  BY <1>3, <1>4, <1>6, <1>7, <1>8
  DEF Users, Edit, ChangeSource, UserCreateResource, UserDeleteResource, UserStep, server
<1>9. CASE AddFinalizer
  <2> DEFINE new == [obj[job.set] EXCEPT !.finalizer = TRUE]
  <2>1. CASE Store(job.set, new)
    <3>1. /\ new \in SetObjects
          /\ new.observed = obj[job.set].observed /\ new.handled = obj[job.set].handled
      BY Parts DEF SetObjects
    <3> HIDE DEF new
    <3>2. QED  BY <1>2, <2>1, <3>1, Parts, NumbersAreNat
  <2>2. QED  BY <1>7, <1>9, <2>1 DEF AddFinalizer, server
<1>10. CASE RemoveFinalizer
  BY <1>5, <1>7, <1>10, Parts DEF RemoveFinalizer, server
<1>11. CASE PatchStatus
  <2>1. job.pc = "status"
    BY <1>11, StatusEffect
  <2>2. /\ job.snap.gen >= obj[job.set].observed
        /\ job.snap.handled >= obj[job.set].handled
    BY <2>1, Parts, NumbersAreNat DEF StatusInv, Working, Answered
  <2>3. ASSUME NEW o \in SetObjects, Store(job.set, o),
               o.observed \in {obj[job.set].observed, job.snap.gen},
               o.handled \in {obj[job.set].handled, job.snap.handled}
        PROVE  GoesOn(s)
    BY <1>2, <2>2, <2>3, Parts, NumbersAreNat
  <2>4. QED  BY <1>7, <1>11, <2>3, StatusEffect
<1>12. CASE \/ Crash \/ UNCHANGED vars
            \/ \E t \in Sets : Deliver(t) \/ TimerFire(t) \/ ClientFailure(t) \/ Begin(t)
  BY <1>7, <1>12
  DEF Crash, vars, Deliver, TimerFire, ClientFailure, Begin, SkipReconcile, BeginAddFinalizer,
      BeginFinalize, BeginRender, Take, server
<1>13. CASE \/ FinalizeOne \/ Render \/ GetExisting \/ PatchResource \/ CreateResource
            \/ EndApply \/ PruneOne \/ EndPrune \/ Unread
  BY <1>7, <1>13, UnreadWrites DEF FinalizeOne, Render, GetExisting, PatchResource,
     CreateResource, EndApply, PruneOne, EndPrune, server
<1>14. QED
  BY <1>8, <1>9, <1>10, <1>11, <1>12, <1>13 DEF Next, Worker, Unread

\* The status never goes back and never runs ahead, though it is written without a
\* check of versions, from copies however old.
THEOREM StatusSafe == Spec => StatusAdvances
<1>1. TypeInv /\ SafeInv /\ StatusInv /\ [Next]_vars =>
        [\A s \in Sets : obj'[s].exists =>
           obj'[s].observed >= obj[s].observed /\ obj'[s].handled >= obj[s].handled]_vars
  BY StatusGoesOn DEF GoesOn
<1>2. StatusInv => \A s \in Sets : obj[s].observed <= obj[s].gen /\ obj[s].handled <= obj[s].requested
  BY DEF StatusInv, Answered
<1>3. IndInv => TypeInv /\ SafeInv /\ StatusInv
  BY DEF IndInv
<1>4. QED
  BY <1>1, <1>2, <1>3, IndInvSafe, PTL DEF Spec, StatusAdvances

-----------------------------------------------------------------------------
(* What a set owns is recorded, when reads are fresh.                      *)

\* A step that gives no set a resource.
Shrinks == \A id \in Ids : \A s \in Sets : cluster'[id].owner = s => cluster[id].owner = s

LEMMA ShrinksOwned ==
  ASSUME Shrinks \/ UNCHANGED cluster
  PROVE  \A s \in Sets : {id \in Ids : cluster'[id].owner = s} \subseteq OwnedIds(s)
BY DEF Shrinks, OwnedIds

\* Deleting a resource, or leaving it as it is, gives no set anything.
LEMMA DeleteShrinks ==
  ASSUME TypeInv, NEW id \in Ids, Delete(id)
  PROVE  Shrinks /\ \A s \in Sets : cluster'[id].owner # s
<1>1. \A s \in Sets : Absent.owner # s
  BY SetsAssumption DEF Absent
<1>2. QED  BY <1>1, Parts DEF Delete, Shrinks, TypeOK

\* With fresh reads, the worker reads the newest version.
LEMMA ReadsNewest ==
  ASSUME TypeInv, Fresh, OwnedInv, NEW s \in Sets, ReadCache(s)
  PROVE  watch[s] = {} /\ cache[s] = obj[s]
<1>1. watch[s] = {}
  BY DEF Fresh, ReadCache, TypeInv, TypeOK
<1>2. QED  BY <1>1 DEF OwnedInv, Known

\* A write of a set that leaves its inventory alone, or that ends the reconciliation
\* and records what the set owns.
LEMMA StoreOwnedInv ==
  ASSUME TypeInv, OwnedInv, NEW s \in Sets, NEW o \in SetObjects, Store(s, o),
         UNCHANGED <<cache, cluster>>,
         \/ job' = job /\ o.inventory = obj[s].inventory
         \/ job' = Idle /\ job.set = s /\ job.pc # "idle" /\ OwnedIds(s) \subseteq IdsOf(o.inventory)
  PROVE  OwnedInv'
<1>1. PICK new \in SetObjects :
        /\ obj'[s] = new /\ watch'[s] = watch[s] \cup {new} /\ new.inventory = o.inventory
        /\ \A t \in Sets \ {s} : obj'[t] = obj[t] /\ watch'[t] = watch[t]
  BY StoreNumbers
<1>2. \A t \in Sets : obj'[t] \in {cache'[t]} \cup watch'[t]
  BY <1>1 DEF OwnedInv, Known
<1>3. CASE job' = job /\ o.inventory = obj[s].inventory
  <2>1. \A t \in Sets : obj'[t].inventory = obj[t].inventory
    BY <1>1, <1>3
  <2>2. \A t \in Sets : RecordedIds(t)' = RecordedIds(t) /\ OwnedIds(t)' = OwnedIds(t)
    BY <2>1 DEF RecordedIds, OwnedIds
  <2>3. /\ RecordedIds(job.set)' = RecordedIds(job.set)
        /\ OwnedIds(job.set)' = OwnedIds(job.set)
        /\ obj'[job'.set].inventory = obj[job.set].inventory
    BY <1>3, <2>1, Parts DEF RecordedIds, OwnedIds
  <2>4. QED  BY <1>2, <1>3, <2>2, <2>3 DEF OwnedInv, Known, IdsOf
<1>4. CASE job' = Idle /\ job.set = s /\ job.pc # "idle" /\ OwnedIds(s) \subseteq IdsOf(o.inventory)
  <2>1. Idle.pc = "idle"
    BY DEF Idle
  <2>2. \A t \in Sets : OwnedIds(t)' = OwnedIds(t)
    BY <1>4 DEF OwnedIds
  <2>3. \A t \in Sets \ {s} : RecordedIds(t)' = RecordedIds(t)
    BY <1>1 DEF RecordedIds
  <2>4. RecordedIds(s)' = IdsOf(o.inventory)
    BY <1>1 DEF RecordedIds, IdsOf
  <2>5. \A t \in Sets : OwnedIds(t)' \subseteq RecordedIds(t)'
    BY <1>4, <2>2, <2>3, <2>4 DEF OwnedInv
  <2>6. QED  BY <1>2, <1>4, <2>1, <2>5 DEF OwnedInv, Known
<1>5. QED  BY <1>3, <1>4

\* A step that writes no set and starts nothing: either the job stays, and no set
\* gets a resource, or it ends with everything recorded.
LEMMA QuietOwnedInv ==
  ASSUME TypeInv, OwnedInv, UNCHANGED <<obj, watch, cache>>,
         \/ job' = job /\ (Shrinks \/ UNCHANGED cluster)
         \/ job' = Idle /\ UNCHANGED cluster /\ OwnedIds(job.set) \subseteq RecordedIds(job.set)
  PROVE  OwnedInv'
<1>1. \A t \in Sets : RecordedIds(t)' = RecordedIds(t) /\ OwnedIds(t)' \subseteq OwnedIds(t)
  BY ShrinksOwned DEF RecordedIds, OwnedIds
<1>2. CASE job' = job
  <2>1. RecordedIds(job.set)' = RecordedIds(job.set) /\ OwnedIds(job.set)' \subseteq OwnedIds(job.set)
    BY <1>1, <1>2, Parts DEF RecordedIds, OwnedIds
  <2>2. QED  BY <1>1, <1>2, <2>1 DEF OwnedInv, Known, IdsOf
<1>3. CASE job' = Idle /\ UNCHANGED cluster /\ OwnedIds(job.set) \subseteq RecordedIds(job.set)
  <2>1. Idle.pc = "idle"
    BY DEF Idle
  <2>2. \A t \in Sets : OwnedIds(t) \subseteq RecordedIds(t)
    BY <1>3 DEF OwnedInv
  <2>3. QED  BY <1>1, <1>3, <2>1, <2>2 DEF OwnedInv, Known
<1>4. QED  BY <1>2, <1>3

\* A step of a reconciliation that goes on.
LEMMA WorkOwnedInv ==
  ASSUME TypeInv, OwnedInv, UNCHANGED <<obj, watch, cache>>,
         job.pc \notin {"idle", "addFinalizer"},
         job'.pc \in {"finalize", "apply", "patch", "create", "prune", "status"},
         job'.set = job.set, job'.snap = job.snap,
         \A t \in Sets \ {job.set} : OwnedIds(t)' \subseteq OwnedIds(t),
         NEW owned, owned = {id \in Ids : cluster'[id].owner = job.set},
         job'.pc = "finalize" => owned \subseteq RecordedIds(job.set),
         job'.pc \in {"apply", "patch", "create"} =>
           owned \subseteq RecordedIds(job.set) \cup IdsOf(job'.entries),
         job'.pc = "patch" => Head(job'.todo).ref.id \in IdsOf(job'.entries),
         job'.pc \in {"apply", "patch", "create", "prune"} => job'.outcome = "ok",
         job'.pc = "prune" => owned \subseteq IdsOf(job'.entries \cup job'.remove),
         job'.pc = "status" =>
           owned \subseteq IF job'.outcome = "ok" THEN IdsOf(job'.entries) ELSE RecordedIds(job.set)
  PROVE  OwnedInv'
<1>1. \A t \in Sets : RecordedIds(t)' = RecordedIds(t)
  BY DEF RecordedIds
<1>2. OwnedIds(job.set)' = owned /\ RecordedIds(job.set)' = RecordedIds(job.set)
  BY Parts DEF OwnedIds, RecordedIds
<1>3. \A t \in Sets : t # job.set => OwnedIds(t)' \subseteq RecordedIds(t)'
  BY <1>1 DEF OwnedInv
<1>4. \A t \in Sets : obj'[t] \in {cache'[t]} \cup watch'[t]
  BY DEF OwnedInv, Known
<1>5. job'.snap.inventory = obj'[job'.set].inventory
  BY DEF OwnedInv
<1>6. QED  BY <1>2, <1>3, <1>4, <1>5 DEF OwnedInv, Known, IdsOf

\* Users give no set a resource, and leave inventories alone.
LEMMA UsersOwnedInv == TypeInv /\ SafeInv /\ OwnedInv /\ Users => OwnedInv'
<1> SUFFICES ASSUME TypeInv, SafeInv, OwnedInv, Users PROVE OwnedInv'
  OBVIOUS
<1>1. ASSUME NEW s \in Sets, Edit(s) PROVE OwnedInv'
  <2>1. PICK o \in SetObjects : Store(s, o) /\ o.inventory = obj[s].inventory
    BY <1>1, EditEffect
  <2>2. QED  BY <1>1, <2>1, EditEffect, StoreOwnedInv
<1>2. ASSUME NEW s \in Sets, ~(obj[s].exists /\ obj[s].finalizer) PROVE obj[s].inventory = {}
  BY <1>2 DEF SafeInv, GuardInv, WorkIsGuarded
<1>3. ASSUME NEW s \in Sets, CreateSet(s) PROVE OwnedInv'
  <2>1. PICK o \in SetObjects : Store(s, o) /\ o.inventory = {}
    BY <1>3, CreateEffect
  <2>2. UNCHANGED <<cache, cluster, job>> /\ obj[s].inventory = {}
    BY <1>2, <1>3, CreateEffect
  <2>3. QED  BY <2>1, <2>2, StoreOwnedInv
<1>4. ASSUME NEW s \in Sets, DeleteSet(s), ~obj[s].finalizer PROVE OwnedInv'
  <2>1. UNCHANGED <<cache, cluster, job>> /\ Store(s, Removed(obj[s]))
    BY <1>4, DropEffect
  <2>2. Removed(obj[s]) \in SetObjects /\ Removed(obj[s]).inventory = {} /\ obj[s].inventory = {}
    BY <1>2, <1>4, RemovedValues
  <2> HIDE DEF Removed
  <2>3. QED  BY <2>1, <2>2, StoreOwnedInv
<1>5. ASSUME NEW s \in Sets, ChangeSource(s) PROVE OwnedInv'
  BY <1>5, QuietOwnedInv DEF ChangeSource, UserStep, server
<1>6. ASSUME NEW id \in UserIds, UserCreateResource(id) \/ UserDeleteResource(id)
      PROVE  OwnedInv'
  <2>1. PICK r \in {ForeignResource, Absent} : cluster' = [cluster EXCEPT ![id] = r]
    BY <1>6 DEF UserCreateResource, UserDeleteResource
  <2>2. \A s \in Sets : r.owner # s
    BY SetsAssumption DEF ForeignResource, Absent
  <2>3. Shrinks
    BY <2>1, <2>2, Parts DEF Shrinks, TypeOK
  <2>4. UNCHANGED <<obj, watch, cache, job>>
    BY <1>6 DEF UserCreateResource, UserDeleteResource, UserStep, server
  <2>5. QED  BY <2>3, <2>4, QuietOwnedInv
<1>7. QED
  BY <1>1, <1>3, <1>4, <1>5, <1>6 DEF Users, Edit

\* The informer delivers, timers fire and reconciliations begin.
LEMMA ManagerOwnedInv ==
  ASSUME TypeInv, SafeInv, Fresh, OwnedInv, NEW s \in Sets,
         Deliver(s) \/ TimerFire(s) \/ ClientFailure(s) \/ Begin(s)
  PROVE  OwnedInv'
<1>1. CASE Deliver(s)
  <2>1. PICK o \in watch[s] :
          /\ cache' = [cache EXCEPT ![s] = o]
          /\ watch' = [watch EXCEPT ![s] = {w \in @ : w.rv > o.rv}]
    BY <1>1 DEF Deliver
  <2>2. UNCHANGED <<obj, cluster, job>>
    BY <1>1 DEF Deliver
  <2>3. /\ cache'[s] = o /\ watch'[s] = {w \in watch[s] : w.rv > o.rv}
        /\ \A t \in Sets \ {s} : cache'[t] = cache[t] /\ watch'[t] = watch[t]
    BY <2>1, Parts DEF TypeOK
  <2>4. /\ cache[s].rv < o.rv /\ o.rv <= obj[s].rv
        /\ o.rv = obj[s].rv => o = obj[s]
        /\ o.rv \in Nat /\ obj[s].rv \in Nat /\ cache[s].rv \in Nat
    BY VersionsAreNat DEF SafeInv, VersionInv, Known
  <2>5. obj[s] \in watch[s]
    BY <2>4, VersionsAreNat DEF OwnedInv, Known, SafeInv, VersionInv
  <2>6. obj[s] \in {cache'[s]} \cup watch'[s]
    BY <2>3, <2>4, <2>5
  <2>7. \A t \in Sets : obj'[t] \in {cache'[t]} \cup watch'[t]
    BY <2>2, <2>3, <2>6 DEF OwnedInv, Known
  <2>8. \A t \in Sets : RecordedIds(t)' = RecordedIds(t) /\ OwnedIds(t)' = OwnedIds(t)
    BY <2>2 DEF RecordedIds, OwnedIds
  <2>9. RecordedIds(job.set)' = RecordedIds(job.set) /\ OwnedIds(job.set)' = OwnedIds(job.set)
    BY <2>2 DEF RecordedIds, OwnedIds
  <2>10. QED  BY <2>2, <2>7, <2>8, <2>9 DEF OwnedInv, Known, IdsOf
<1>2. CASE TimerFire(s) \/ ClientFailure(s) \/ SkipReconcile(s)
  <2>1. UNCHANGED <<obj, watch, cache, cluster, job>>
    BY <1>2 DEF TimerFire, ClientFailure, SkipReconcile, Take, server
  <2>2. QED  BY <2>1, QuietOwnedInv
<1>3. CASE BeginAddFinalizer(s) \/ BeginFinalize(s) \/ BeginRender(s)
  <2>1. UNCHANGED <<obj, watch, cache, cluster>> /\ job.pc = "idle" /\ ReadCache(s)
    BY <1>3 DEF BeginAddFinalizer, BeginFinalize, BeginRender, Take, server
  <2>2. /\ job'.pc \in {"addFinalizer", "finalize", "render"} /\ job'.set = s
        /\ job'.snap \in {cache[s], Acknowledged(cache[s])} /\ job'.outcome = "ok"
    BY <1>3 DEF BeginAddFinalizer, BeginFinalize, BeginRender, Idle
  <2>3. job'.snap.inventory = obj[s].inventory
    BY <2>1, <2>2, ReadsNewest, Parts DEF Acknowledged, SetObjects
  <2>4. \A t \in Sets : OwnedIds(t) \subseteq RecordedIds(t)
    BY <2>1 DEF OwnedInv
  <2>5. \A t \in Sets : OwnedIds(t)' \subseteq RecordedIds(t)'
    BY <2>1, <2>4 DEF OwnedIds, RecordedIds
  <2>6. OwnedIds(job.set)' \subseteq RecordedIds(job.set)'
    BY <2>2, <2>5 DEF OwnedIds, RecordedIds
  <2>7. job'.snap.inventory = obj'[job'.set].inventory
    BY <2>1, <2>2, <2>3
  <2>8. \A t \in Sets : obj'[t] \in {cache'[t]} \cup watch'[t]
    BY <2>1 DEF OwnedInv, Known
  <2>9. QED  BY <2>2, <2>5, <2>6, <2>7, <2>8 DEF OwnedInv, Known
<1>4. QED  BY <1>1, <1>2, <1>3 DEF Begin

\* Under Fresh, what may become of a call that a retry does not repair: nothing but
\* success, or success whose answer is lost.
LEMMA FreshOutcomes ==
  ASSUME Fresh
  PROVE  /\ \A out \in Outcomes("delete") : out = "ok"
         /\ \A out \in Outcomes("status") : out # "refused"
         /\ \A out \in Outcomes("create") : out # "lost"
BY DEF Fresh, Outcomes

\* The resource that is written is the owner's from then on, or as it was.
LEMMA WriteEffect ==
  ASSUME TypeInv, Fresh, PatchResource \/ CreateResource
  PROVE  LET id == Head(job.todo).ref.id IN
         /\ \A s \in Sets \ {job.set} : OwnedIds(s)' \subseteq OwnedIds(s)
         /\ PatchResource =>
              {i \in Ids : cluster'[i].owner = job.set} \subseteq OwnedIds(job.set) \cup {id}
         /\ CreateResource =>
              \/ UNCHANGED cluster
              \/ /\ job' = Applied(job)
                 /\ {i \in Ids : cluster'[i].owner = job.set} \subseteq OwnedIds(job.set) \cup {id}
<1> DEFINE id == Head(job.todo).ref.id
<1>1. ASSUME NEW r, r.owner = job.set \/ r.owner = cluster[id].owner,
             cluster' = [cluster EXCEPT ![id] = r]
      PROVE  /\ \A s \in Sets \ {job.set} : OwnedIds(s)' \subseteq OwnedIds(s)
             /\ {i \in Ids : cluster'[i].owner = job.set} \subseteq OwnedIds(job.set) \cup {id}
  <2>1. \A i \in Ids : cluster'[i] = IF i = id THEN r ELSE cluster[i]
    BY <1>1, Parts DEF TypeOK
  <2>2. QED  BY <1>1, <2>1 DEF OwnedIds
<1>2. ASSUME UNCHANGED cluster
      PROVE  \A s \in Sets : OwnedIds(s)' \subseteq OwnedIds(s)
  BY <1>2 DEF OwnedIds
<1>3. CASE PatchResource
  <2>1. \/ UNCHANGED cluster
        \/ cluster' = [cluster EXCEPT ![id] = Merged(@, job.got, job.set, Head(job.todo).val)]
    BY <1>3 DEF PatchResource
  <2>2. CASE UNCHANGED cluster
    BY <1>2, <1>3, <2>2 DEF OwnedIds, PatchResource, CreateResource, MayCreate
  <2>3. CASE cluster' = [cluster EXCEPT ![id] = Merged(@, job.got, job.set, Head(job.todo).val)]
    <3> DEFINE r == Merged(cluster[id], job.got, job.set, Head(job.todo).val)
    <3>1. r.owner = job.set \/ r.owner = cluster[id].owner
      BY DEF Merged
    <3>2. cluster' = [cluster EXCEPT ![id] = r]
      BY <2>3
    <3> HIDE DEF r
    <3>3. /\ \A s \in Sets \ {job.set} : OwnedIds(s)' \subseteq OwnedIds(s)
          /\ {i \in Ids : cluster'[i].owner = job.set} \subseteq OwnedIds(job.set) \cup {id}
      BY <1>1, <3>1, <3>2
    <3>4. ~CreateResource
      BY <1>3 DEF PatchResource, CreateResource, MayCreate
    <3>5. QED  BY <3>3, <3>4
  <2>4. QED  BY <2>1, <2>2, <2>3
<1>4. CASE CreateResource
  <2>1. PICK out \in Outcomes("create") :
          /\ cluster' = IF out = "refused" \/ cluster[id] # Absent THEN cluster
                        ELSE [cluster EXCEPT ![id] = [owner |-> job.set, val |-> Head(job.todo).val]]
          /\ job' = IF out = "ok" /\ cluster[id] = Absent THEN Applied(job) ELSE Failed(job)
    BY <1>4 DEF CreateResource
  <2>2. out \in {"ok", "refused"}
    BY FreshOutcomes DEF Outcomes
  <2>3. ~PatchResource
    BY <1>4 DEF PatchResource, CreateResource, MayCreate
  <2>4. CASE UNCHANGED cluster
    BY <1>2, <2>3, <2>4 DEF OwnedIds
  <2>5. CASE /\ job' = Applied(job)
             /\ cluster' = [cluster EXCEPT ![id] = [owner |-> job.set, val |-> Head(job.todo).val]]
    <3> DEFINE r == [owner |-> job.set, val |-> Head(job.todo).val]
    <3>1. r.owner = job.set /\ cluster' = [cluster EXCEPT ![id] = r]
      BY <2>5
    <3> HIDE DEF r
    <3>2. QED  BY <1>1, <2>3, <2>5, <3>1
  <2>6. QED  BY <2>1, <2>2, <2>4, <2>5
<1>5. QED  BY <1>3, <1>4

\* With fresh reads the status patch writes the new status, if it is not that already.
LEMMA FreshStatusEffect ==
  ASSUME TypeInv, SafeInv, Fresh, OwnedInv, PatchStatus
  PROVE  /\ UNCHANGED <<cache, cluster>> /\ job' = Idle /\ job.pc = "status"
         /\ \E o \in SetObjects :
              /\ (UNCHANGED <<obj, watch>> /\ obj[job.set] = o) \/ Store(job.set, o)
              /\ o.gen = obj[job.set].gen /\ o.spec = obj[job.set].spec /\ o.exists
              /\ o.inventory = NewInventory(job) /\ o.cond = NewCondition(job)
              /\ o.observed = job.snap.gen
<1> DEFINE s == job.set
<1>1. UNCHANGED <<cache, cluster>> /\ job' = Idle /\ job.pc = "status" /\ ReadCache(s)
  BY DEF PatchStatus, AfterStatus, Retry, Finish
<1>2. cache[s] = obj[s] /\ obj[s].exists
  BY <1>1, Parts, ReadsNewest DEF SafeInv, GuardInv, WorkIsGuarded
<1>3. PICK reworded \in BOOLEAN : StoreStatus(s, NewStatus(job), reworded)
  BY <1>2, FreshOutcomes DEF PatchStatus
<1> DEFINE p == Patched(obj[s], cache[s], NewStatus(job), reworded)
<1>4. p \in SetObjects
  BY PatchedType DEF PatchStatus
<1>5. /\ NewStatus(job).observed = job.snap.gen /\ NewStatus(job).inventory = NewInventory(job)
      /\ NewStatus(job).cond = NewCondition(job)
  BY Parts DEF NewStatus, SetObjects
<1>6. /\ p.gen = obj[s].gen /\ p.spec = obj[s].spec /\ p.exists = obj[s].exists
      /\ p.inventory = NewStatus(job).inventory /\ p.cond = NewStatus(job).cond
      /\ p.observed = NewStatus(job).observed
  BY <1>2, Parts, ZenonT(40) DEF Patched, SetObjects
<1>7. \/ UNCHANGED <<obj, watch>> /\ obj[s] = p
      \/ Store(s, p)
  BY <1>3 DEF StoreStatus, server
<1> HIDE DEF p
<1>8. QED  BY <1>1, <1>2, <1>4, <1>5, <1>6, <1>7

\* The status patch records what the set owns.
LEMMA PatchOwnedInv ==
  ASSUME TypeInv, SafeInv, Fresh, OwnedInv, PatchStatus
  PROVE  OwnedInv'
<1>1. PICK o \in SetObjects :
        /\ (UNCHANGED <<obj, watch>> /\ obj[job.set] = o) \/ Store(job.set, o)
        /\ o.inventory = NewInventory(job)
  BY FreshStatusEffect
<1>2. UNCHANGED <<cache, cluster>> /\ job' = Idle /\ job.pc = "status"
  BY FreshStatusEffect
<1>3. OwnedIds(job.set) \subseteq IdsOf(o.inventory)
  BY <1>1, <1>2 DEF OwnedInv, NewInventory, RecordedIds, IdsOf
<1>4. CASE Store(job.set, o)
  BY <1>2, <1>3, <1>4, Parts, StoreOwnedInv
<1>5. CASE UNCHANGED <<obj, watch>> /\ obj[job.set] = o
  BY <1>2, <1>3, <1>5, QuietOwnedInv DEF RecordedIds, IdsOf
<1>6. QED  BY <1>1, <1>4, <1>5

\* The worker, from the start of a reconciliation to its last write.
LEMMA WorkerOwnedInv ==
  ASSUME TypeInv, SafeInv, Fresh, OwnedInv, Worker
  PROVE  OwnedInv'
<1>1. job.set \in Sets /\ job \in Jobs /\ job.snap \in SetObjects
  BY Parts
<1>2. CASE AddFinalizer
  <2> DEFINE new == [obj[job.set] EXCEPT !.finalizer = TRUE]
  <2>1. UNCHANGED <<cache, cluster>> /\ job' = Idle /\ job.pc = "addFinalizer"
    BY <1>2 DEF AddFinalizer, Retry
  <2>2. OwnedIds(job.set) \subseteq RecordedIds(job.set)
    BY <2>1 DEF OwnedInv
  <2>3. CASE Store(job.set, new)
    <3>1. new \in SetObjects /\ new.inventory = obj[job.set].inventory
      BY Parts DEF SetObjects
    <3> HIDE DEF new
    <3>2. OwnedIds(job.set) \subseteq IdsOf(new.inventory)
      BY <2>2, <3>1 DEF RecordedIds, IdsOf
    <3>3. QED  BY <1>1, <2>1, <2>3, <3>1, <3>2, StoreOwnedInv
  <2>4. CASE UNCHANGED server
    BY <2>1, <2>2, <2>4, QuietOwnedInv DEF server
  <2>5. QED  BY <1>2, <2>3, <2>4 DEF AddFinalizer
<1>3. CASE RemoveFinalizer
  <2>1. /\ UNCHANGED <<cache, cluster>> /\ job' = Idle
        /\ job.pc = "finalize" /\ job.remove = {}
    BY <1>3 DEF RemoveFinalizer, Retry, Finish
  <2>2. OwnedIds(job.set) \subseteq RecordedIds(job.set)
    BY <2>1 DEF OwnedInv
  <2>3. CASE Current(job.snap, job.set) /\ Store(job.set, Removed(obj[job.set]))
    <3>1. \A ref \in obj[job.set].inventory : cluster[ref.id].owner # job.set
      BY <2>1, <2>3, RemovalIsKnown DEF SafeInv, FinalizeInv
    <3>2. OwnedIds(job.set) = {}
      BY <2>2, <3>1 DEF OwnedIds, RecordedIds
    <3>3. Removed(obj[job.set]) \in SetObjects
      BY <1>1, RemovedValues
    <3> HIDE DEF Removed
    <3>4. QED  BY <1>1, <2>1, <2>3, <3>2, <3>3, StoreOwnedInv
  <2>4. CASE UNCHANGED server
    BY <2>1, <2>2, <2>4, QuietOwnedInv DEF server
  <2>5. QED  BY <1>3, <2>3, <2>4 DEF RemoveFinalizer
<1>4. CASE FinalizeOne \/ PruneOne
  <2>1. PICK ref \in job.remove :
          /\ Delete(ref.id)
          /\ job' = [job EXCEPT !.remove = @ \ {ref}]
    <3>1. CASE FinalizeOne
      <4>1. PICK ref \in job.remove, out \in Outcomes("delete") :
              /\ IF out # "refused" THEN Delete(ref.id) ELSE UNCHANGED cluster
              /\ out = "ok" => job' = [job EXCEPT !.remove = @ \ {ref}]
        BY <3>1 DEF FinalizeOne
      <4>2. QED  BY <4>1, FreshOutcomes
    <3>2. CASE PruneOne
      <4>1. PICK ref \in job.remove, out \in Outcomes("delete") :
              /\ IF out # "refused" THEN Delete(ref.id) ELSE UNCHANGED cluster
              /\ out = "ok" => job' = [job EXCEPT !.remove = @ \ {ref}]
        BY <3>2 DEF PruneOne
      <4>2. QED  BY <4>1, FreshOutcomes
    <3>3. QED  BY <1>4, <3>1, <3>2
  <2>2. UNCHANGED <<obj, watch, cache>> /\ job.pc \in {"finalize", "prune"}
    BY <1>4 DEF FinalizeOne, PruneOne, server
  <2>3. /\ job'.pc = job.pc /\ job'.set = job.set /\ job'.snap = job.snap
        /\ job'.entries = job.entries /\ job'.outcome = job.outcome
        /\ job'.remove = job.remove \ {ref}
    BY <1>1, <2>1 DEF Jobs
  <2>4. ref.id \in Ids
    BY Parts DEF Refs
  <2>5. Shrinks /\ \A s \in Sets : cluster'[ref.id].owner # s
    BY <2>1, <2>4, DeleteShrinks
  <2> DEFINE owned == {id \in Ids : cluster'[id].owner = job.set}
  <2>6. owned \subseteq OwnedIds(job.set) \ {ref.id}
    BY <1>1, <2>5 DEF Shrinks, OwnedIds
  <2>7. \A t \in Sets : OwnedIds(t)' \subseteq OwnedIds(t)
    BY <2>5 DEF Shrinks, OwnedIds
  <2>8. CASE job.pc = "finalize"
    BY <2>2, <2>3, <2>6, <2>7, <2>8, WorkOwnedInv DEF OwnedInv
  <2>9. CASE job.pc = "prune"
    <3>1. owned \subseteq IdsOf(job'.entries \cup job'.remove)
      BY <2>3, <2>6, <2>9 DEF OwnedInv, IdsOf
    <3>2. job'.outcome = "ok"
      BY <2>3, <2>9 DEF OwnedInv
    <3>3. QED  BY <2>2, <2>3, <2>7, <2>9, <3>1, <3>2, WorkOwnedInv
  <2>10. QED  BY <2>2, <2>8, <2>9
<1>5. CASE Render \/ EndApply \/ EndPrune
  <2>1. /\ UNCHANGED <<obj, watch, cache, cluster>>
        /\ job.pc \in {"render", "apply", "prune"}
    BY <1>5 DEF Render, EndApply, EndPrune, server
  <2>2. OwnedIds(job.set) = {id \in Ids : cluster'[id].owner = job.set}
    BY <2>1 DEF OwnedIds
  <2>3. \A t \in Sets : OwnedIds(t)' \subseteq OwnedIds(t)
    BY <2>1 DEF OwnedIds
  <2>4. job.outcome = "ok"
    BY <2>1 DEF OwnedInv
  <2>5. CASE Render
    <3>1. /\ job.pc = "render" /\ job'.set = job.set /\ job'.snap = job.snap
          /\ \/ job'.pc = "apply" /\ job'.outcome = job.outcome
             \/ job'.pc = "status" /\ job'.outcome # "ok"
      BY <1>1, <2>5 DEF Render, Jobs
    <3>2. OwnedIds(job.set) \subseteq RecordedIds(job.set)
      BY <3>1 DEF OwnedInv
    <3>3. QED  BY <2>1, <2>2, <2>3, <2>4, <3>1, <3>2, WorkOwnedInv
  <2>6. CASE EndApply
    <3>1. /\ job.pc = "apply" /\ job'.pc = "prune" /\ job'.set = job.set /\ job'.snap = job.snap
          /\ job'.outcome = job.outcome /\ job'.entries = job.entries
          /\ job'.remove = job.snap.inventory \ job.entries
      BY <1>1, <2>6 DEF EndApply, Jobs
    <3>2. job.snap.inventory = obj[job.set].inventory
      BY <3>1 DEF OwnedInv
    <3>3. OwnedIds(job.set) \subseteq IdsOf(job'.entries \cup job'.remove)
      BY <3>1, <3>2 DEF OwnedInv, RecordedIds, IdsOf
    <3>4. QED  BY <2>1, <2>2, <2>3, <2>4, <3>1, <3>3, WorkOwnedInv
  <2>7. CASE EndPrune
    <3>1. /\ job.pc = "prune" /\ job.remove = {} /\ job'.pc = "status"
          /\ job'.set = job.set /\ job'.snap = job.snap
          /\ job'.outcome = job.outcome /\ job'.entries = job.entries
      BY <1>1, <2>7 DEF EndPrune, Jobs
    <3>2. OwnedIds(job.set) \subseteq IdsOf(job'.entries)
      BY <3>1 DEF OwnedInv
    <3>3. QED  BY <2>1, <2>2, <2>3, <2>4, <3>1, <3>2, WorkOwnedInv
  <2>8. QED  BY <1>5, <2>5, <2>6, <2>7
<1>6. CASE GetExisting
  <2>1. UNCHANGED <<obj, watch, cache, cluster>>
    BY <1>6 DEF GetExisting, server
  <2>2. /\ job.pc = "apply" /\ job'.set = job.set /\ job'.snap = job.snap
        /\ job'.entries = job.entries \cup {Head(job.todo).ref} /\ job'.outcome = job.outcome
        /\ job'.pc = "apply" \/ (job'.pc \in {"create", "patch"} /\ job'.todo = job.todo)
    BY <1>6, AfterGet
  <2>3. /\ job.outcome = "ok"
        /\ OwnedIds(job.set) \subseteq RecordedIds(job.set) \cup IdsOf(job'.entries)
        /\ job'.pc = "patch" => Head(job'.todo).ref.id \in IdsOf(job'.entries)
    BY <2>2 DEF OwnedInv, IdsOf
  <2>4. OwnedIds(job.set) = {id \in Ids : cluster'[id].owner = job.set}
    BY <2>1 DEF OwnedIds
  <2>5. \A t \in Sets : OwnedIds(t)' \subseteq OwnedIds(t)
    BY <2>1 DEF OwnedIds
  <2>6. QED  BY <2>1, <2>2, <2>3, <2>4, <2>5, WorkOwnedInv
<1>7. CASE PatchResource \/ CreateResource
  <2> DEFINE id == Head(job.todo).ref.id
  <2> DEFINE owned == {i \in Ids : cluster'[i].owner = job.set}
  <2>1. UNCHANGED <<obj, watch, cache>>
    BY <1>7 DEF PatchResource, CreateResource, server
  <2>2. /\ job.todo # <<>> /\ job.pc \in {"apply", "patch", "create"}
        /\ job' \in {Next1(job), Failed(job), Applied(job)}
    BY <1>7, AfterWrite
  <2>3. /\ job'.pc = "apply" /\ job'.set = job.set /\ job'.snap = job.snap
        /\ job.entries \subseteq job'.entries /\ job'.outcome = job.outcome
        /\ job' = Applied(job) => Head(job.todo).ref \in job'.entries
    BY <1>1, <2>2, AfterOne
  <2>4. /\ job.outcome = "ok"
        /\ OwnedIds(job.set) \subseteq RecordedIds(job.set) \cup IdsOf(job'.entries)
    BY <2>2, <2>3 DEF OwnedInv, IdsOf
  <2>5. \A t \in Sets \ {job.set} : OwnedIds(t)' \subseteq OwnedIds(t)
    BY <1>7, WriteEffect
  <2>6. owned \subseteq RecordedIds(job.set) \cup IdsOf(job'.entries)
    <3>1. CASE PatchResource
      <4>1. id \in IdsOf(job'.entries)
        BY <2>3, <3>1 DEF PatchResource, OwnedInv, IdsOf
      <4>2. QED  BY <2>4, <3>1, <4>1, WriteEffect
    <3>2. CASE CreateResource
      <4>1. CASE UNCHANGED cluster
        BY <2>4, <4>1 DEF OwnedIds
      <4>2. CASE job' = Applied(job) /\ owned \subseteq OwnedIds(job.set) \cup {id}
        <5>1. id \in IdsOf(job'.entries)
          BY <2>3, <4>2 DEF IdsOf
        <5>2. QED  BY <2>4, <4>2, <5>1
      <4>3. QED  BY <3>2, <4>1, <4>2, WriteEffect
    <3>3. QED  BY <1>7, <3>1, <3>2
  <2>7. QED  BY <2>1, <2>2, <2>3, <2>4, <2>5, <2>6, WorkOwnedInv
<1>8. CASE PatchStatus
  BY <1>8, PatchOwnedInv
<1>9. CASE Unread
  BY <1>9, FreshReads
<1>10. QED
  BY <1>2, <1>3, <1>4, <1>5, <1>6, <1>7, <1>8, <1>9 DEF Worker, Unread

\* OwnedInv is inductive under Fresh.
LEMMA NextFreshInv == TypeInv /\ SafeInv /\ FreshInv /\ [Next]_vars => FreshInv'
<1> SUFFICES ASSUME TypeInv, SafeInv, Fresh, OwnedInv, [Next]_vars PROVE OwnedInv'
  BY DEF FreshInv, Fresh
<1>1. ~Crash
  BY DEF Fresh, Crash
<1>2. ASSUME UNCHANGED vars PROVE OwnedInv'
  BY <1>2, QuietOwnedInv DEF vars
<1>3. QED
  BY <1>1, <1>2, UsersOwnedInv, ManagerOwnedInv, WorkerOwnedInv DEF Next

\* Nothing is owned at the start.
LEMMA InitFreshInv == Init => FreshInv
<1> SUFFICES ASSUME Init PROVE OwnedInv
  BY DEF FreshInv
<1>1. Idle.pc = "idle"
  BY DEF Idle
<1>2. \A s \in Sets : OwnedIds(s) = {}
  BY SetsAssumption DEF Init, OwnedIds, Absent, ForeignResource
<1>3. QED  BY <1>1, <1>2 DEF Init, OwnedInv, Known

\* With fresh reads and faults that a retry repairs, FreshInv holds in every state.
LEMMA FreshSafe == Spec => [](IndInv /\ FreshInv)
<1>1. IndInv => TypeInv /\ SafeInv
  BY DEF IndInv
<1>2. QED
  BY <1>1, IndInvSafe, InitFreshInv, NextFreshInv, PTL DEF Spec

\* Between reconciliations every resource a set owns is in its inventory, with
\* fresh reads and the faults that a retry repairs.
THEOREM OwnedSafe == Fresh => (Spec => []OwnedIsRecorded)
<1>1. Fresh /\ FreshInv => OwnedIsRecorded
  BY DEF FreshInv, OwnedInv, OwnedIsRecorded
<1>2. SUFFICES ASSUME Fresh PROVE Spec => []OwnedIsRecorded
  OBVIOUS
<1>3. FreshInv => OwnedIsRecorded
  BY <1>1, <1>2
<1>4. QED  BY <1>3, FreshSafe, PTL

\* A set that is gone has left no resource behind, under the same assumption.
THEOREM GoneSafe == Fresh => (Spec => []GoneLeavesNothing)
<1>1. SUFFICES ASSUME Fresh PROVE Spec => []GoneLeavesNothing
  OBVIOUS
<1>2. IndInv /\ FreshInv => GoneLeavesNothing
  <2>1. IndInv => \A s \in Sets : ~obj[s].exists => obj[s].inventory = {}
    BY DEF IndInv, SafeInv, GuardInv, WorkIsGuarded
  <2>2. FreshInv => OwnedIsRecorded
    BY <1>1 DEF FreshInv, OwnedInv, OwnedIsRecorded
  <2>3. QED  BY <2>1, <2>2 DEF OwnedIsRecorded, RecordedIds, GoneLeavesNothing
<1>3. QED  BY <1>2, FreshSafe, PTL

\* A step forgets entries of a set only when it has rendered it, or when the set goes.
LEMMA FailureKeeps ==
  ASSUME TypeInv, SafeInv, Fresh, OwnedInv, [Next]_vars, NEW s \in Sets,
         obj'[s].inventory # obj[s].inventory
  PROVE  job.outcome = "ok" \/ ~obj'[s].exists
<1>1. ASSUME NEW t \in Sets, NEW o \in SetObjects, Store(t, o), o.inventory = obj[t].inventory
      PROVE  FALSE
  BY <1>1, StoreNumbers
<1>2. ~UNCHANGED obj
  OBVIOUS
<1>3. ASSUME NEW t \in Sets, Store(t, Removed(obj[t])) PROVE ~obj'[s].exists
  <2>1. Removed(obj[t]) \in SetObjects /\ ~Removed(obj[t]).exists
    BY RemovedValues
  <2> HIDE DEF Removed
  <2>2. QED  BY <1>3, <2>1, StoreNumbers
<1>4. ASSUME NEW t \in Sets, Edit(t) PROVE FALSE
  BY <1>1, <1>4, EditEffect
<1>5. ASSUME NEW t \in Sets, CreateSet(t) PROVE FALSE
  <2>1. obj[t].inventory = {}
    BY <1>5, CreateEffect DEF SafeInv, GuardInv, WorkIsGuarded
  <2>2. QED  BY <1>1, <1>5, <2>1, CreateEffect
<1>6. ASSUME NEW t \in Sets, DeleteSet(t), ~obj[t].finalizer PROVE ~obj'[s].exists
  BY <1>3, <1>6, DropEffect
<1>7. CASE Users
  BY <1>2, <1>4, <1>5, <1>6, <1>7
  DEF Users, Edit, ChangeSource, UserCreateResource, UserDeleteResource, UserStep, server
<1>8. CASE AddFinalizer
  <2> DEFINE new == [obj[job.set] EXCEPT !.finalizer = TRUE]
  <2>1. new \in SetObjects /\ new.inventory = obj[job.set].inventory
    BY Parts DEF SetObjects
  <2>2. Store(job.set, new)
    BY <1>2, <1>8 DEF AddFinalizer, server
  <2> HIDE DEF new
  <2>3. QED  BY <1>1, <2>1, <2>2, Parts
<1>9. CASE RemoveFinalizer
  BY <1>2, <1>3, <1>9, Parts DEF RemoveFinalizer, server
<1>10. CASE PatchStatus
  <2>1. PICK o \in SetObjects :
          /\ (UNCHANGED <<obj, watch>> /\ obj[job.set] = o) \/ Store(job.set, o)
          /\ o.inventory = NewInventory(job)
    BY <1>10, FreshStatusEffect
  <2>2. Store(job.set, o)
    BY <1>2, <2>1
  <2>3. ASSUME job.outcome # "ok" PROVE FALSE
    <3>1. job.snap.inventory = obj[job.set].inventory
      BY <1>10, FreshStatusEffect DEF OwnedInv
    <3>2. QED  BY <1>1, <2>1, <2>2, <2>3, <3>1, Parts DEF NewInventory
  <2>4. QED  BY <2>3
<1>11. CASE \/ Crash \/ UNCHANGED vars
            \/ \E t \in Sets : Deliver(t) \/ TimerFire(t) \/ ClientFailure(t) \/ Begin(t)
  BY <1>2, <1>11
  DEF Crash, vars, Deliver, TimerFire, ClientFailure, Begin, SkipReconcile, BeginAddFinalizer,
      BeginFinalize, BeginRender, Take, server
<1>12. CASE \/ FinalizeOne \/ Render \/ GetExisting \/ PatchResource \/ CreateResource
            \/ EndApply \/ PruneOne \/ EndPrune \/ Unread
  BY <1>2, <1>12, UnreadWrites DEF FinalizeOne, Render, GetExisting, PatchResource,
     CreateResource, EndApply, PruneOne, EndPrune, server
<1>13. QED
  BY <1>7, <1>8, <1>9, <1>10, <1>11, <1>12 DEF Next, Worker, Unread

\* A rendering that fails or waits forgets no entry, under the same assumption.
THEOREM FailureSafe == Fresh => (Spec => FailureKeepsInventory)
<1>1. SUFFICES ASSUME Fresh PROVE Spec => FailureKeepsInventory
  OBVIOUS
<1>2. IndInv /\ FreshInv /\ [Next]_vars =>
        [\A s \in Sets : obj'[s].inventory # obj[s].inventory =>
           job.outcome = "ok" \/ ~obj'[s].exists]_vars
  BY <1>1, FailureKeeps DEF IndInv, FreshInv
<1>3. QED  BY <1>2, FreshSafe, PTL DEF Spec, FailureKeepsInventory
=============================================================================
