------------------------ MODULE GitOpsSetReconciler ------------------------
(***************************************************************************)
(* The reconcile loop of controllers/gitopsset_controller.go with what it  *)
(* runs against: the API server, the informer cache that serves the reads  *)
(* of GitOpsSets, the work queue, the users who edit the sets, and the     *)
(* sources the generators read.                                            *)
(*                                                                         *)
(* One worker takes one set at a time (`job`), and every call of           *)
(* it to the API server is a step of its own, so that users, the informer  *)
(* and a crash come between any two of them.  A GitOpsSet is read through  *)
(* the cache, which lags; generated resources are read and written on the  *)
(* server directly.                                                        *)
(***************************************************************************)
EXTENDS Integers, Sequences, FiniteSets

CONSTANTS
  Sets,         \* the names of GitOpsSets
  Ids,          \* identities (namespace, name, group, kind) of resources
  Unreadable,   \* identities that do not parse back from their reference
  Versions,     \* API versions a template may ask for
  Values,       \* contents of a resource
  Specs,        \* specs a user may give a set
  Data,         \* what the generators of a set may find
  Rendering,    \* what templates.Render returns for a spec and the data
  PolledSpecs,  \* specs with a PullRequests or an APIClient generator
  Preexisting,  \* resources in the cluster before any set is
  UserIds,      \* resources that users create and delete by hand
  Foreign,      \* the owner of a resource no set created
  Nobody,       \* the owner of an absent resource
  NoVal,        \* the contents of a resource no set has written
  Faults,       \* the <<operation, outcome>> pairs that may go wrong
  Crashes,      \* whether the controller may be restarted
  MaxStale,     \* bound: reads of the cache while it is behind
  MaxFaults,    \* bound: faults and crashes of a behaviour
  MaxUserOps    \* bound: steps of the users of a behaviour

\* A reference can be made of whatever is rendered, which is unstructured.
Refs == [id : Ids, ver : Versions]
Rendered == [ref : Refs, val : Values]
Renderings == [kind : {"ok", "noArtifact", "renderError"}, objs : Seq(Rendered)]
Operations == {"client", "finalizer", "get", "patch", "create", "delete", "status"}

ASSUME SetsAssumption ==
  /\ Sets # {} /\ Foreign \notin Sets /\ Nobody \notin Sets /\ Foreign # Nobody
  /\ NoVal \notin Values
ASSUME SpecsAssumption == Specs # {} /\ PolledSpecs \subseteq Specs
ASSUME RenderingAssumption == Rendering \in [Specs \X Data -> Renderings]
ASSUME IdsAssumption ==
  Preexisting \subseteq Ids /\ UserIds \subseteq Ids /\ Unreadable \subseteq Ids
ASSUME FaultsAssumption ==
  Faults \subseteq Operations \X {"refused", "lost"} /\ Crashes \in BOOLEAN
ASSUME BoundsAssumption ==
  MaxStale \in Nat /\ MaxFaults \in Nat /\ MaxUserOps \in Nat

Conditions == [ready : {"Unset", "True", "Waiting", "Failed"}, count : Nat]
Unset == [ready |-> "Unset", count |-> 0]

\* A GitOpsSet on the server.  `gen` goes on counting when a name is used
\* again, so that it also tells incarnations apart, as the uid does.
SetObjects ==
  [exists : BOOLEAN, rv : Nat, gen : Nat, spec : Specs, suspend : BOOLEAN,
   deleting : BOOLEAN, finalizer : BOOLEAN, requested : Nat,
   inventory : SUBSET Refs, cond : Conditions, observed : Nat, handled : Nat]

AnySpec == CHOOSE spec \in Specs : TRUE
NoSet ==
  [exists |-> FALSE, rv |-> 0, gen |-> 0, spec |-> AnySpec, suspend |-> FALSE,
   deleting |-> FALSE, finalizer |-> FALSE, requested |-> 0,
   inventory |-> {}, cond |-> Unset, observed |-> 0, handled |-> 0]

Resources == [owner : Sets \cup {Foreign, Nobody}, val : Values \cup {NoVal}]
Absent == [owner |-> Nobody, val |-> NoVal]
ForeignResource == [owner |-> Foreign, val |-> NoVal]

Phases == {"idle", "addFinalizer", "render", "apply", "patch", "create",
           "prune", "status", "finalize"}

\* The reconciliation in progress: the set and the copy of it read at the
\* start, the resources rendered and those still to apply, the entries of the
\* new inventory, the references still to delete, the resource read before a
\* patch, what Render returned, and whether some step failed.
Jobs ==
  [pc : Phases, set : Sets, snap : SetObjects,
   resources : Seq(Rendered), todo : Seq(Rendered),
   entries : SUBSET Refs, remove : SUBSET Refs, got : Resources,
   outcome : {"ok", "noArtifact", "renderError"}, failed : BOOLEAN]

Idle ==
  [pc |-> "idle", set |-> CHOOSE s \in Sets : TRUE, snap |-> NoSet,
   resources |-> <<>>, todo |-> <<>>, entries |-> {}, remove |-> {}, got |-> Absent,
   outcome |-> "ok", failed |-> FALSE]

VARIABLES
  obj,      \* the GitOpsSets on the API server
  watch,    \* the versions of each set the informer has not received yet
  cache,    \* the GitOpsSets in the informer's cache
  data,     \* what the sources of each set hold
  cluster,  \* the generated and other resources on the API server
  queue,    \* the work queue
  timer,    \* the sets that asked to be reconciled again after an interval
  job,      \* what the worker is doing
  stale,    \* how many reads of the cache were behind
  faults,   \* how many faults have happened
  userOps   \* how many steps the users have taken

server == <<obj, watch>>
vars == <<obj, watch, cache, data, cluster, queue, timer, job, stale, faults, userOps>>

TypeOK ==
  /\ obj \in [Sets -> SetObjects]
  /\ watch \in [Sets -> SUBSET SetObjects]
  /\ cache \in [Sets -> SetObjects]
  /\ data \in [Sets -> Data]
  /\ cluster \in [Ids -> Resources]
  /\ queue \subseteq Sets
  /\ timer \subseteq Sets
  /\ job \in Jobs
  /\ stale \in 0 .. MaxStale
  /\ faults \in 0 .. MaxFaults
  /\ userOps \in 0 .. MaxUserOps

Init ==
  /\ obj = [s \in Sets |-> NoSet]
  /\ watch = [s \in Sets |-> {}]
  /\ cache = [s \in Sets |-> NoSet]
  /\ data \in [Sets -> Data]
  /\ cluster = [id \in Ids |-> IF id \in Preexisting THEN ForeignResource ELSE Absent]
  /\ queue = {}
  /\ timer = {}
  /\ job = Idle
  /\ stale = 0
  /\ faults = 0
  /\ userOps = 0

-----------------------------------------------------------------------------
(* The API server and the informer. *)

\* A write of set s gives it a new version, which the informer has yet to see.
Store(s, o) ==
  LET new == [o EXCEPT !.rv = obj[s].rv + 1] IN
  /\ obj' = [obj EXCEPT ![s] = new]
  /\ watch' = [watch EXCEPT ![s] = @ \cup {new}]

Removed(o) == [NoSet EXCEPT !.gen = o.gen]

\* Mutation: an Update that does not compare versions.
CurrentUnchecked(o, s) == obj[s].exists

\* An Update goes through when its copy is the current version.
Current(o, s) == obj[s].exists /\ obj[s].rv = o.rv

\* What may become of a call: done, refused, or done with the answer lost.
Outcomes(op) ==
  {out \in {"ok", "refused", "lost"} :
     out = "ok" \/ (faults < MaxFaults /\ <<op, out>> \in Faults)}
Count(out) == faults' = IF out = "ok" THEN faults ELSE faults + 1

\* The worker reads s from the cache, which may be behind.
ReadCache(s) ==
  \/ watch[s] = {} /\ UNCHANGED stale
  \/ watch[s] # {} /\ stale < MaxStale /\ stale' = stale + 1

\* Mutations: a watch that passes creations and deletions only, and one that
\* ignores the reconcile request.
TriggersOnExistence(old, new) == old.exists # new.exists
TriggersOnGeneration(old, new) == old.exists # new.exists \/ old.gen # new.gen

\* The predicates of the watch on GitOpsSets: creations and deletions pass,
\* and updates that change the generation or the reconcile request.
Triggers(old, new) ==
  \/ old.exists # new.exists
  \/ new.exists /\ old.gen # new.gen
  \/ new.exists /\ new.requested # 0 /\ old.requested # new.requested

\* The informer receives a version of s, or lists again and skips some.
Deliver(s) ==
  /\ \E o \in watch[s] :
       /\ cache' = [cache EXCEPT ![s] = o]
       /\ watch' = [watch EXCEPT ![s] = {w \in @ : w.rv > o.rv}]
       /\ queue' = IF Triggers(cache[s], o) THEN queue \cup {s} ELSE queue
  /\ UNCHANGED <<obj, data, cluster, timer, job, stale, faults, userOps>>

-----------------------------------------------------------------------------
(* The users, and the sources of the generators. *)

UserStep ==
  /\ userOps < MaxUserOps
  /\ userOps' = userOps + 1
  /\ UNCHANGED <<timer, job, stale, faults>>

EditSet(s, o) ==
  /\ UserStep
  /\ Store(s, o)
  /\ UNCHANGED <<cache, data, cluster, queue>>

CreateSet(s) ==
  /\ ~obj[s].exists
  /\ \E spec \in Specs, suspend \in BOOLEAN :
       EditSet(s, [NoSet EXCEPT !.exists = TRUE, !.spec = spec,
                                !.suspend = suspend, !.gen = obj[s].gen + 1])

EditSpec(s) ==
  /\ obj[s].exists
  /\ \E spec \in Specs \ {obj[s].spec} :
       EditSet(s, [obj[s] EXCEPT !.spec = spec, !.gen = @ + 1])

ToggleSuspend(s) ==
  /\ obj[s].exists
  /\ EditSet(s, [obj[s] EXCEPT !.suspend = ~@, !.gen = @ + 1])

RequestReconcile(s) ==
  /\ obj[s].exists
  /\ EditSet(s, [obj[s] EXCEPT !.requested = @ + 1])

\* A set with a finalizer is only marked.
DeleteSet(s) ==
  /\ obj[s].exists /\ ~obj[s].deleting
  /\ IF obj[s].finalizer
     THEN EditSet(s, [obj[s] EXCEPT !.deleting = TRUE, !.gen = @ + 1])
     ELSE EditSet(s, Removed(obj[s]))

\* A source changes; its watch enqueues the sets the index finds, except when
\* the generator is one that polls.
ChangeSource(s) ==
  /\ UserStep
  /\ \E d \in Data \ {data[s]} : data' = [data EXCEPT ![s] = d]
  /\ queue' = IF cache[s].exists /\ cache[s].spec \notin PolledSpecs
              THEN queue \cup {s} ELSE queue
  /\ UNCHANGED <<server, cache, cluster>>

UserCreateResource(id) ==
  /\ UserStep
  /\ cluster[id] = Absent
  /\ cluster' = [cluster EXCEPT ![id] = ForeignResource]
  /\ UNCHANGED <<server, cache, data, queue>>

UserDeleteResource(id) ==
  /\ UserStep
  /\ cluster[id] # Absent
  /\ cluster' = [cluster EXCEPT ![id] = Absent]
  /\ UNCHANGED <<server, cache, data, queue>>

Users ==
  \/ \E s \in Sets : \/ CreateSet(s) \/ EditSpec(s) \/ ToggleSuspend(s)
                     \/ RequestReconcile(s) \/ DeleteSet(s) \/ ChangeSource(s)
  \/ \E id \in UserIds : UserCreateResource(id) \/ UserDeleteResource(id)

-----------------------------------------------------------------------------
(* Reconcile: the reads and checks before any work on a set. *)

\* The worker takes s off the queue and reads it from the cache.
Take(s) ==
  /\ job.pc = "idle"
  /\ s \in queue
  /\ ReadCache(s)
  /\ queue' = queue \ {s}
  /\ UNCHANGED <<server, cache, data, cluster, timer, userOps>>

Skips(o) == ~o.exists \/ (o.finalizer /\ o.suspend)

\* Mutation: work starts before the finalizer is there.
WorksUnguarded(o) == o.exists /\ ~o.suspend
Works(o) == o.exists /\ o.finalizer /\ ~o.suspend

SkipReconcile(s) ==
  /\ Skips(cache[s])
  /\ Take(s)
  /\ UNCHANGED <<job, faults>>

BeginAddFinalizer(s) ==
  /\ cache[s].exists /\ ~cache[s].finalizer
  /\ Take(s)
  /\ job' = [Idle EXCEPT !.pc = "addFinalizer", !.set = s, !.snap = cache[s]]
  /\ UNCHANGED faults

BeginFinalize(s) ==
  /\ Works(cache[s]) /\ cache[s].deleting
  /\ Take(s)
  /\ job' = [Idle EXCEPT !.pc = "finalize", !.set = s, !.snap = cache[s],
                         !.remove = cache[s].inventory]
  /\ UNCHANGED faults

\* The status of the copy acknowledges the request before any work is done.
Acknowledged(o) == [o EXCEPT !.handled = IF o.requested # 0 THEN o.requested ELSE @]

BeginRender(s) ==
  /\ Works(cache[s]) /\ ~cache[s].deleting
  /\ Take(s)
  /\ job' = [Idle EXCEPT !.pc = "render", !.set = s, !.snap = Acknowledged(cache[s])]
  /\ UNCHANGED faults

\* No client for the service account: the set goes back to the queue.
ClientFailure(s) ==
  /\ job.pc = "idle" /\ s \in queue /\ ReadCache(s)
  /\ Works(cache[s])
  /\ \E out \in Outcomes("client") \ {"ok"} : Count(out)
  /\ UNCHANGED <<server, cache, data, cluster, queue, timer, job, userOps>>

\* Mutation: a failed reconciliation is forgotten.
RetryNever == job' = Idle /\ UNCHANGED queue

\* The reconciliation ends, with the set back in the queue or not.
Retry == job' = Idle /\ queue' = queue \cup {job.set}
Finish == job' = Idle /\ UNCHANGED queue

AddFinalizer ==
  /\ job.pc = "addFinalizer"
  /\ \E out \in Outcomes("finalizer") :
       /\ Count(out)
       /\ IF out # "refused" /\ Current(job.snap, job.set)
          THEN Store(job.set, [obj[job.set] EXCEPT !.finalizer = TRUE])
          ELSE UNCHANGED server
  /\ Retry
  /\ UNCHANGED <<cache, data, cluster, timer, stale, userOps>>

-----------------------------------------------------------------------------
(* finalize: delete what the copy's inventory names, then let the set go. *)

Delete(id) == cluster' = [cluster EXCEPT ![id] = Absent]

\* An inventory keeps identities as strings joined by "_", and a name that holds
\* one itself, as those of roles may, does not parse back.
Readable(ref) == ref.id \notin Unreadable

FinalizeOne ==
  /\ job.pc = "finalize"
  /\ \E ref \in job.remove, out \in Outcomes("delete") :
       /\ Readable(ref)
       /\ Count(out)
       /\ IF out # "refused" THEN Delete(ref.id) ELSE UNCHANGED cluster
       /\ IF out = "ok"
          THEN job' = [job EXCEPT !.remove = @ \ {ref}] /\ UNCHANGED queue
          ELSE Retry
  /\ UNCHANGED <<server, cache, data, timer, stale, userOps>>

\* A reference that cannot be read ends the pass, now and at each retry.
FinalizeUnreadable ==
  /\ job.pc = "finalize"
  /\ \E ref \in job.remove : ~Readable(ref)
  /\ Retry
  /\ UNCHANGED <<server, cache, data, cluster, timer, stale, faults, userOps>>

RemoveFinalizer ==
  /\ job.pc = "finalize" /\ job.remove = {}
  /\ \E out \in Outcomes("finalizer") :
       /\ Count(out)
       /\ IF out # "refused" /\ Current(job.snap, job.set)
          THEN Store(job.set, Removed(obj[job.set]))
          ELSE UNCHANGED server
       /\ IF out = "ok" /\ Current(job.snap, job.set) THEN Finish ELSE Retry
  /\ UNCHANGED <<cache, data, cluster, timer, stale, userOps>>

-----------------------------------------------------------------------------
(* renderAndReconcile: apply each rendered resource, then delete the rest. *)

Render ==
  /\ job.pc = "render"
  /\ LET r == Rendering[job.snap.spec, data[job.set]] IN
     job' = IF r.kind = "ok"
            THEN [job EXCEPT !.pc = "apply", !.resources = r.objs, !.todo = r.objs]
            ELSE [job EXCEPT !.pc = "status", !.outcome = r.kind]
  /\ UNCHANGED <<server, cache, data, cluster, queue, timer, stale, faults, userOps>>

Next1(j) == [j EXCEPT !.pc = "apply", !.todo = Tail(@), !.got = Absent]

\* Mutation: a reference is recorded though its Create failed.
FailedRecorded(j) ==
  Next1([j EXCEPT !.failed = TRUE, !.entries = @ \cup {Head(j.todo).ref}])

Applied(j) == Next1([j EXCEPT !.entries = @ \cup {Head(j.todo).ref}])
Failed(j) == Next1([j EXCEPT !.failed = TRUE])

\* Mutation: an existing resource is not kept.
KeepNothing(j, ref) == j

\* A resource of the old inventory stays in the new one, whatever comes of
\* reading or patching it.
Keep(j, ref) == [j EXCEPT !.entries = @ \cup {ref}]

\* Unless its reference cannot be read: then it is neither kept nor patched.
GetUnreadable ==
  /\ job.pc = "apply" /\ job.todo # <<>>
  /\ Head(job.todo).ref \in job.snap.inventory /\ ~Readable(Head(job.todo).ref)
  /\ job' = Failed(job)
  /\ UNCHANGED <<server, cache, data, cluster, queue, timer, stale, faults, userOps>>

GetExisting ==
  /\ job.pc = "apply" /\ job.todo # <<>>
  /\ LET ref == Head(job.todo).ref
         kept == Keep(job, ref)
     IN
     /\ ref \in job.snap.inventory /\ Readable(ref)
     /\ \E out \in Outcomes("get") :
          /\ Count(out)
          /\ job' = IF out # "ok" THEN Failed(kept)
                    ELSE IF cluster[ref.id] = Absent THEN [kept EXCEPT !.pc = "create"]
                    ELSE [kept EXCEPT !.pc = "patch", !.got = cluster[ref.id]]
  /\ UNCHANGED <<server, cache, data, cluster, queue, timer, stale, userOps>>

\* A merge patch carries the fields in which the rendered resource differs
\* from the one that was read.
Merged(current, got, s, val) ==
  [owner |-> IF got.owner # s THEN s ELSE current.owner,
   val |-> IF got.val # val THEN val ELSE current.val]

PatchResource ==
  /\ job.pc = "patch"
  /\ LET new == Head(job.todo)
         id == new.ref.id
     IN
     \E out \in Outcomes("patch") :
       /\ Count(out)
       /\ cluster' = IF out = "refused" \/ cluster[id] = Absent THEN cluster
                     ELSE [cluster EXCEPT ![id] = Merged(@, job.got, job.set, new.val)]
       /\ job' = IF out = "ok" /\ cluster[id] # Absent THEN Next1(job) ELSE Failed(job)
  /\ UNCHANGED <<server, cache, data, queue, timer, stale, userOps>>

MayCreate(ref) ==
  \/ job.pc = "create"
  \/ job.pc = "apply" /\ ref \notin job.snap.inventory

\* An object that is there already is an error, and is not taken over.
CreateResource ==
  /\ job.todo # <<>>
  /\ LET new == Head(job.todo)
         id == new.ref.id
     IN
     /\ MayCreate(new.ref)
     /\ \E out \in Outcomes("create") :
          /\ Count(out)
          /\ cluster' = IF out = "refused" \/ cluster[id] # Absent THEN cluster
                        ELSE [cluster EXCEPT ![id] = [owner |-> job.set, val |-> new.val]]
          /\ job' = IF out = "ok" /\ cluster[id] = Absent THEN Applied(job) ELSE Failed(job)
  /\ UNCHANGED <<server, cache, data, queue, timer, stale, userOps>>

EndApply ==
  /\ job.pc = "apply" /\ job.todo = <<>>
  /\ job' = [job EXCEPT !.pc = "prune", !.remove = job.snap.inventory \ job.entries]
  /\ UNCHANGED <<server, cache, data, cluster, queue, timer, stale, faults, userOps>>

\* The first delete that fails ends the pruning.
PruneOne ==
  /\ job.pc = "prune"
  /\ \E ref \in job.remove, out \in Outcomes("delete") :
       /\ Readable(ref)
       /\ Count(out)
       /\ IF out # "refused" THEN Delete(ref.id) ELSE UNCHANGED cluster
       /\ job' = IF out = "ok" THEN [job EXCEPT !.remove = @ \ {ref}]
                 ELSE [job EXCEPT !.remove = {}, !.failed = TRUE]
  /\ UNCHANGED <<server, cache, data, queue, timer, stale, userOps>>

\* So does the first reference that cannot be read.
PruneUnreadable ==
  /\ job.pc = "prune"
  /\ \E ref \in job.remove : ~Readable(ref)
  /\ job' = [job EXCEPT !.remove = {}, !.failed = TRUE]
  /\ UNCHANGED <<server, cache, data, cluster, queue, timer, stale, faults, userOps>>

EndPrune ==
  /\ job.pc = "prune" /\ job.remove = {}
  /\ job' = [job EXCEPT !.pc = "status"]
  /\ UNCHANGED <<server, cache, data, cluster, queue, timer, stale, faults, userOps>>

-----------------------------------------------------------------------------
(* SetGitOpsSetReadiness and patchStatus. *)

Outcome(j) == IF j.outcome = "ok" /\ j.failed THEN "applyError" ELSE j.outcome

\* Mutations: what was applied is recorded only when all of it succeeded, and
\* a rendering that failed empties the inventory.
NewInventoryOnSuccess(j) == IF Outcome(j) = "ok" THEN j.entries ELSE j.snap.inventory
NewInventoryAlways(j) == j.entries

\* Nothing is recorded of a rendering that failed: the copy's inventory stays.
NewInventory(j) == IF j.outcome = "ok" THEN j.entries ELSE j.snap.inventory

\* Mutation: Ready counts what is recorded now and was not before.
NewConditionCreated(j) ==
  IF Outcome(j) = "ok"
  THEN [ready |-> "True", count |-> Cardinality(j.entries) - Cardinality(j.snap.inventory)]
  ELSE [ready |-> IF j.outcome = "noArtifact" THEN "Waiting" ELSE "Failed", count |-> 0]

NewCondition(j) ==
  CASE Outcome(j) = "ok" -> [ready |-> "True", count |-> Cardinality(j.entries)]
    [] Outcome(j) = "noArtifact" -> [ready |-> "Waiting", count |-> 0]
    [] OTHER -> [ready |-> "Failed", count |-> 0]

\* Mutations: the generation is observed only on success, and taken from the set
\* as it is when the status is written.
NewStatusOnSuccess(j) ==
  [j.snap EXCEPT !.inventory = NewInventory(j), !.cond = NewCondition(j),
                 !.observed = IF Outcome(j) = "ok" THEN j.snap.gen ELSE @]
NewStatusLater(j) ==
  [j.snap EXCEPT !.inventory = NewInventory(j), !.cond = NewCondition(j),
                 !.observed = cache[j.set].gen]

NewStatus(j) ==
  [j.snap EXCEPT !.inventory = NewInventory(j), !.cond = NewCondition(j),
                 !.observed = j.snap.gen]

\* The merge patch carries the fields of the status that differ from `base`,
\* the cached set.  Two failures may differ in their message only; `reworded`
\* says so.
Patched(current, base, new, reworded) ==
  [current EXCEPT
     !.inventory = IF new.inventory # base.inventory THEN new.inventory ELSE @,
     !.cond = IF new.cond # base.cond \/ reworded THEN new.cond ELSE @,
     !.observed = IF new.observed # base.observed THEN new.observed ELSE @,
     !.handled = IF new.handled # base.handled THEN new.handled ELSE @]

\* A patch that changes nothing makes no new version.
StoreStatus(s, new, reworded) ==
  LET patched == Patched(obj[s], cache[s], new, reworded) IN
  IF patched = obj[s] THEN UNCHANGED server ELSE Store(s, patched)

\* Mutation: no failure sends the set back to the queue.
AfterStatusFinish(written) == Finish /\ UNCHANGED timer

\* A failure to record that an artifact is missing is only logged.  Every
\* other failure sends the set back to the queue, and a polled set is also
\* reconciled again after its interval.
AfterStatus(written) ==
  LET s == job.set IN
  CASE Outcome(job) = "noArtifact" -> Finish /\ UNCHANGED timer
    [] Outcome(job) = "ok" /\ written ->
         /\ Finish
         /\ timer' = IF job.snap.spec \in PolledSpecs THEN timer \cup {s} ELSE timer
    [] OTHER -> Retry /\ UNCHANGED timer

PatchStatus ==
  /\ job.pc = "status"
  /\ ReadCache(job.set)
  /\ LET s == job.set
         found == cache[s].exists /\ obj[s].exists
     IN
     \E out \in Outcomes("status"), reworded \in BOOLEAN :
       /\ reworded => NewCondition(job).ready = "Failed"
       /\ Count(out)
       /\ IF out # "refused" /\ found
          THEN StoreStatus(s, NewStatus(job), reworded)
          ELSE UNCHANGED server
       /\ AfterStatus(out = "ok" /\ found)
  /\ UNCHANGED <<cache, data, cluster, userOps>>

-----------------------------------------------------------------------------
(* The manager: requeues after an interval, and restarts. *)

TimerFire(s) ==
  /\ s \in timer
  /\ timer' = timer \ {s}
  /\ queue' = queue \cup {s}
  /\ UNCHANGED <<server, cache, data, cluster, job, stale, faults, userOps>>

\* The process stops anywhere; the next one lists the sets and enqueues them.
Crash ==
  /\ Crashes /\ faults < MaxFaults
  /\ faults' = faults + 1
  /\ job' = Idle
  /\ cache' = obj
  /\ watch' = [s \in Sets |-> {}]
  /\ queue' = {s \in Sets : obj[s].exists}
  /\ timer' = {}
  /\ UNCHANGED <<obj, data, cluster, stale, userOps>>

Begin(s) ==
  SkipReconcile(s) \/ BeginAddFinalizer(s) \/ BeginFinalize(s) \/ BeginRender(s)

Worker ==
  \/ AddFinalizer \/ FinalizeOne \/ FinalizeUnreadable \/ RemoveFinalizer
  \/ Render \/ GetExisting \/ GetUnreadable \/ PatchResource \/ CreateResource
  \/ EndApply \/ PruneOne \/ PruneUnreadable \/ EndPrune \/ PatchStatus

Next ==
  \/ \E s \in Sets : Deliver(s) \/ TimerFire(s) \/ Begin(s) \/ ClientFailure(s)
  \/ Worker
  \/ Crash
  \/ Users

Spec == Init /\ [][Next]_vars

\* The informer, the timers and the worker go on; the queue is first in,
\* first out, so that no set waits for ever.  Users and crashes need not.
Fairness ==
  /\ \A s \in Sets : WF_vars(Deliver(s)) /\ WF_vars(TimerFire(s)) /\ SF_vars(Begin(s))
  /\ WF_vars(Worker)

FairSpec == Spec /\ Fairness

-----------------------------------------------------------------------------
(* Properties under every fault, restart and stale read. *)

\* A resource that was in the cluster before any set, and that no user
\* deletes, is never written or deleted: a Create that finds it fails, and
\* only what a Create made enters an inventory.
ForeignUntouched ==
  \A id \in Preexisting \ UserIds : cluster[id] = ForeignResource

\* Whatever a set has recorded, or a reconciliation of it is about to apply,
\* prune or record, the set is there and holds the finalizer, even when the
\* copy that is being worked on is old.
WorkIsGuarded ==
  /\ job.pc \in {"render", "apply", "patch", "create", "prune", "status"} =>
       obj[job.set].exists /\ obj[job.set].finalizer
  /\ \A s \in Sets : obj[s].inventory # {} => obj[s].exists /\ obj[s].finalizer

\* A set goes away only when nothing its last inventory names is left with it,
\* whichever deletes failed and were retried on the way.
FinalizeRemovesRecorded ==
  [][\A s \in Sets : obj[s].exists /\ ~obj'[s].exists =>
       \A ref \in obj[s].inventory : cluster'[ref.id].owner # s]_vars

\* The observed generation and the handled request of a set never go back,
\* though the status is written without a check of its version from a copy
\* that may be old, and never run ahead of the set.
StatusAdvances ==
  /\ [][\A s \in Sets : obj'[s].exists =>
          obj'[s].observed >= obj[s].observed /\ obj'[s].handled >= obj[s].handled]_vars
  /\ [](\A s \in Sets : obj[s].observed <= obj[s].gen /\ obj[s].handled <= obj[s].requested)

\* Pruning deletes no resource that this very reconciliation rendered, even when
\* reading or patching it failed.  References hold a version and resources do not,
\* so this is for templates that leave the versions of resources as they are.
PruneSparesRendered ==
  [][job.pc = "prune" /\ UNCHANGED userOps =>
       \A n \in DOMAIN job.resources :
         LET id == job.resources[n].ref.id IN cluster'[id] = cluster[id]]_vars

-----------------------------------------------------------------------------
(* Properties of fresh reads, with only the faults the code recovers from. *)

RecordedIds(s) == {ref.id : ref \in obj[s].inventory}
OwnedIds(s) == {id \in Ids : cluster[id].owner = s}

\* Between reconciliations the inventory names every resource the set owns.
OwnedIsRecorded ==
  job.pc = "idle" => \A s \in Sets : OwnedIds(s) \subseteq RecordedIds(s)

RefsOf(r) == {r.objs[n].ref : n \in DOMAIN r.objs}

\* A set that is Ready for its generation records exactly what its spec
\* renders for some state of its sources.
ReadyIsTruthful ==
  \A s \in Sets :
    obj[s].cond.ready = "True" /\ obj[s].observed = obj[s].gen =>
      \E d \in Data :
        /\ Rendering[obj[s].spec, d].kind = "ok"
        /\ obj[s].inventory = RefsOf(Rendering[obj[s].spec, d])
        /\ obj[s].cond.count = Cardinality(obj[s].inventory)

\* A rendering that fails, or waits for an artifact, forgets no entry.
FailureKeepsInventory ==
  [][\A s \in Sets : obj'[s].inventory # obj[s].inventory =>
       job.outcome = "ok" \/ ~obj'[s].exists]_vars

\* Nothing is left to do: no work queued, running, waiting or undelivered.
Settled(s) ==
  /\ job.pc = "idle" /\ s \notin queue \cup timer /\ watch[s] = {}
  /\ obj[s].exists /\ ~obj[s].suspend

\* When nothing is left to do for a set, it owns what its spec renders for the
\* sources as they are, with those contents, and nothing else.
SettledIsClean ==
  \A s \in Sets : Settled(s) =>
    LET r == Rendering[obj[s].spec, data[s]] IN
    r.kind = "ok" =>
      /\ OwnedIds(s) = {ref.id : ref \in RefsOf(r)}
      /\ \A n \in DOMAIN r.objs : cluster[r.objs[n].ref.id].val = r.objs[n].val

\* Once a set is gone, no resource of it is left.
GoneLeavesNothing ==
  job.pc = "idle" => \A s \in Sets : ~obj[s].exists => OwnedIds(s) = {}

-----------------------------------------------------------------------------
(* Liveness. *)

\* Every set ends up owning what its spec renders, unless it is suspended,
\* deleted or waits for something it cannot have.
Blocked(s) ==
  LET r == Rendering[obj[s].spec, data[s]] IN
  \/ ~obj[s].exists \/ obj[s].suspend \/ r.kind # "ok"
  \/ \E ref \in RefsOf(r) : cluster[ref.id].owner \notin {s, Nobody}

Converges ==
  \A s \in Sets :
    <>[](\/ Blocked(s)
         \/ OwnedIds(s) = {ref.id : ref \in RefsOf(Rendering[obj[s].spec, data[s]])})

\* A set that is deleted goes away, unless it is suspended.
DeletionCompletes ==
  \A s \in Sets : obj[s].deleting ~> ~obj[s].deleting \/ obj[s].suspend

\* A request to reconcile is acknowledged, unless the set is suspended or
\* deleted.
RequestsAreHandled ==
  \A s \in Sets :
    obj[s].requested # obj[s].handled ~>
      obj[s].requested = obj[s].handled \/ obj[s].suspend \/ obj[s].deleting
=============================================================================
