--------------------------- MODULE WatchTriggers ---------------------------
(***************************************************************************)
(* The watches, indexes and intervals that bring a GitOpsSet to the queue: *)
(* SetupWithManager, the map functions and the indexers, and               *)
(* calculateInterval, of controllers/gitopsset_controller.go, with the     *)
(* reads of the generators under pkg/generators.                           *)
(*                                                                         *)
(* Everything here is read from the caches of informers, so the caches are *)
(* the state: a change is a change that an informer received.  Its event   *)
(* is handled later, apart from the events of other informers, and a       *)
(* reconciliation reads its sources one by one in between.                 *)
(***************************************************************************)
EXTENDS Integers, FiniteSets

CONSTANTS
  Sets,           \* GitOpsSets
  Namespaces,
  NamespaceOf,    \* the namespace of each set
  Names,          \* names of sources
  Sources,        \* the sources that may be there: [kind, ns, name]
  Versions,       \* contents of a source
  Clusters,       \* GitopsClusters
  ClusterStates,  \* labels and annotations of a cluster
  Selectors,      \* label selectors
  Matching,       \* the pairs <<selector, state>> that match
  NoSelector,     \* the empty selector
  NoCluster,      \* the state of a cluster that is not there
  Missing,        \* the state of a source that is not there
  Waiting,        \* the state of a source without an artifact or an image yet
  Specs,          \* specs of sets
  NoSpec,         \* the spec of a set that is not there
  Enabled,        \* the generators enabled in the controller
  MaxOps          \* bound: changes and restarts of a behaviour

SourceKinds == {"GitRepository", "OCIRepository", "ImagePolicy", "ConfigMap", "Secret"}
PolledKinds == {"PullRequests", "APIClient"}

\* What a generator of one kind refers to: a source by name, clusters by
\* selector, or an external service to ask again after an interval.
Leaves == [kind : SourceKinds, ref : Names]
          \cup [kind : {"Cluster"}, ref : Selectors]
          \cup [kind : PolledKinds, ref : Nat]

\* A generator of a spec: the generators named in it and those in its matrix.
Generators == [top : SUBSET Leaves, matrix : SUBSET Leaves]

AllSources == [kind : SourceKinds, ns : Namespaces, name : Names]
SourceStates == {Missing, Waiting} \cup Versions

ASSUME NamesAssumption ==
  /\ Sets # {} /\ NamespaceOf \in [Sets -> Namespaces]
  /\ Sources \subseteq AllSources
  /\ NoSelector \in Selectors /\ NoCluster \notin ClusterStates
  /\ Missing # Waiting /\ Versions \cap {Missing, Waiting} = {}
ASSUME SpecsAssumption ==
  /\ Specs \subseteq [suspend : BOOLEAN, generators : SUBSET Generators]
  /\ NoSpec \notin Specs
ASSUME BoundAssumption == MaxOps \in Nat

LeavesOf(spec) == UNION {g.top \cup g.matrix : g \in spec.generators}

VARIABLES
  sets,      \* the sets in the cache
  sources,   \* the sources in the cache
  clusters,  \* the clusters in the cache
  events,    \* what informers have received and handlers have not handled
  queue,     \* the work queue
  timer,     \* the interval a set is due after, 0 for none
  job,       \* the reconciliation in progress
  seen,      \* what the last rendering of each set read
  ops        \* how many changes have happened

vars == <<sets, sources, clusters, events, queue, timer, job, seen, ops>>
inputs == <<sets, sources, clusters>>

Active(spec) == spec # NoSpec /\ ~spec.suspend

-----------------------------------------------------------------------------
(* What the generators read. *)

\* The List of the Cluster generator: an empty selector selects everything.
Selects(selector, state) == selector = NoSelector \/ <<selector, state>> \in Matching

Selected(selector) ==
  {c \in Clusters : clusters[c] # NoCluster /\ Selects(selector, clusters[c])}

SourceOf(s, leaf) == [kind |-> leaf.kind, ns |-> NamespaceOf[s], name |-> leaf.ref]

\* What a generator finds: a source of the namespace of the set, the selected
\* clusters, or the answer of a service, which is not watched.
Value(s, leaf) ==
  IF leaf.kind \in SourceKinds
  THEN IF SourceOf(s, leaf) \in Sources THEN sources[SourceOf(s, leaf)] ELSE Missing
  ELSE IF leaf.kind = "Cluster" THEN {<<c, clusters[c]>> : c \in Selected(leaf.ref)}
  ELSE "answer"

GeneratorOf(kind) == IF kind \in {"ConfigMap", "Secret"} THEN "Config" ELSE kind

\* A generator that is not enabled is an error, in a matrix too.
Usable(spec, leaf) ==
  /\ GeneratorOf(leaf.kind) \in Enabled
  /\ \A g \in spec.generators : g.matrix # {} => "Matrix" \in Enabled

-----------------------------------------------------------------------------
(* Which sets an event enqueues. *)

\* Mutation: the references of matrix generators are not indexed.
IndexedTop(spec, kind) ==
  {leaf.ref : leaf \in {l \in UNION {g.top : g \in spec.generators} : l.kind = kind}}

\* The indexers take a generator and its matrix, but the one of ImagePolicies
\* leaves a matrix out when there is an ImagePolicy next to it.
Skipped(g, kind) == kind = "ImagePolicy" /\ \E leaf \in g.top : leaf.kind = kind

Indexed(spec, kind) ==
  {leaf.ref : leaf \in
     {l \in UNION {g.top \cup (IF Skipped(g, kind) THEN {} ELSE g.matrix) :
                     g \in spec.generators} : l.kind = kind}}

\* queryIndexedGitOpsSets
Referring(source) ==
  {s \in Sets : /\ sets[s] # NoSpec /\ NamespaceOf[s] = source.ns
                /\ source.name \in Indexed(sets[s], source.kind)}

\* selectorMatchesCluster, for which an empty selector matches nothing.
Triggered(selector, state) ==
  selector # NoSelector /\ state # NoCluster /\ Selects(selector, state)

\* gitOpsClusterToGitOpsSet, called with the cluster as it was and as it is.
Matched(states) ==
  {s \in Sets : /\ sets[s] # NoSpec
                /\ \E leaf \in LeavesOf(sets[s]), state \in states :
                     leaf.kind = "Cluster" /\ Triggered(leaf.ref, state)}

\* Mutation: the other watches are not set up.
WatchedAlways(kind) == kind \in {"GitRepository", "Secret"}

\* The watches that are set up whatever generators are enabled, and the others.
Watched(kind) == kind \in {"GitRepository", "Secret"} \/ GeneratorOf(kind) \in Enabled

Enqueued(e) ==
  {s \in Sets :
     \/ e.on = "set" /\ s = e.set
     \/ e.on = "source" /\ Watched(e.source.kind) /\ s \in Referring(e.source)
     \/ e.on = "cluster" /\ Watched("Cluster") /\ s \in Matched(e.states)}

Events == [on : {"set"}, set : Sets] \cup [on : {"source"}, source : Sources]
          \cup [on : {"cluster"}, states : SUBSET (ClusterStates \cup {NoCluster})]

Handle(e) ==
  /\ e \in events
  /\ events' = events \ {e}
  /\ queue' = queue \cup Enqueued(e)
  /\ UNCHANGED <<inputs, timer, job, seen, ops>>

-----------------------------------------------------------------------------
(* Changes that the informers receive. *)

Change(e) ==
  /\ ops < MaxOps
  /\ ops' = ops + 1
  /\ events' = events \cup {e}
  /\ UNCHANGED <<queue, timer, job, seen>>

\* Every change of a spec changes the generation, and passes the predicates.
ChangeSet(s) ==
  /\ \E spec \in (Specs \cup {NoSpec}) \ {sets[s]} : sets' = [sets EXCEPT ![s] = spec]
  /\ Change([on |-> "set", set |-> s])
  /\ UNCHANGED <<sources, clusters>>

CanWait(source) == source.kind \notin {"ConfigMap", "Secret"}

ChangeSource(source) ==
  /\ \E v \in SourceStates \ {sources[source]} :
       /\ v = Waiting => CanWait(source)
       /\ sources' = [sources EXCEPT ![source] = v]
  /\ Change([on |-> "source", source |-> source])
  /\ UNCHANGED <<sets, clusters>>

ChangeCluster(c) ==
  \E v \in (ClusterStates \cup {NoCluster}) \ {clusters[c]} :
    /\ clusters' = [clusters EXCEPT ![c] = v]
    /\ Change([on |-> "cluster", states |-> {clusters[c], v}])
    /\ UNCHANGED <<sets, sources>>

-----------------------------------------------------------------------------
(* The reconciliation, as far as the queue is concerned. *)

Idle == [set |-> CHOOSE s \in Sets : TRUE, spec |-> NoSpec, reads |-> <<>>]
Nothing == [spec |-> NoSpec, reads |-> <<>>]

\* A set that is not there, or suspended, is left alone.
Skip(s) ==
  /\ job.spec = NoSpec /\ s \in queue /\ ~Active(sets[s])
  /\ queue' = queue \ {s}
  /\ UNCHANGED <<inputs, events, timer, job, seen, ops>>

\* Mutation: what the last rendering read is not read again.
BeginAgain(s) ==
  /\ job.spec = NoSpec /\ s \in queue /\ Active(sets[s])
  /\ queue' = queue \ {s}
  /\ job' = [set |-> s, spec |-> sets[s], reads |-> seen[s].reads]
  /\ UNCHANGED <<inputs, events, timer, seen, ops>>

Begin(s) ==
  /\ job.spec = NoSpec /\ s \in queue /\ Active(sets[s])
  /\ queue' = queue \ {s}
  /\ job' = [set |-> s, spec |-> sets[s], reads |-> <<>>]
  /\ UNCHANGED <<inputs, events, timer, seen, ops>>

\* The reads so far, with one more; they may come in any order.
With(leaf) ==
  [l \in DOMAIN job.reads \cup {leaf} |->
     IF l = leaf THEN Value(job.set, leaf) ELSE job.reads[l]]

Unread == LeavesOf(job.spec) \ DOMAIN job.reads

Read ==
  /\ job.spec # NoSpec
  /\ \E leaf \in Unread :
       /\ Usable(job.spec, leaf) /\ Value(job.set, leaf) \notin {Missing, Waiting}
       /\ job' = [set |-> job.set, spec |-> job.spec, reads |-> With(leaf)]
  /\ UNCHANGED <<inputs, events, queue, timer, seen, ops>>

\* A generator that is not enabled, or a source that is not there: the error
\* sends the set back to the queue.
ReadFails ==
  /\ job.spec # NoSpec
  /\ \E leaf \in Unread : ~Usable(job.spec, leaf) \/ Value(job.set, leaf) = Missing
  /\ queue' = queue \cup {job.set}
  /\ job' = Idle
  /\ UNCHANGED <<inputs, events, timer, seen, ops>>

Rendered(reads) == seen' = [seen EXCEPT ![job.set] = [spec |-> job.spec, reads |-> reads]]

\* No artifact, or no image, yet: the reconciliation ends without a retry.
ReadWaits ==
  /\ job.spec # NoSpec
  /\ \E leaf \in Unread :
       Usable(job.spec, leaf) /\ Value(job.set, leaf) = Waiting /\ Rendered(With(leaf))
  /\ job' = Idle
  /\ UNCHANGED <<inputs, events, queue, timer, ops>>

\* The least of the intervals that are asked for, in a matrix or not.
Intervals(spec) == {leaf.ref : leaf \in {l \in LeavesOf(spec) : l.kind \in PolledKinds}} \ {0}

\* Mutation: the intervals of a matrix are not asked for.
IntervalTop(spec) ==
  LET asked == {leaf.ref : leaf \in {l \in UNION {g.top : g \in spec.generators} :
                                       l.kind \in PolledKinds}} \ {0}
  IN IF asked = {} THEN 0 ELSE CHOOSE i \in asked : \A j \in asked : i <= j

Interval(spec) ==
  IF Intervals(spec) = {} THEN 0
  ELSE CHOOSE i \in Intervals(spec) : \A j \in Intervals(spec) : i <= j

\* The queue keeps the earlier of two times a set is due.
Due(old, new) == IF new = 0 \/ (old # 0 /\ old < new) THEN old ELSE new

Finish ==
  /\ job.spec # NoSpec /\ Unread = {}
  /\ Rendered(job.reads)
  /\ timer' = [timer EXCEPT ![job.set] = Due(@, Interval(job.spec))]
  /\ job' = Idle
  /\ UNCHANGED <<inputs, events, queue, ops>>

TimerFire(s) ==
  /\ timer[s] # 0
  /\ timer' = [timer EXCEPT ![s] = 0]
  /\ queue' = queue \cup {s}
  /\ UNCHANGED <<inputs, events, job, seen, ops>>

\* After a restart the informers list everything, as so many creations; those of
\* sources and clusters would only enqueue the same sets again.
Restart ==
  /\ ops < MaxOps
  /\ ops' = ops + 1
  /\ events' = {[on |-> "set", set |-> s] : s \in {t \in Sets : sets[t] # NoSpec}}
  /\ queue' = {}
  /\ timer' = [s \in Sets |-> 0]
  /\ job' = Idle
  /\ UNCHANGED <<inputs, seen>>

-----------------------------------------------------------------------------
\* What a rendering has read is something its spec refers to, by a generator
\* that is enabled.
Readable(spec) == {leaf \in LeavesOf(spec) : Usable(spec, leaf)}
ReadsItsSpec(r) == r.spec # NoSpec => DOMAIN r.reads \subseteq Readable(r.spec)

TypeOK ==
  /\ sets \in [Sets -> Specs \cup {NoSpec}]
  /\ sources \in [Sources -> SourceStates]
  /\ clusters \in [Clusters -> ClusterStates \cup {NoCluster}]
  /\ events \subseteq Events
  /\ queue \subseteq Sets
  /\ timer \in [Sets -> Nat]
  /\ job.set \in Sets /\ job.spec \in Specs \cup {NoSpec} /\ ReadsItsSpec(job)
  /\ seen = [s \in Sets |-> seen[s]]
  /\ \A s \in Sets : seen[s].spec \in Specs \cup {NoSpec} /\ ReadsItsSpec(seen[s])
  /\ ops \in 0 .. MaxOps

Init ==
  /\ sets = [s \in Sets |-> NoSpec]
  /\ sources \in [Sources -> {Missing} \cup Versions]
  /\ clusters \in [Clusters -> ClusterStates \cup {NoCluster}]
  /\ events = {}
  /\ queue = {}
  /\ timer = [s \in Sets |-> 0]
  /\ job = Idle
  /\ seen = [s \in Sets |-> Nothing]
  /\ ops = 0

Worker == Read \/ ReadFails \/ ReadWaits \/ Finish

Next ==
  \/ \E s \in Sets : ChangeSet(s) \/ Skip(s) \/ Begin(s) \/ TimerFire(s)
  \/ \E source \in Sources : ChangeSource(source)
  \/ \E c \in Clusters : ChangeCluster(c)
  \/ \E e \in events : Handle(e)
  \/ Worker
  \/ Restart

Spec == Init /\ [][Next]_vars

\* Handlers, timers and the worker go on, and the queue serves every set in it.
\* Changes and restarts need not happen.
Fairness ==
  /\ WF_vars(\E e \in events : Handle(e)) /\ WF_vars(Worker)
  /\ \A s \in Sets : WF_vars(TimerFire(s)) /\ SF_vars(Skip(s) \/ Begin(s))

FairSpec == Spec /\ Fairness

-----------------------------------------------------------------------------
(* Properties. *)

\* What was read, of the spec as it is, is what is there now.
UpToDate(s, r) ==
  r.spec = sets[s] /\ \A leaf \in DOMAIN r.reads : r.reads[leaf] = Value(s, leaf)

AboutToRun(s) == s \in queue \/ \E e \in events : s \in Enqueued(e)
Running(s) == job.spec # NoSpec /\ job.set = s

\* Every set is on its way to the queue, or what its rendering has read, the one
\* under way or else the last one, is still what is there: no change of a spec,
\* a source or a cluster goes by between the reads of a reconciliation and the
\* handlers of the informers.
NothingMissed ==
  \A s \in Sets : Active(sets[s]) =>
    AboutToRun(s) \/ UpToDate(s, IF Running(s) THEN job ELSE seen[s])

Waits(s) == \E leaf \in DOMAIN seen[s].reads : seen[s].reads[leaf] = Waiting

\* A set that asks a service at intervals is due no later than the least of
\* them, unless it waits for an artifact.
PolledAreDue ==
  \A s \in Sets : Active(sets[s]) /\ Intervals(sets[s]) # {} =>
    \/ AboutToRun(s) \/ Running(s) \/ Waits(s)
    \/ timer[s] # 0 /\ \A i \in Intervals(sets[s]) : timer[s] <= i

\* A set that cannot be rendered: a generator is off, or a source missing.
Fails(s) ==
  \E leaf \in LeavesOf(sets[s]) :
    ~Usable(sets[s], leaf) \/ Value(s, leaf) \in {Missing, Waiting}

\* When changes come to an end, every set that can be rendered has been, from
\* what there is.
SetsCatchUp ==
  \A s \in Sets :
    <>[](Active(sets[s]) /\ ~Fails(s) =>
           UpToDate(s, seen[s]) /\ DOMAIN seen[s].reads = LeavesOf(sets[s]))
=============================================================================
