------------------------ MODULE WatchTriggersProofs ------------------------
(***************************************************************************)
(* Theorems about WatchTriggers, for every value of its constants.         *)
(***************************************************************************)
EXTENDS WatchTriggers, WellFoundedInduction, TLAPS

\* What the watches can see: no empty selector, and no ImagePolicy next to a
\* matrix with another one.
Covered ==
  \A spec \in Specs :
    /\ \A leaf \in LeavesOf(spec) : leaf.kind = "Cluster" => leaf.ref # NoSelector
    /\ \A g \in spec.generators :
         ~(\E leaf \in g.top : leaf.kind = "ImagePolicy")
         \/ ~(\E leaf \in g.matrix : leaf.kind = "ImagePolicy")

\* Reading one more leaf reads what the spec refers to.
LEMMA WithReads ==
  ASSUME TypeOK, job.spec # NoSpec, NEW leaf \in Unread, Usable(job.spec, leaf)
  PROVE  DOMAIN With(leaf) \subseteq Readable(job.spec)
BY DEF TypeOK, ReadsItsSpec, With, Unread, Readable

\* Intervals are numbers.
LEMMA IntervalsAreNat ==
  ASSUME NEW spec \in Specs
  PROVE  Intervals(spec) \subseteq Nat
<1>1. ASSUME NEW leaf \in LeavesOf(spec), leaf.kind \in PolledKinds
      PROVE  leaf.ref \in Nat
  <2>1. PICK g \in spec.generators : leaf \in g.top \cup g.matrix
    BY DEF LeavesOf
  <2>2. g.top \subseteq Leaves /\ g.matrix \subseteq Leaves
    BY SpecsAssumption DEF Generators
  <2>3. leaf \in Leaves
    BY <2>1, <2>2
  <2>4. QED  BY <1>1, <2>3 DEF Leaves, PolledKinds, SourceKinds
<1>2. QED  BY <1>1 DEF Intervals

\* A spec that asks for intervals has a least one, which is a number.
LEMMA LeastInterval ==
  ASSUME NEW spec \in Specs
  PROVE  /\ Interval(spec) \in Nat
         /\ Intervals(spec) # {} => /\ Interval(spec) \in Intervals(spec)
                                    /\ \A i \in Intervals(spec) : Interval(spec) <= i
<1>2. Intervals(spec) \subseteq Nat
  BY IntervalsAreNat
<1> DEFINE R == OpToRel(<, Nat)
           T == Intervals(spec)
<1>3. \A i, j \in Nat : i < j => <<i, j>> \in R
  BY DEF OpToRel
<1>r. IsWellFoundedOn(R, Nat)
  BY NatLessThanWellFounded, Zenon
<1> HIDE DEF R
<1>4. CASE Intervals(spec) # {}
  <2>1. T \subseteq Nat /\ T # {}
    BY <1>2, <1>4
  <2> HIDE DEF T
  <2>2. \E i \in T : \A j \in T : ~(<<j, i>> \in R)
    BY <1>r, <2>1, WFMin, Zenon
  <2>3. PICK i \in T : \A j \in T : ~(<<j, i>> \in R)
    BY <2>2, Zenon
  <2>4. ASSUME NEW j \in T PROVE i <= j
    <3>1. i \in Nat /\ j \in Nat
      BY <2>1
    <3>2. ~(j < i)
      BY <1>3, <2>3, <3>1, Zenon
    <3>3. QED  BY <3>1, <3>2
  <2>5. QED  BY <1>2, <1>4, <2>3, <2>4 DEF Interval, T
<1>5. CASE Intervals(spec) = {}
  BY <1>5 DEF Interval
<1>6. QED  BY <1>4, <1>5

\* The state before any step has its type.
LEMMA InitType == Init => TypeOK
<1> SUFFICES ASSUME Init PROVE TypeOK
  OBVIOUS
<1>1. Idle.set \in Sets
  BY NamesAssumption DEF Idle
<1>2. job.set \in Sets /\ job.spec = NoSpec
  BY <1>1 DEF Init, Idle
<1>3. \A s \in Sets : seen[s] = Nothing
  BY DEF Init
<1>4. seen = [s \in Sets |-> seen[s]]
  BY DEF Init
<1>5. \A s \in Sets : seen[s].spec = NoSpec
  BY <1>3 DEF Nothing
<1>6. sources \in [Sources -> SourceStates]
  BY DEF Init, SourceStates
<1>7. QED
  BY <1>2, <1>4, <1>5, <1>6, BoundAssumption DEF Init, TypeOK, ReadsItsSpec

\* Changes and restarts keep the types.
LEMMA ChangeType ==
  ASSUME TypeOK,
         \/ \E s \in Sets : ChangeSet(s)
         \/ \E source \in Sources : ChangeSource(source)
         \/ \E c \in Clusters : ChangeCluster(c)
         \/ Restart
  PROVE  TypeOK'
<1> USE BoundAssumption
<1>1. ASSUME NEW s \in Sets, ChangeSet(s) PROVE TypeOK'
  <2>1. sets' \in [Sets -> Specs \cup {NoSpec}] /\ events' \subseteq Events
    BY <1>1 DEF ChangeSet, Change, TypeOK, Events
  <2>2. QED  BY <1>1, <2>1 DEF ChangeSet, Change, TypeOK, ReadsItsSpec
<1>2. ASSUME NEW source \in Sources, ChangeSource(source) PROVE TypeOK'
  <2>1. sources' \in [Sources -> SourceStates] /\ events' \subseteq Events
    BY <1>2 DEF ChangeSource, Change, TypeOK, Events
  <2>2. QED  BY <1>2, <2>1 DEF ChangeSource, Change, TypeOK, ReadsItsSpec
<1>3. ASSUME NEW c \in Clusters, ChangeCluster(c) PROVE TypeOK'
  <2>1. PICK v \in ClusterStates \cup {NoCluster} :
          /\ clusters' = [clusters EXCEPT ![c] = v]
          /\ Change([on |-> "cluster", states |-> {clusters[c], v}])
          /\ UNCHANGED <<sets, sources>>
    BY <1>3 DEF ChangeCluster
  <2>2. clusters[c] \in ClusterStates \cup {NoCluster}
    BY DEF TypeOK
  <2>3. events' \subseteq Events
    BY <2>1, <2>2 DEF Change, TypeOK, Events
  <2>4. clusters' \in [Clusters -> ClusterStates \cup {NoCluster}]
    BY <2>1 DEF TypeOK
  <2>5. QED  BY <2>1, <2>3, <2>4 DEF Change, TypeOK, ReadsItsSpec
<1>4. CASE Restart
  <2>1. job'.set \in Sets /\ job'.spec = NoSpec
    BY <1>4, NamesAssumption DEF Restart, Idle
  <2>2. events' \subseteq Events
    BY <1>4 DEF Restart, Events
  <2>3. QED  BY <1>4, <2>1, <2>2 DEF Restart, TypeOK, ReadsItsSpec, inputs
<1>5. QED  BY <1>1, <1>2, <1>3, <1>4

\* A rendering that ends is recorded with its type.
LEMMA RenderedType ==
  ASSUME TypeOK, NEW reads, Rendered(reads), ReadsItsSpec([spec |-> job.spec, reads |-> reads])
  PROVE  /\ seen' = [s \in Sets |-> seen'[s]]
         /\ \A s \in Sets : seen'[s].spec \in Specs \cup {NoSpec} /\ ReadsItsSpec(seen'[s])
<1> DEFINE new == [spec |-> job.spec, reads |-> reads]
<1>1. seen' = [seen EXCEPT ![job.set] = new] /\ job.set \in Sets
  BY DEF Rendered, TypeOK
<1>2. new.spec \in Specs \cup {NoSpec} /\ ReadsItsSpec(new)
  BY DEF TypeOK
<1>3. \A s \in Sets : seen'[s] = IF s = job.set THEN new ELSE seen[s]
  BY <1>1 DEF TypeOK
<1>4. seen' = [s \in Sets |-> seen'[s]]
  BY <1>1 DEF TypeOK
<1>5. QED  BY <1>2, <1>3, <1>4 DEF TypeOK

\* The queue, the timers and the worker keep the types.
LEMMA WorkType ==
  ASSUME TypeOK,
         \/ \E s \in Sets : Skip(s) \/ Begin(s) \/ TimerFire(s)
         \/ \E e \in events : Handle(e)
         \/ Worker
  PROVE  TypeOK'
<1>1. Idle.set \in Sets /\ Idle.spec = NoSpec
  BY NamesAssumption DEF Idle
<1>2. CASE \E s \in Sets : Skip(s) \/ TimerFire(s)
  BY <1>2 DEF Skip, TimerFire, inputs, TypeOK, ReadsItsSpec
<1>3. ASSUME NEW s \in Sets, Begin(s) PROVE TypeOK'
  <2>1. job'.set = s /\ job'.spec = sets[s] /\ DOMAIN job'.reads = {}
    BY <1>3 DEF Begin
  <2>2. QED  BY <1>3, <2>1 DEF Begin, inputs, TypeOK, ReadsItsSpec
<1>4. ASSUME NEW e \in events, Handle(e) PROVE TypeOK'
  <2>1. Enqueued(e) \subseteq Sets
    BY DEF Enqueued, Referring, Matched, TypeOK, Events
  <2>2. QED  BY <1>4, <2>1 DEF Handle, inputs, TypeOK, ReadsItsSpec
<1>5. CASE Read
  <2>1. PICK leaf \in Unread :
          /\ Usable(job.spec, leaf)
          /\ job' = [set |-> job.set, spec |-> job.spec, reads |-> With(leaf)]
    BY <1>5 DEF Read
  <2>2. DOMAIN With(leaf) \subseteq Readable(job.spec)
    BY <1>5, <2>1, WithReads DEF Read
  <2>3. job'.set \in Sets /\ job'.spec \in Specs \cup {NoSpec} /\ ReadsItsSpec(job')
    BY <2>1, <2>2 DEF TypeOK, ReadsItsSpec, Readable
  <2>4. QED  BY <1>5, <2>3 DEF Read, inputs, TypeOK, ReadsItsSpec
<1>6. CASE ReadFails
  BY <1>1, <1>6 DEF ReadFails, inputs, TypeOK, ReadsItsSpec
<1>7. CASE ReadWaits
  <2>1. PICK leaf \in Unread : Usable(job.spec, leaf) /\ Rendered(With(leaf))
    BY <1>7 DEF ReadWaits
  <2>2. DOMAIN With(leaf) \subseteq Readable(job.spec)
    BY <1>7, <2>1, WithReads DEF ReadWaits
  <2>3. ReadsItsSpec([spec |-> job.spec, reads |-> With(leaf)])
    BY <2>2 DEF ReadsItsSpec
  <2>4. /\ seen' = [s \in Sets |-> seen'[s]]
        /\ \A s \in Sets : seen'[s].spec \in Specs \cup {NoSpec} /\ ReadsItsSpec(seen'[s])
    BY <2>1, <2>3, RenderedType
  <2>5. QED  BY <1>1, <1>7, <2>4 DEF ReadWaits, inputs, TypeOK, ReadsItsSpec
<1>8. CASE Finish
  <2>1. job.spec \in Specs /\ Rendered(job.reads) /\ job.set \in Sets
    BY <1>8 DEF Finish, TypeOK
  <2>2. ReadsItsSpec([spec |-> job.spec, reads |-> job.reads])
    BY DEF ReadsItsSpec, TypeOK
  <2>3. /\ seen' = [s \in Sets |-> seen'[s]]
        /\ \A s \in Sets : seen'[s].spec \in Specs \cup {NoSpec} /\ ReadsItsSpec(seen'[s])
    BY <2>1, <2>2, RenderedType
  <2>4. Interval(job.spec) \in Nat
    BY <2>1, LeastInterval
  <2>5. Due(timer[job.set], Interval(job.spec)) \in Nat
    BY <2>1, <2>4 DEF Due, TypeOK
  <2>6. timer' \in [Sets -> Nat]
    BY <1>8, <2>5 DEF Finish, TypeOK
  <2>7. QED  BY <1>1, <1>8, <2>3, <2>6 DEF Finish, inputs, TypeOK, ReadsItsSpec
<1>9. QED  BY <1>2, <1>3, <1>4, <1>5, <1>6, <1>7, <1>8 DEF Worker

\* TypeOK is inductive.
LEMMA NextType == TypeOK /\ [Next]_vars => TypeOK'
<1>1. ASSUME TypeOK, UNCHANGED vars PROVE TypeOK'
  BY <1>1 DEF vars, TypeOK, ReadsItsSpec
<1>2. QED  BY <1>1, ChangeType, WorkType DEF Next

\* Every variable keeps its type, and what is read is what a spec refers to.
THEOREM TriggersTypeCorrect == Spec => []TypeOK
BY InitType, NextType, PTL DEF Spec

-----------------------------------------------------------------------------
(* No change goes by. *)

\* What a set is told by: the rendering under way, or else the last one.
Last(s) == IF Running(s) THEN job ELSE seen[s]

Known(s) == Active(sets[s]) => AboutToRun(s) \/ UpToDate(s, Last(s))

LEMMA KnownIsAll == NothingMissed <=> \A s \in Sets : Known(s)
BY DEF NothingMissed, Known, Last

\* A set on its way to the queue stays on it when its spec is the same, nothing
\* is taken out of the queue, and no event is dropped.
LEMMA StillAboutToRun ==
  ASSUME TypeOK, NEW s \in Sets, AboutToRun(s), sets'[s] = sets[s],
         queue \subseteq queue', events \subseteq events'
  PROVE  AboutToRun(s)'
<1>1. CASE s \in queue
  BY <1>1 DEF AboutToRun
<1>2. CASE \E e \in events : s \in Enqueued(e)
  <2>1. PICK e \in events : s \in Enqueued(e)
    BY <1>2
  <2>2. s \in Enqueued(e)'
    BY <2>1 DEF Enqueued, Referring, Matched
  <2>3. QED  BY <2>1, <2>2 DEF AboutToRun
<1>3. QED  BY <1>1, <1>2 DEF AboutToRun

\* What has been read of a spec that is up to date is readable.
LEMMA LastReads ==
  ASSUME TypeOK, NEW s \in Sets, Active(sets[s]), UpToDate(s, Last(s))
  PROVE  DOMAIN Last(s).reads \subseteq Readable(sets[s]) /\ sets[s] \in Specs
BY DEF TypeOK, ReadsItsSpec, UpToDate, Active, Last

\* A source that a rendering reads is watched, and the indexes lead to the set.
LEMMA SourcesAreWatched ==
  ASSUME Covered, NEW s \in Sets, sets[s] \in Specs, NoSpec \notin Specs,
         NEW leaf \in Readable(sets[s]), leaf.kind \in SourceKinds
  PROVE  Watched(leaf.kind) /\ s \in Referring(SourceOf(s, leaf))
<1>1. Watched(leaf.kind)
  BY DEF Readable, Usable, Watched
<1>2. PICK g \in sets[s].generators : leaf \in g.top \cup g.matrix
  BY DEF Readable, LeavesOf
<1>3. leaf \in g.top \cup (IF Skipped(g, leaf.kind) THEN {} ELSE g.matrix)
  BY <1>2 DEF Covered, Skipped
<1>4. leaf.ref \in Indexed(sets[s], leaf.kind)
  BY <1>3 DEF Indexed
<1>5. QED  BY <1>1, <1>4 DEF Referring, SourceOf

\* A cluster that a selector does not trigger for, before or after it changes,
\* is not among the ones selected.
LEMMA UnmatchedUnread ==
  ASSUME TypeOK, NEW c \in Clusters, NEW v \in ClusterStates \cup {NoCluster},
         clusters' = [clusters EXCEPT ![c] = v], NEW selector, selector # NoSelector,
         ~Triggered(selector, clusters[c]), ~Triggered(selector, v)
  PROVE  {<<d, clusters'[d]>> : d \in Selected(selector)'}
           = {<<d, clusters[d]>> : d \in Selected(selector)}
<1>1. c \notin Selected(selector)
  BY DEF Selected, Triggered
<1>2. clusters'[c] = v
  BY DEF TypeOK
<1>3. c \notin Selected(selector)'
  BY <1>2 DEF Selected, Triggered, Selects
<1>4. \A d \in Clusters \ {c} : clusters'[d] = clusters[d]
  BY DEF TypeOK
<1>5. Selected(selector)' = Selected(selector)
  BY <1>1, <1>3, <1>4 DEF Selected, Selects
<1>6. \A d \in Selected(selector) : clusters'[d] = clusters[d]
  BY <1>1, <1>4 DEF Selected
<1>7. QED  BY <1>5, <1>6

\* A change of a set is an event of that set, and leaves the others as they were.
LEMMA ChangeSetKnown ==
  ASSUME TypeOK, NothingMissed, NEW t \in Sets, ChangeSet(t)
  PROVE  NothingMissed'
<1> DEFINE e == [on |-> "set", set |-> t]
<1>1. /\ \E spec \in Specs \cup {NoSpec} : sets' = [sets EXCEPT ![t] = spec]
      /\ events' = events \cup {e} /\ UNCHANGED <<queue, job, seen, sources, clusters>>
  BY DEF ChangeSet, Change
<1> SUFFICES ASSUME NEW s \in Sets PROVE Known(s)'
  BY KnownIsAll DEF NothingMissed, Known, Last
<1>2. Known(s)
  BY KnownIsAll
<1>3. CASE s = t
  <2>1. t \in Enqueued(e)'
    BY DEF Enqueued
  <2>2. QED  BY <1>1, <1>3, <2>1 DEF Known, AboutToRun
<1>4. CASE s # t
  <2>1. sets'[s] = sets[s]
    BY <1>1, <1>4 DEF TypeOK
  <2>2. AboutToRun(s) => AboutToRun(s)'
    BY <1>1, <2>1, StillAboutToRun
  <2>3. UpToDate(s, Last(s)) => UpToDate(s, Last(s))'
    BY <1>1, <2>1 DEF UpToDate, Last, Running, Value, Selected
  <2>4. QED  BY <1>2, <2>1, <2>2, <2>3 DEF Known, Active
<1>5. QED  BY <1>3, <1>4

\* A change of a source enqueues every set that has read it.
LEMMA ChangeSourceKnown ==
  ASSUME TypeOK, Covered, NothingMissed, NEW source \in Sources, ChangeSource(source)
  PROVE  NothingMissed'
<1> DEFINE e == [on |-> "source", source |-> source]
<1>1. /\ \E v \in SourceStates : sources' = [sources EXCEPT ![source] = v]
      /\ events' = events \cup {e} /\ UNCHANGED <<queue, job, seen, sets, clusters>>
  BY DEF ChangeSource, Change
<1> SUFFICES ASSUME NEW s \in Sets, Active(sets[s]), ~AboutToRun(s)'
             PROVE  UpToDate(s, Last(s))'
  BY <1>1, KnownIsAll DEF NothingMissed, Known, Last, Active
<1>2. ~AboutToRun(s) /\ UpToDate(s, Last(s))
  BY <1>1, StillAboutToRun, KnownIsAll DEF Known
<1>3. DOMAIN Last(s).reads \subseteq Readable(sets[s]) /\ sets[s] \in Specs
  BY <1>2, LastReads
<1>4. ASSUME NEW leaf \in DOMAIN Last(s).reads PROVE Value(s, leaf)' = Value(s, leaf)
  <2>1. CASE leaf.kind \in SourceKinds /\ SourceOf(s, leaf) = source
    <3>1. Watched(source.kind) /\ s \in Referring(source)
      BY <1>3, <2>1, SourcesAreWatched, SpecsAssumption DEF SourceOf
    <3>2. s \in Enqueued(e)
      BY <3>1 DEF Enqueued
    <3>3. s \in Enqueued(e)'
      BY <1>1, <3>2 DEF Enqueued, Referring, Matched
    <3>4. QED  BY <1>1, <3>3 DEF AboutToRun
  <2>2. CASE leaf.kind \in SourceKinds /\ SourceOf(s, leaf) # source
    <3>1. SourceOf(s, leaf) \in Sources =>
            sources'[SourceOf(s, leaf)] = sources[SourceOf(s, leaf)]
      BY <1>1, <2>2 DEF TypeOK
    <3>2. SourceOf(s, leaf)' = SourceOf(s, leaf)
      BY DEF SourceOf
    <3>3. QED  BY <2>2, <3>1, <3>2 DEF Value
  <2>3. CASE leaf.kind \notin SourceKinds
    BY <1>1, <2>3 DEF Value, Selected
  <2>4. QED  BY <2>1, <2>2, <2>3
<1>5. Last(s)' = Last(s)
  BY <1>1 DEF Last, Running
<1>6. QED  BY <1>1, <1>2, <1>4, <1>5 DEF UpToDate

\* A change of a cluster enqueues every set that has selected it, or would now.
LEMMA ChangeClusterKnown ==
  ASSUME TypeOK, Covered, NothingMissed, NEW c \in Clusters, ChangeCluster(c)
  PROVE  NothingMissed'
<1>1. PICK v \in ClusterStates \cup {NoCluster} :
        /\ clusters' = [clusters EXCEPT ![c] = v]
        /\ Change([on |-> "cluster", states |-> {clusters[c], v}])
        /\ UNCHANGED <<sets, sources>>
  BY DEF ChangeCluster
<1> PICK e : e = [on |-> "cluster", states |-> {clusters[c], v}]
  OBVIOUS
<1>2. events' = events \cup {e} /\ UNCHANGED <<queue, job, seen, sets, sources>>
  BY <1>1 DEF Change
<1> SUFFICES ASSUME NEW s \in Sets, Active(sets[s]), ~AboutToRun(s)'
             PROVE  UpToDate(s, Last(s))'
  BY <1>2, KnownIsAll DEF NothingMissed, Known, Last, Active
<1>3. ~AboutToRun(s) /\ UpToDate(s, Last(s))
  BY <1>2, StillAboutToRun, KnownIsAll DEF Known
<1>4. DOMAIN Last(s).reads \subseteq Readable(sets[s]) /\ sets[s] \in Specs
  BY <1>3, LastReads
<1>5. ASSUME NEW leaf \in DOMAIN Last(s).reads PROVE Value(s, leaf)' = Value(s, leaf)
  <2>1. CASE leaf.kind = "Cluster"
    <3>1. leaf.ref # NoSelector /\ leaf \in LeavesOf(sets[s]) /\ Watched("Cluster")
      BY <1>4, <2>1 DEF Covered, Readable, Usable, Watched
    <3>2. ASSUME \E state \in {clusters[c], v} : Triggered(leaf.ref, state)
          PROVE  FALSE
      <4>1. s \in Matched(e.states)
        BY <2>1, <3>1, <3>2 DEF Matched, Active
      <4>2. s \in Enqueued(e)
        BY <3>1, <4>1 DEF Enqueued
      <4>3. s \in Enqueued(e)'
        BY <1>2, <4>2 DEF Enqueued, Referring, Matched
      <4>4. QED  BY <1>2, <4>3 DEF AboutToRun
    <3>3. {<<d, clusters'[d]>> : d \in Selected(leaf.ref)'}
            = {<<d, clusters[d]>> : d \in Selected(leaf.ref)}
      BY <1>1, <3>1, <3>2, UnmatchedUnread
    <3>4. QED  BY <2>1, <3>3 DEF Value, SourceKinds
  <2>2. CASE leaf.kind # "Cluster"
    BY <1>2, <2>2 DEF Value, SourceOf
  <2>3. QED  BY <2>1, <2>2
<1>6. Last(s)' = Last(s)
  BY <1>2 DEF Last, Running
<1>7. QED  BY <1>2, <1>3, <1>5, <1>6 DEF UpToDate

\* A step that changes no input, no event and at most adds to the queue, leaves a
\* set known when it leaves what the set is told by, or makes it up to date.
LEMMA StillKnown ==
  ASSUME TypeOK, NEW s \in Sets, Known(s), UNCHANGED inputs,
         queue \subseteq queue', events \subseteq events',
         Active(sets[s]) /\ UpToDate(s, Last(s)) => UpToDate(s, Last(s)')
  PROVE  Known(s)'
<1>1. AboutToRun(s) => AboutToRun(s)'
  BY StillAboutToRun DEF inputs
<1>2. UpToDate(s, Last(s)') => UpToDate(s, Last(s))'
  BY DEF UpToDate, Value, Selected, SourceOf, inputs
<1>3. QED  BY <1>1, <1>2 DEF Known, Active, inputs

\* A set that is taken out of the queue is left alone, or starts with nothing
\* read.
LEMMA TakenKnown ==
  ASSUME TypeOK, NothingMissed, NEW t \in Sets, Skip(t) \/ Begin(t)
  PROVE  NothingMissed'
<1> SUFFICES ASSUME NEW s \in Sets PROVE Known(s)'
  BY KnownIsAll DEF NothingMissed, Known, Last
<1>1. Known(s) /\ UNCHANGED <<inputs, events, seen>> /\ job.spec = NoSpec
  BY KnownIsAll DEF Skip, Begin
<1>2. CASE s = t /\ Skip(t)
  BY <1>2 DEF Skip, Known, Active, inputs
<1>3. CASE s = t /\ Begin(t)
  <2>1. Running(s)' /\ job'.spec = sets[s] /\ DOMAIN job'.reads = {}
    BY <1>3 DEF Begin, Running, Active
  <2>2. UpToDate(s, Last(s))'
    BY <1>1, <2>1 DEF Last, UpToDate, inputs
  <2>3. QED  BY <2>2 DEF Known
<1>4. CASE s # t
  <2>1. Last(s)' = Last(s)
    BY <1>1, <1>4 DEF Skip, Begin, Last, Running
  <2>2. AboutToRun(s) => s \in queue' \/ \E e \in events : s \in Enqueued(e)
    BY <1>4 DEF AboutToRun, Skip, Begin
  <2>3. AboutToRun(s) => AboutToRun(s)'
    BY <1>1, <2>2 DEF AboutToRun, Enqueued, Referring, Matched, inputs
  <2>4. UpToDate(s, Last(s)) => UpToDate(s, Last(s))'
    BY <1>1, <2>1 DEF UpToDate, Value, Selected, SourceOf, inputs
  <2>5. QED  BY <1>1, <2>3, <2>4 DEF Known, Active, inputs
<1>5. QED  BY <1>2, <1>3, <1>4

\* A handler moves its sets to the queue.
LEMMA HandledKnown ==
  ASSUME TypeOK, NothingMissed, NEW e \in events, Handle(e)
  PROVE  NothingMissed'
<1> SUFFICES ASSUME NEW s \in Sets PROVE Known(s)'
  BY KnownIsAll DEF NothingMissed, Known, Last
<1>1. Known(s) /\ UNCHANGED <<inputs, job, seen>>
  BY KnownIsAll DEF Handle
<1>2. AboutToRun(s) => s \in queue' \/ \E f \in events' : s \in Enqueued(f)
  BY DEF AboutToRun, Handle
<1>3. AboutToRun(s) => AboutToRun(s)'
  BY <1>1, <1>2 DEF AboutToRun, Enqueued, Referring, Matched, inputs
<1>4. UpToDate(s, Last(s)) => UpToDate(s, Last(s))'
  BY <1>1 DEF UpToDate, Value, Selected, SourceOf, Last, Running, inputs
<1>5. QED  BY <1>1, <1>3, <1>4 DEF Known, Active, inputs

\* What the worker reads is what is there, and what it gives up it retries.
LEMMA WorkerKnown ==
  ASSUME TypeOK, NothingMissed, Worker
  PROVE  NothingMissed'
<1> SUFFICES ASSUME NEW s \in Sets PROVE Known(s)'
  BY KnownIsAll DEF NothingMissed, Known, Last
<1>1. Known(s) /\ UNCHANGED <<inputs, events>> /\ queue \subseteq queue' /\ job.spec # NoSpec
  BY KnownIsAll DEF Worker, Read, ReadFails, ReadWaits, Finish
<1>2. ASSUME NEW leaf \in Unread, s = job.set, UpToDate(s, job)
      PROVE  UpToDate(s, [spec |-> job.spec, reads |-> With(leaf)])
  BY <1>2 DEF UpToDate, With
<1>3. CASE s # job.set
  <2>1. seen'[s] = seen[s]
    <3>1. \A reads : Rendered(reads) => seen'[s] = seen[s]
      BY <1>3 DEF Rendered, TypeOK
    <3>2. QED  BY <3>1 DEF Worker, Read, ReadFails, ReadWaits, Finish
  <2>2. job' = Idle \/ job'.set = job.set
    BY DEF Worker, Read, ReadFails, ReadWaits, Finish
  <2>3. ~Running(s) /\ ~Running(s)'
    BY <1>3, <2>2 DEF Running, Idle
  <2>4. QED  BY <1>1, <2>1, <2>3, StillKnown DEF Last
<1>4. CASE s = job.set /\ ReadFails
  BY <1>4 DEF ReadFails, Known, AboutToRun
<1>5. CASE s = job.set /\ ~ReadFails
  <2>1. Last(s) = job
    BY <1>1, <1>5 DEF Last, Running
  <2>2. CASE Read
    <3>1. PICK leaf \in Unread :
            job' = [set |-> job.set, spec |-> job.spec, reads |-> With(leaf)]
      BY <2>2 DEF Read
    <3>2. Last(s)' = job'
      BY <1>1, <1>5, <3>1 DEF Last, Running
    <3>3. UpToDate(s, job) => UpToDate(s, job')
      BY <1>2, <1>5, <3>1 DEF UpToDate
    <3>4. QED  BY <1>1, <2>1, <3>2, <3>3, StillKnown
  <2>3. CASE ReadWaits
    <3>1. PICK leaf \in Unread : Rendered(With(leaf))
      BY <2>3 DEF ReadWaits
    <3>2. Last(s)' = [spec |-> job.spec, reads |-> With(leaf)]
      BY <1>5, <2>3, <3>1 DEF ReadWaits, Last, Running, Idle, Rendered, TypeOK
    <3>3. QED  BY <1>1, <1>2, <1>5, <2>1, <3>2, StillKnown
  <2>4. CASE Finish
    <3>1. Last(s)' = [spec |-> job.spec, reads |-> job.reads]
      BY <1>5, <2>4 DEF Finish, Last, Running, Idle, Rendered, TypeOK
    <3>2. UpToDate(s, job) => UpToDate(s, Last(s)')
      BY <3>1 DEF UpToDate
    <3>3. QED  BY <1>1, <2>1, <3>2, StillKnown
  <2>5. QED  BY <1>5, <2>2, <2>3, <2>4 DEF Worker
<1>6. QED  BY <1>3, <1>4, <1>5

\* NothingMissed is inductive, given the types.
LEMMA NextKnown == TypeOK /\ Covered /\ NothingMissed /\ [Next]_vars => NothingMissed'
<1> SUFFICES ASSUME TypeOK, Covered, NothingMissed, [Next]_vars PROVE NothingMissed'
  OBVIOUS
<1>1. ASSUME NEW t \in Sets, TimerFire(t) PROVE NothingMissed'
  <2> SUFFICES ASSUME NEW s \in Sets PROVE Known(s)'
    BY KnownIsAll DEF NothingMissed, Known, Last
  <2>1. Last(s)' = Last(s) /\ Known(s)
    BY <1>1, KnownIsAll DEF TimerFire, Last, Running
  <2>2. QED  BY <1>1, <2>1, StillKnown DEF TimerFire
<1>2. CASE Restart
  <2> SUFFICES ASSUME NEW s \in Sets, Active(sets[s]) PROVE AboutToRun(s)'
    BY <1>2 DEF NothingMissed, Restart, inputs, Active
  <2>1. [on |-> "set", set |-> s] \in events'
    BY <1>2 DEF Restart, Active
  <2>2. QED  BY <2>1 DEF AboutToRun, Enqueued
<1>3. CASE UNCHANGED vars
  <2> SUFFICES ASSUME NEW s \in Sets PROVE Known(s)'
    BY KnownIsAll DEF NothingMissed, Known, Last
  <2>1. Last(s)' = Last(s) /\ Known(s)
    BY <1>3, KnownIsAll DEF vars, Last, Running
  <2>2. QED  BY <1>3, <2>1, StillKnown DEF vars, inputs
<1>4. QED
  BY <1>1, <1>2, <1>3, ChangeSetKnown, ChangeSourceKnown, ChangeClusterKnown, TakenKnown,
     HandledKnown, WorkerKnown DEF Next

\* Where the watches see every reference, no change goes by: whatever the events
\* of the informers, the reads of a reconciliation and restarts come between, a
\* set is on its way to the queue, or what was read for it is what is there.
THEOREM NothingMissedSafe == Covered => (Spec => []NothingMissed)
<1>1. Init => NothingMissed
  BY DEF Init, NothingMissed, Active
<1>2. Init => TypeOK /\ NothingMissed
  BY <1>1, InitType
<1>3. ASSUME Covered
      PROVE  TypeOK /\ NothingMissed /\ [Next]_vars => (TypeOK /\ NothingMissed)'
  BY <1>3, NextType, NextKnown
<1>4. ASSUME Covered PROVE Spec => []NothingMissed
  BY <1>2, <1>3, <1>4, PTL DEF Spec
<1>5. QED  BY <1>4

-----------------------------------------------------------------------------
(* What is polled is due. *)

\* What PolledAreDue says of one set, and that the rendering under way is of the spec
\* as it is, unless the set is on its way to the queue.
DueInTime(s) ==
  Active(sets[s]) =>
    /\ Intervals(sets[s]) # {} =>
         \/ AboutToRun(s) \/ Running(s) \/ Waits(s)
         \/ timer[s] # 0 /\ \A i \in Intervals(sets[s]) : timer[s] <= i
    /\ Running(s) => AboutToRun(s) \/ job.spec = sets[s]

AllDueInTime == \A s \in Sets : DueInTime(s)

\* A set on its way to the queue is due.
LEMMA AboutToRunIsDue ==
  ASSUME NEW s \in Sets, Active(sets[s])' => AboutToRun(s)'
  PROVE  DueInTime(s)'
BY DEF DueInTime

\* A step that leaves a set, its rendering and its timer alone, and takes it off no
\* way to the queue.
LEMMA StillDueInTime ==
  ASSUME NEW s \in Sets, DueInTime(s), sets'[s] = sets[s], AboutToRun(s) => AboutToRun(s)',
         seen'[s] = seen[s], timer'[s] = timer[s],
         \/ job' = job
         \/ ~Running(s) /\ ~Running(s)'
         \/ Running(s) /\ Running(s)' /\ job'.spec = job.spec
  PROVE  DueInTime(s)'
<1>1. /\ Intervals(sets[s])' = Intervals(sets[s]) /\ Active(sets[s])' = Active(sets[s])
      /\ Waits(s)' = Waits(s)
  BY DEF Intervals, LeavesOf, Active, Waits
<1>2. Running(s)' <=> Running(s)
  BY DEF Running
<1>3. Running(s) => job'.spec = job.spec
  OBVIOUS
<1>4. QED  BY <1>1, <1>2, <1>3 DEF DueInTime

\* A change leaves the sets it does not name alone, and puts the one it names on its
\* way.
LEMMA ChangeDue ==
  ASSUME TypeOK, AllDueInTime,
         \/ \E t \in Sets : ChangeSet(t)
         \/ \E source \in Sources : ChangeSource(source)
         \/ \E c \in Clusters : ChangeCluster(c)
  PROVE  AllDueInTime'
<1> SUFFICES ASSUME NEW s \in Sets PROVE DueInTime(s)'
  BY DEF AllDueInTime
<1>1. DueInTime(s) /\ UNCHANGED <<queue, timer, job, seen>> /\ events \subseteq events'
  BY DEF AllDueInTime, ChangeSet, ChangeSource, ChangeCluster, Change
<1>2. CASE ChangeSet(s)
  <2>1. [on |-> "set", set |-> s] \in events'
    BY <1>2 DEF ChangeSet, Change
  <2>2. s \in Enqueued([on |-> "set", set |-> s])'
    BY DEF Enqueued
  <2>3. QED  BY <2>1, <2>2, AboutToRunIsDue DEF AboutToRun
<1>3. CASE ~ChangeSet(s)
  <2>1. sets'[s] = sets[s]
    BY <1>3 DEF ChangeSet, ChangeSource, ChangeCluster, TypeOK
  <2>2. AboutToRun(s) => AboutToRun(s)'
    BY <1>1, <2>1, StillAboutToRun
  <2>3. QED  BY <1>1, <2>1, <2>2, StillDueInTime
<1>4. QED  BY <1>2, <1>3

\* A set that is taken out of the queue is left alone, or its spec as it is rendered.
LEMMA TakenDue ==
  ASSUME TypeOK, AllDueInTime, NEW t \in Sets, Skip(t) \/ Begin(t)
  PROVE  AllDueInTime'
<1> SUFFICES ASSUME NEW s \in Sets PROVE DueInTime(s)'
  BY DEF AllDueInTime
<1>1. DueInTime(s) /\ UNCHANGED <<inputs, events, timer, seen>> /\ job.spec = NoSpec
  BY DEF AllDueInTime, Skip, Begin
<1>2. CASE s = t /\ Skip(t)
  BY <1>1, <1>2 DEF Skip, DueInTime, Active, inputs
<1>3. CASE s = t /\ Begin(t)
  <2>1. Running(s)' /\ job'.spec = sets'[s]
    BY <1>1, <1>3 DEF Begin, Running, Active, inputs
  <2>2. QED  BY <2>1 DEF DueInTime
<1>4. CASE s # t
  <2>1. ~Running(s) /\ ~Running(s)'
    BY <1>1, <1>4 DEF Skip, Begin, Running
  <2>2. AboutToRun(s) => s \in queue' \/ \E e \in events : s \in Enqueued(e)
    BY <1>4 DEF AboutToRun, Skip, Begin
  <2>3. AboutToRun(s) => AboutToRun(s)'
    BY <1>1, <2>2 DEF AboutToRun, Enqueued, Referring, Matched, inputs
  <2>4. QED  BY <1>1, <2>1, <2>3, StillDueInTime DEF inputs
<1>5. QED  BY <1>2, <1>3, <1>4

\* A handler moves its sets to the queue, and so does a timer.
LEMMA MovedDue ==
  ASSUME TypeOK, AllDueInTime,
         (\E e \in events : Handle(e)) \/ (\E t \in Sets : TimerFire(t))
  PROVE  AllDueInTime'
<1> SUFFICES ASSUME NEW s \in Sets PROVE DueInTime(s)'
  BY DEF AllDueInTime
<1>1. DueInTime(s) /\ UNCHANGED <<inputs, job, seen>>
  BY DEF AllDueInTime, Handle, TimerFire
<1>2. AboutToRun(s) => s \in queue' \/ \E f \in events' : s \in Enqueued(f)
  BY DEF AboutToRun, Handle, TimerFire
<1>3. AboutToRun(s) => AboutToRun(s)'
  BY <1>1, <1>2 DEF AboutToRun, Enqueued, Referring, Matched, inputs
<1>4. CASE s \in queue'
  BY <1>4, AboutToRunIsDue DEF AboutToRun
<1>5. CASE s \notin queue'
  <2>1. timer'[s] = timer[s]
    BY <1>5 DEF Handle, TimerFire, TypeOK
  <2>2. QED  BY <1>1, <1>3, <2>1, StillDueInTime DEF inputs
<1>6. QED  BY <1>4, <1>5

\* The timer of a rendering that ends is set to the least interval, or to less.
LEMMA DueIsLeast ==
  ASSUME NEW spec \in Specs, Intervals(spec) # {}, NEW old \in Nat
  PROVE  /\ Due(old, Interval(spec)) # 0
         /\ \A i \in Intervals(spec) : Due(old, Interval(spec)) <= i
<1>1. /\ Interval(spec) \in Nat /\ Interval(spec) \in Intervals(spec)
      /\ \A i \in Intervals(spec) : Interval(spec) <= i
  BY LeastInterval
<1>2. 0 \notin Intervals(spec)
  BY DEF Intervals
<1>3. Intervals(spec) \subseteq Nat
  BY IntervalsAreNat
<1>4. QED  BY <1>1, <1>2, <1>3 DEF Due

\* A rendering that ends leaves its set waiting, in the queue, or due.
LEMMA WorkerDue ==
  ASSUME TypeOK, AllDueInTime, Worker
  PROVE  AllDueInTime'
<1> SUFFICES ASSUME NEW s \in Sets PROVE DueInTime(s)'
  BY DEF AllDueInTime
<1>1. /\ DueInTime(s) /\ UNCHANGED <<inputs, events>> /\ queue \subseteq queue'
      /\ job.spec # NoSpec /\ job.set \in Sets /\ Idle.spec = NoSpec
  BY DEF AllDueInTime, Worker, Read, ReadFails, ReadWaits, Finish, TypeOK, Idle
<1>2. AboutToRun(s) => AboutToRun(s)'
  BY <1>1, StillAboutToRun DEF inputs
<1>3. CASE s # job.set
  <2>1. seen'[s] = seen[s]
    <3>1. \A reads : Rendered(reads) => seen'[s] = seen[s]
      BY <1>3 DEF Rendered, TypeOK
    <3>2. QED  BY <3>1 DEF Worker, Read, ReadFails, ReadWaits, Finish
  <2>2. timer'[s] = timer[s]
    BY <1>3 DEF Worker, Read, ReadFails, ReadWaits, Finish, TypeOK
  <2>3. job' = Idle \/ job'.set = job.set
    BY DEF Worker, Read, ReadFails, ReadWaits, Finish
  <2>4. ~Running(s) /\ ~Running(s)'
    BY <1>1, <1>3, <2>3 DEF Running
  <2>5. QED  BY <1>1, <1>2, <2>1, <2>2, <2>4, StillDueInTime DEF inputs
<1>4. CASE s = job.set /\ Read
  <2>1. job'.set = job.set /\ job'.spec = job.spec /\ UNCHANGED <<seen, timer>>
    BY <1>4 DEF Read
  <2>2. Running(s) /\ Running(s)'
    BY <1>1, <1>4, <2>1 DEF Running
  <2>3. QED  BY <1>1, <1>2, <2>1, <2>2, StillDueInTime DEF inputs
<1>5. CASE s = job.set /\ ReadFails
  BY <1>5, AboutToRunIsDue DEF ReadFails, AboutToRun
<1>6. CASE s = job.set /\ ReadWaits
  <2>1. PICK leaf \in Unread : Value(job.set, leaf) = Waiting /\ Rendered(With(leaf))
    BY <1>6 DEF ReadWaits
  <2>2. seen'[s].reads = With(leaf)
    BY <1>6, <2>1 DEF Rendered, TypeOK
  <2>3. leaf \in DOMAIN With(leaf) /\ With(leaf)[leaf] = Waiting
    BY <2>1 DEF With
  <2>4. Waits(s)' /\ ~Running(s)'
    BY <1>1, <1>6, <2>2, <2>3 DEF Waits, ReadWaits, Running
  <2>5. QED  BY <2>4 DEF DueInTime
<1>7. CASE s = job.set /\ Finish
  <2>1. ~Running(s)' /\ Running(s)
    BY <1>1, <1>7 DEF Finish, Running
  <2>2. CASE Active(sets[s]) => AboutToRun(s)
    BY <1>1, <1>2, <2>2, AboutToRunIsDue DEF Active, inputs
  <2>3. CASE job.spec = sets[s] /\ Intervals(sets[s]) # {}
    <3>1. sets[s] \in Specs /\ timer[s] \in Nat
      BY <1>1, <2>3 DEF TypeOK
    <3>2. timer'[s] = Due(timer[s], Interval(sets[s]))
      BY <1>7, <2>3 DEF Finish, TypeOK
    <3>3. timer'[s] # 0 /\ \A i \in Intervals(sets[s]) : timer'[s] <= i
      BY <2>3, <3>1, <3>2, DueIsLeast
    <3>4. Intervals(sets[s])' = Intervals(sets[s])
      BY <1>1 DEF Intervals, LeavesOf, inputs
    <3>5. timer'[s] # 0 /\ \A i \in Intervals(sets[s])' : timer'[s] <= i
      BY <3>3, <3>4
    <3>6. QED  BY <2>1, <3>5, Zenon DEF DueInTime
  <2>4. CASE Intervals(sets[s]) = {}
    <3>1. Intervals(sets[s])' = {}
      BY <1>1, <2>4 DEF Intervals, LeavesOf, inputs
    <3>2. QED  BY <2>1, <3>1 DEF DueInTime
  <2>5. QED  BY <1>1, <2>1, <2>2, <2>3, <2>4 DEF DueInTime
<1>8. QED  BY <1>3, <1>4, <1>5, <1>6, <1>7 DEF Worker

\* A set that asks a service at intervals is rendered again no later than the least
\* of them, whatever changes, failures and restarts come between.
THEOREM PolledSafe == Spec => []PolledAreDue
<1>1. Init => AllDueInTime
  BY DEF Init, AllDueInTime, DueInTime, Active
<1>2. TypeOK /\ AllDueInTime /\ [Next]_vars => AllDueInTime'
  <2> SUFFICES ASSUME TypeOK, AllDueInTime, [Next]_vars PROVE AllDueInTime'
    OBVIOUS
  <2>1. CASE Restart
    <3> SUFFICES ASSUME NEW s \in Sets, Active(sets[s]) PROVE AboutToRun(s)'
      BY <2>1, AboutToRunIsDue DEF AllDueInTime, Restart, inputs, Active
    <3>1. [on |-> "set", set |-> s] \in events'
      BY <2>1 DEF Restart, Active
    <3>2. QED  BY <3>1 DEF AboutToRun, Enqueued
  <2>2. CASE UNCHANGED vars
    <3> SUFFICES ASSUME NEW s \in Sets PROVE DueInTime(s)'
      BY DEF AllDueInTime
    <3>1. AboutToRun(s) => AboutToRun(s)'
      BY <2>2, StillAboutToRun DEF vars
    <3>2. QED  BY <2>2, <3>1, StillDueInTime DEF vars, AllDueInTime
  <2>3. QED
    BY <2>1, <2>2, ChangeDue, TakenDue, MovedDue, WorkerDue DEF Next
<1>3. AllDueInTime => PolledAreDue
  BY DEF AllDueInTime, DueInTime, PolledAreDue
<1>4. QED  BY <1>1, <1>2, <1>3, InitType, NextType, PTL DEF Spec
=============================================================================
