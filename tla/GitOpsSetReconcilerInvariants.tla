------------------- MODULE GitOpsSetReconcilerInvariants -------------------
(***************************************************************************)
(* The inductive invariants behind the theorems about GitOpsSetReconciler. *)
(* TLC checks IndInv too.                                                  *)
(***************************************************************************)
EXTENDS GitOpsSetReconciler

\* TypeOK is inductive with two facts: a set of entries is finite, and a
\* resource is at hand while one is patched or created.
TypeInv ==
  /\ TypeOK
  /\ IsFiniteSet(job.entries)
  /\ job.pc \in {"patch", "create"} => job.todo # <<>>

\* Resources that nobody but their foreign owner may touch, and the sets of
\* references that name none of them.
Protected == Preexisting \ UserIds
Unclaiming(refs) == \A ref \in refs : ref.id \notin Protected

\* ForeignUntouched is inductive once no inventory, wherever a copy of it is
\* kept, and no step of the reconciliation in progress names such a resource.
ForeignInv ==
  /\ ForeignUntouched
  /\ \A s \in Sets :
       /\ Unclaiming(obj[s].inventory) /\ Unclaiming(cache[s].inventory)
       /\ \A o \in watch[s] : Unclaiming(o.inventory)
  /\ Unclaiming(job.snap.inventory)
  /\ Unclaiming(job.entries)
  /\ Unclaiming(job.remove)
  /\ job.pc \in {"patch", "create"} => Head(job.todo).ref.id \notin Protected

\* The versions the informer holds or has yet to receive.
Known(s) == {cache[s]} \cup watch[s]

\* Versions only grow: the cache is behind the server, what is on its way is
\* ahead of the cache, and a copy with the server's version is the server's.
\* The copy the worker holds is no newer than the cache; it may differ from its
\* version in the request it acknowledges.
VersionInv ==
  /\ \A s \in Sets :
       /\ cache[s].rv <= obj[s].rv
       /\ \A o \in watch[s] : cache[s].rv < o.rv /\ o.rv <= obj[s].rv
       /\ \A o \in Known(s) : o.rv = obj[s].rv => o = obj[s]
  /\ job.pc # "idle" =>
       /\ job.snap.rv <= cache[job.set].rv
       /\ job.snap.rv = obj[job.set].rv =>
            [job.snap EXCEPT !.handled = 0] = [obj[job.set] EXCEPT !.handled = 0]

Live(o) == o.exists /\ o.finalizer /\ ~o.deleting
Working == job.pc \in {"render", "apply", "patch", "create", "prune", "status"}

\* WorkIsGuarded is inductive with this: while any copy of a set looks alive,
\* the set is there with its finalizer, since only a worker that saw the newest
\* version, and saw it deleted, takes the finalizer away.
GuardInv ==
  /\ WorkIsGuarded
  /\ \A s \in Sets :
       /\ \A o \in Known(s) : Live(o) => obj[s].exists /\ obj[s].finalizer
       /\ obj[s].deleting => obj[s].exists /\ obj[s].finalizer
  /\ Working => Live(job.snap)
  /\ job.pc = "finalize" => job.snap.exists /\ job.snap.finalizer /\ job.snap.deleting
  /\ job.pc = "addFinalizer" => job.snap.exists /\ ~job.snap.finalizer

\* While a set is finalized, what was deleted stays deleted.
FinalizeInv ==
  job.pc = "finalize" =>
    \A ref \in job.snap.inventory \ job.remove : cluster[ref.id].owner # job.set

\* What the theorems about the finalizer rest on.
SafeInv == VersionInv /\ GuardInv /\ FinalizeInv

\* What was rendered and is recorded already, in a form that can be read, is among
\* the entries as soon as its turn has come, and nothing among the entries is left
\* to prune.
AppliedInv ==
  LET recorded(ref) ==
        ref \in job.snap.inventory /\ Readable(ref) => ref \in job.entries
  IN
  /\ job.pc \in {"apply", "patch", "create"} =>
       \A n \in DOMAIN job.resources :
         \/ recorded(job.resources[n].ref)
         \/ \E k \in DOMAIN job.todo : job.todo[k] = job.resources[n]
  /\ job.pc \in {"patch", "create"} => recorded(Head(job.todo).ref)
  /\ job.pc = "prune" =>
       /\ job.remove \subseteq job.snap.inventory \ job.entries
       /\ \A n \in DOMAIN job.resources : recorded(job.resources[n].ref)

\* A copy o of a set is no later than p in what its status answers to.
Precedes(o, p) == o.gen <= p.gen /\ o.requested <= p.requested
\* The status of o answers to no more than p asks for.
Answered(o, p) == o.observed <= p.gen /\ o.handled <= p.requested

\* What the status of a set answers to is in every copy that work can start from,
\* and in the copy that is being worked on.
StatusInv ==
  /\ \A s \in Sets :
       /\ Answered(obj[s], obj[s])
       /\ ~obj[s].exists => obj[s].observed = 0 /\ obj[s].handled = 0
       /\ \A o \in Known(s) :
            /\ Answered(o, o)
            /\ Live(o) => /\ Precedes(o, obj[s]) /\ Answered(obj[s], o)
                          /\ \A p \in Known(s) : Live(p) /\ o.rv <= p.rv => Precedes(o, p)
  /\ Working =>
       /\ job.snap.handled = job.snap.requested
       /\ Precedes(job.snap, obj[job.set]) /\ Answered(obj[job.set], job.snap)
       /\ \A o \in Known(job.set) : Live(o) => Precedes(job.snap, o)

\* The strengthenings together: what every step preserves.
IndInv == TypeInv /\ ForeignInv /\ SafeInv /\ AppliedInv /\ StatusInv

-----------------------------------------------------------------------------
(* With fresh reads and the faults that a retry repairs.                   *)

\* Reads that are up to date, no restart, references that can be read, and no fault
\* that is not repaired: a Delete that fails, a status that is not written, a Create
\* with its answer lost.
Fresh ==
  /\ MaxStale = 0 /\ ~Crashes /\ Unreadable = {}
  /\ Faults \cap ({"delete"} \X {"refused", "lost"}
                  \cup {<<"status", "refused">>, <<"create", "lost">>}) = {}

IdsOf(refs) == {ref.id : ref \in refs}

\* The copy that is worked on has the inventory of the set, and what the set owns is
\* among what is recorded, what will be, and what is still to prune.
OwnedInv ==
  /\ \A s \in Sets : obj[s] \in Known(s)
  /\ job.pc \notin {"idle", "addFinalizer"} => job.snap.inventory = obj[job.set].inventory
  /\ \A s \in Sets : job.pc = "idle" \/ s # job.set => OwnedIds(s) \subseteq RecordedIds(s)
  /\ job.pc \in {"addFinalizer", "render", "finalize"} => OwnedIds(job.set) \subseteq RecordedIds(job.set)
  /\ job.pc \in {"apply", "patch", "create"} =>
       OwnedIds(job.set) \subseteq RecordedIds(job.set) \cup IdsOf(job.entries)
  /\ job.pc = "patch" => Head(job.todo).ref.id \in IdsOf(job.entries)
  /\ job.pc \in {"render", "apply", "patch", "create", "prune"} => job.outcome = "ok"
  /\ job.pc = "prune" => OwnedIds(job.set) \subseteq IdsOf(job.entries \cup job.remove)
  /\ job.pc = "status" =>
       OwnedIds(job.set) \subseteq IF job.outcome = "ok" THEN IdsOf(job.entries)
                                  ELSE RecordedIds(job.set)

FreshInv == Fresh => OwnedInv

-----------------------------------------------------------------------------
(* What was rendered, and what Ready says of it.                           *)

\* What was rendered is at hand, applied in part or whole.
AtHand ==
  \/ job.pc \in {"apply", "patch", "create", "prune"}
  \/ job.pc = "status" /\ job.outcome = "ok"

Renders(spec, objs) ==
  \E d \in Data : Rendering[spec, d].kind = "ok" /\ Rendering[spec, d].objs = objs

\* The resources at hand are what the copy's spec renders for some data; the entries
\* and what is still to apply are among them; and unless something failed, there is
\* an entry for each of them that is not still to apply.
RenderedInv ==
  /\ AtHand =>
       /\ Renders(job.snap.spec, job.resources)
       /\ \A ref \in job.entries : \E n \in DOMAIN job.resources : job.resources[n].ref = ref
       /\ \A k \in DOMAIN job.todo : \E n \in DOMAIN job.resources : job.resources[n] = job.todo[k]
       /\ job.failed \/ \A n \in DOMAIN job.resources :
            \/ job.resources[n].ref \in job.entries
            \/ \E k \in DOMAIN job.todo : job.todo[k] = job.resources[n]
  /\ job.pc = "patch" => Head(job.todo).ref \in job.entries
  /\ job.pc = "render" => job.entries = {}
  /\ job.pc \in {"render", "prune", "status"} => job.todo = <<>>

\* Whatever may be rendered.
AllRendered == UNION {RefsOf(Rendering[p]) : p \in Specs \X Data}

\* Every copy of every inventory names only what some spec rendered once.
RecordInv ==
  /\ \A s \in Sets : \A o \in Known(s) \cup {obj[s]} : o.inventory \subseteq AllRendered
  /\ job.snap.inventory \subseteq AllRendered

\* No template changes the API version of a resource.
FixedVersions == \A r, q \in AllRendered : r.id = q.id => r = q

\* A generation has one spec, so that the copy has the set's spec while it has its
\* generation.
GenerationInv ==
  Working /\ job.snap.gen = obj[job.set].gen => job.snap.spec = obj[job.set].spec

ReadyInv == RenderedInv /\ (Fresh => ReadyIsTruthful /\ GenerationInv)

-----------------------------------------------------------------------------
(* What is left when nothing is left to do.                                *)

\* Two copies of a set that is there are of the same generation only if users gave
\* them the same.
Same(o, p) ==
  /\ o.exists /\ p.exists
  /\ o.spec = p.spec /\ o.suspend = p.suspend /\ o.deleting = p.deleting

\* No copy is of a later generation than the set, and one of its generation agrees.
CopiesInv ==
  \A s \in Sets : \A o \in Known(s) :
    o.gen <= obj[s].gen /\ (o.gen = obj[s].gen /\ obj[s].exists => Same(o, obj[s]))

\* One set, with renderings whose resources users leave alone, that give a resource one
\* contents, and that wait for no artifact when a source is only polled.
Alone ==
  /\ \A s, t \in Sets : s = t
  /\ \A spec \in Specs, d \in Data :
       LET r == Rendering[spec, d] IN
       /\ \A n \in DOMAIN r.objs : r.objs[n].ref.id \notin UserIds
       /\ \A n, m \in DOMAIN r.objs :
            r.objs[n].ref.id = r.objs[m].ref.id => r.objs[n].val = r.objs[m].val
       /\ r.kind = "noArtifact" => spec \notin PolledSpecs

\* No two versions of a resource, and none that s does not own.
OneEach(refs) == \A r, q \in refs : r.id = q.id => r = q
Held(s, refs) == OneEach(refs) /\ \A ref \in refs : cluster[ref.id].owner = s

\* What is recorded is there and is the set's, and so is what has been applied, until a
\* set is deleted.
HeldInv ==
  /\ \A s \in Sets : IdsOf(obj[s].inventory) \cap UserIds = {}
  /\ job.pc \in {"idle", "addFinalizer"} =>
       \A s \in Sets : obj[s].deleting \/ Held(s, obj[s].inventory)
  /\ job.pc \in {"render", "apply", "patch", "create"} =>
       Held(job.set, job.snap.inventory \cup job.entries)
  /\ job.pc = "prune" => Held(job.set, job.entries) /\ OneEach(job.entries \cup job.remove)
  /\ job.pc = "status" => Held(job.set, NewInventory(job))
  /\ job.pc = "finalize" => obj[job.set].deleting

\* Unless something failed, what is at hand is applied or still to be.
DoneInv ==
  /\ job.pc = "patch" => job.got = cluster[Head(job.todo).ref.id]
  /\ AtHand /\ ~job.failed =>
       \A n \in DOMAIN job.resources :
         \/ \E k \in DOMAIN job.todo : job.todo[k] = job.resources[n]
         \/ cluster[job.resources[n].ref.id] = [owner |-> job.set, val |-> job.resources[n].val]

\* Nothing will send the worker to s again: no request is queued, due or on its way.
Quiet(s) ==
  /\ s \notin queue \cup timer
  /\ obj[s].exists /\ ~obj[s].suspend
  /\ cache[s].exists /\ cache[s].gen = obj[s].gen

\* What Render returns for the copy of the set and its sources as they are now.
Now == Rendering[job.snap.spec, data[job.set]]

\* Work that nothing will follow is on the newest generation, and unless the sources are
\* polled, on what they hold.
CurrentInv ==
  /\ Working => (job.outcome = "noArtifact" => job.snap.spec \notin PolledSpecs)
  /\ Working /\ Quiet(job.set) =>
       /\ job.snap.gen = obj[job.set].gen
       /\ job.snap.spec \in PolledSpecs \/
            /\ AtHand => Now.kind = "ok" /\ Now.objs = job.resources
            /\ job.pc = "status" /\ job.outcome # "ok" => Now.kind = job.outcome

\* The set owns just what its spec renders, with those contents.
Clean(s) ==
  LET r == Rendering[obj[s].spec, data[s]] IN
  r.kind = "ok" =>
    /\ OwnedIds(s) = IdsOf(RefsOf(r))
    /\ \A n \in DOMAIN r.objs : cluster[r.objs[n].ref.id].val = r.objs[n].val

QuietInv ==
  job.pc = "idle" =>
    \A s \in Sets : Quiet(s) => obj[s].spec \notin PolledSpecs /\ Clean(s)

TidyInv == HeldInv /\ DoneInv /\ CurrentInv /\ QuietInv
SettledInv == CopiesInv /\ (Fresh /\ Alone => TidyInv)
=============================================================================
