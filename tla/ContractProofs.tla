---------------------------- MODULE ContractProofs ----------------------------
(***************************************************************************)
(* The refinement: what a generator does, step by step, keeps the promise  *)
(* that GeneratorContract states of its call.                              *)
(***************************************************************************)
EXTENDS GenerateCommandProofs, SequenceLemmas, FiniteSetTheorems

-----------------------------------------------------------------------------
(* The contract's operators on data are those of the model. *)

LEMMA SameOutcomes ==
  /\ Promise!Failure = Failure /\ Promise!Waits = Waits
  /\ \A s : Promise!Elements(s) = Elements(s)
BY DEF Promise!Failure, Promise!Waits, Promise!Elements, Failure, Waits, Elements

LEMMA SameCount ==
  ASSUME NEW S PROVE Promise!Cardinality(S) = Cardinality(S)
BY DEF Promise!Cardinality, Cardinality, Promise!IsFiniteSet, IsFiniteSet

LEMMA SameClusters ==
  ASSUME NEW S PROVE Promise!SetToSeqs(S) = SetToSeqs(S)
BY SameCount DEF Promise!SetToSeqs, SetToSeqs

LEMMA SameFlat ==
  ASSUME NEW s PROVE Promise!FlattenSeq(s) = FlattenSeq(s)
BY DEF Promise!FlattenSeq, FlattenSeq

LEMMA SameParsed ==
  ASSUME NEW g, NEW answer PROVE Promise!Parsed(g, answer) = Parsed(g, answer)
BY SameFlat, SameOutcomes DEF Promise!Parsed, Parsed, Promise!ParsedArray, ParsedArray, Promise!ParsedSingle, ParsedSingle, Promise!ParsedPath, ParsedPath, Promise!Range, Range

-----------------------------------------------------------------------------
(* The invariant: what a call knows, it has seen at some moment. *)

IsWorld(w) ==
  /\ DOMAIN w = WorldFields
  /\ w.served \subseteq DOMAIN Trees /\ w.local \in DOMAIN Trees \cup {Missing}
  /\ w.secret \in {"missing", "empty", "bad", "good"}
  /\ \E v \in Worlds : w.pulls = v.pulls

\* A call has moments, the present one among them.
MomentsInv ==
  /\ IsWorld(world)
  /\ reader = "local" <=> fetcher = "local"
  /\ call.pc = "idle" => call.gen = Nothing /\ moments = {}
  /\ call.pc # "idle" =>
       /\ IsFiniteSet(moments) /\ Seen(world) \in moments
       /\ \A m \in moments : DOMAIN m = WorldFields
       /\ call.before \in Nat /\ call.before <= faults

\* Each generator goes through steps of its own.
KindInv ==
  /\ call.pc = "read" => call.gen.kind \in {"list", "config", "cluster", "image"}
  /\ call.pc \in {"files", "directories"} => call.gen.kind = call.pc
  /\ call.pc = "remove" => call.gen.kind \in {"files", "directories"}
  /\ call.pc \in {"secret", "pulls"} => call.gen.kind = "pullRequests"
  /\ call.pc \in {"headers", "tls", "request"} => call.gen.kind = "api"

\* The artifact of the repository, and while it is served a moment at which it was.
Stores(m, r) == m.artifact = r /\ r \in m.served
LoadedInv ==
  /\ call.pc \in {"load", "mkdir", "fetch"} => call.elements = <<>> /\ call.excluded = {}
  /\ call.pc \in {"mkdir", "fetch"} =>
       \/ reader = "local" /\ call.artifact = "local"
       \/ /\ reader = "cluster" /\ call.artifact \notin {Missing, NoArtifact}
          /\ \E m \in moments : m.artifact = call.artifact
          /\ call.artifact \in world.served => \E m \in moments : Stores(m, call.artifact)

\* The items of a generator without the first ones.
StillToDo(t, items, n) == t = [j \in 1 .. Len(items) - n |-> items[n + j]]

\* What the first items of directories include, one after the other, and exclude.
FirstIncluded(g, tree, n) == FlattenSeq([i \in 1 .. n |-> Included(g, tree)[i]])
FirstExcluded(g, n) == {g.items[i].path : i \in {j \in 1 .. n : g.items[j].exclude}}

\* The parser has done the first items of its generator, and has what they give.
ParsedUpTo(n) ==
  LET g == call.gen
      tree == call.tree
  IN
  /\ n <= Len(g.items)
  /\ StillToDo(call.todo, g.items, n)
  /\ call.pc = "files" =>
       /\ \A i \in 1 .. n : Parses(tree, g.items[i])
       /\ call.elements = [i \in 1 .. n |-> tree[g.items[i]]]
  /\ call.pc = "directories" =>
       /\ call.elements = FirstIncluded(g, tree, n) /\ call.elements \in Seq(Range(Listing))
       /\ call.excluded = FirstExcluded(g, n)
       /\ \A i \in 1 .. n : g.items[i].exclude \/ ~g.items[i].malformed
ParserInv ==
  call.pc \in {"files", "directories"} =>
    /\ \E m \in moments : \E r \in DOMAIN Trees : Stores(m, r) /\ call.tree = Trees[r]
    /\ \E n \in Nat : ParsedUpTo(n)

\* The credentials are those of some moment, or were not to be had.
CredentialsInv ==
  /\ call.pc = "pulls" =>
       IF call.gen.secret THEN \E m \in moments : m.secret = call.secret /\ m.secret \in {"bad", "good"}
       ELSE call.secret = "none"
  /\ call.pc \in {"tls", "request"} /\ call.gen.headers => \E m \in moments : m.headers # Missing
  /\ call.pc = "request" =>
       IF call.gen.secret THEN \/ faults > call.before /\ call.secret = "none"
                               \/ \E m \in moments : m.secret = call.secret
       ELSE call.secret = "none"

\* What a call may return, and what it is about to.
MayReturn(o) ==
  \/ \E w \in Promise!Met : o \in Promise!Promised(call.gen, w)
  \/ (faults > call.before \/ Cardinality(moments) > 1) /\ o = Failure
ReturnInv ==
  call.pc \in {"remove", "done"} => call.outcome # Nothing /\ MayReturn(call.outcome)

Knows == LoadedInv /\ ParserInv /\ CredentialsInv /\ ReturnInv
ContractInv == MomentsInv /\ KindInv /\ Knows

-----------------------------------------------------------------------------
(* What is promised, and of which worlds. *)

\* What the client sees of a world.
LEMMA SeenFields ==
  ASSUME NEW w, IsWorld(w), reader \in Readers
  PROVE  /\ DOMAIN Seen(w) = WorldFields
         /\ Seen(w).pulls = w.pulls /\ Seen(w).answer = w.answer
         /\ reader = "cluster" => Seen(w) = w
         /\ reader = "fake" => Seen(w).artifact = Missing
         /\ reader = "local" => Seen(w).artifact = w.local /\ Seen(w).served = {w.local}
<1>1. CASE reader = "cluster"
  BY <1>1 DEF IsWorld, Seen
<1>2. CASE reader = "fake"
  BY <1>2 DEF IsWorld, Seen, WorldFields
<1>3. CASE reader = "local"
  BY <1>3 DEF IsWorld, Seen, WorldFields
<1> QED BY <1>1, <1>2, <1>3 DEF Readers

\* Any three moments meet in a world: the credentials of two, and the data of one.
LEMMA MomentsMeet ==
  ASSUME NEW m \in moments, NEW s \in moments, NEW h \in moments, DOMAIN m = WorldFields
  PROVE  \E w \in Promise!Met :
           /\ w.artifact = m.artifact /\ w.served = m.served /\ w.config = m.config
           /\ w.clusters = m.clusters /\ w.image = m.image /\ w.pulls = m.pulls
           /\ w.answer = m.answer /\ w.secret = s.secret /\ w.headers = h.headers
<1>1. PICK w : w = [m EXCEPT !.secret = s.secret, !.headers = h.headers]
  BY Zenon
<1>2. w \in Promise!Met
  <2>1. \E a, b, v \in moments : w = [v EXCEPT !.secret = a.secret, !.headers = b.headers]
    BY <1>1
  <2> QED BY <2>1 DEF Promise!Met
<1>3. /\ w.artifact = m.artifact /\ w.served = m.served /\ w.config = m.config
      /\ w.clusters = m.clusters /\ w.image = m.image /\ w.pulls = m.pulls
      /\ w.answer = m.answer /\ w.secret = s.secret /\ w.headers = h.headers
  BY <1>1 DEF WorldFields
<1> QED BY <1>2, <1>3, Zenon

LEMMA PromisedBy ==
  ASSUME NEW g, NEW w
  PROVE  /\ g.kind = "list" => Promise!Promised(g, w) = {OfList(g)}
         /\ g.kind \in {"files", "directories"} => Promise!Promised(g, w) = {Promise!FromArchive(g, w)}
         /\ g.kind = "config" => Promise!Promised(g, w) = {OfConfig(w)}
         /\ g.kind = "cluster" => Promise!Promised(g, w) = OfClusters(g, w)
         /\ g.kind = "image" => Promise!Promised(g, w) = {OfImage(w)}
         /\ g.kind = "pullRequests" => Promise!Promised(g, w) = {Promise!FromPullRequests(g, w)}
         /\ g.kind = "api" => Promise!Promised(g, w) = {Promise!FromAPI(g, w)}
<1>1. CASE g.kind = "list"
  BY <1>1, SameOutcomes DEF Promise!Promised, OfList
<1>2. CASE g.kind \in {"files", "directories"}
  BY <1>2, SameOutcomes DEF Promise!Promised
<1>3. CASE g.kind = "config"
  BY <1>3, SameOutcomes DEF Promise!Promised, OfConfig, Promise!FromConfig
<1>4. CASE g.kind = "cluster"
  BY <1>4, SameOutcomes, SameClusters DEF Promise!Promised, OfClusters
<1>5. CASE g.kind = "image"
  BY <1>5, SameOutcomes DEF Promise!Promised, OfImage, Promise!FromImage
<1>6. CASE g.kind = "pullRequests"
  BY <1>6, SameOutcomes DEF Promise!Promised
<1>7. CASE g.kind = "api"
  BY <1>7, SameOutcomes DEF Promise!Promised
<1> QED BY <1>1, <1>2, <1>3, <1>4, <1>5, <1>6, <1>7

-----------------------------------------------------------------------------
(* What a step of a call leaves alone, and how one ends. *)

Framed ==
  /\ UNCHANGED <<world, reader, fetcher, moments, changes>>
  /\ call.pc \notin {"idle", "done"} /\ call'.pc # "idle"
  /\ call'.gen = call.gen /\ call'.before = call.before
  /\ faults' \in {faults, faults + 1}

LEMMA StepFrames ==
  ASSUME Inv, Step
  PROVE  Framed
<1>1. UNCHANGED <<world, reader, fetcher, moments, changes>>
  BY Zenon DEF Step, LoadRepository, MakeTempDir, Fetch, ReadFile, ScanItem, EndParsing,
       RemoveTempDir, Read, ReadToken, ListPulls, AddHeaders, CreateTLSConfig, Request,
       OnlyCall, Quiet
<1>2. call'.pc # "idle"
  BY StepsOfParser, StepsOfOthers DEF Inv, Step, Calls
<1>3. call.pc \notin {"idle", "done"}
  BY DEF Step, LoadRepository, MakeTempDir, Fetch, ReadFile, ScanItem, EndParsing,
       RemoveTempDir, Read, ReadToken, ListPulls, AddHeaders, CreateTLSConfig, Request
<1>4. faults' \in {faults, faults + 1}
  BY Zenon DEF Step, LoadRepository, MakeTempDir, Fetch, ReadFile, ScanItem, EndParsing,
       RemoveTempDir, Read, ReadToken, ListPulls, AddHeaders, CreateTLSConfig, Request, Count
<1>5. call'.gen = call.gen /\ call'.before = call.before
  <2> USE DEF Inv, CallInv, Fields, Goes, Ends, EndsParsing
  <2>1. CASE LoadRepository \/ MakeTempDir \/ Fetch
    BY <2>1 DEF LoadRepository, MakeTempDir, Fetch
  <2>2. CASE ReadFile \/ ScanItem \/ EndParsing \/ RemoveTempDir
    BY <2>2 DEF ReadFile, ScanItem, EndParsing, RemoveTempDir
  <2>3. CASE Read \/ ReadToken \/ ListPulls
    BY <2>3 DEF Read, ReadToken, ListPulls
  <2>4. CASE AddHeaders \/ CreateTLSConfig \/ Request
    BY <2>4 DEF AddHeaders, CreateTLSConfig, Request
  <2> QED BY <2>1, <2>2, <2>3, <2>4 DEF Step
<1> QED BY <1>1, <1>2, <1>3, <1>4, <1>5 DEF Framed

\* Two moments that differ are more than one.
LEMMA ManyMoments ==
  ASSUME IsFiniteSet(moments), NEW m \in moments, NEW n \in moments, m # n
  PROVE  Cardinality(moments) > 1
<1> DEFINE rest == moments \ {n}
<1>1. m \in rest /\ rest \in SUBSET moments /\ rest # moments
  OBVIOUS
<1>2. /\ IsFiniteSet(rest) /\ Cardinality(rest) <= Cardinality(moments)
      /\ Cardinality(rest) # Cardinality(moments)
  BY <1>1, FS_Subset
<1>3. Cardinality(rest) # 0
  BY <1>1, <1>2, FS_EmptySet
<1> HIDE DEF rest
<1>4. Cardinality(rest) \in Nat /\ Cardinality(moments) \in Nat
  BY <1>2, FS_CardinalityType
<1> QED BY <1>2, <1>3, <1>4

\* What a call may return it may still return later, and an error when it is refused.
LEMMA MayStillReturn ==
  ASSUME Framed, MomentsInv, NEW o, faults \in Nat,
         MayReturn(o) \/ (faults' = faults + 1 /\ o = Failure)
  PROVE  MayReturn(o)'
<1>1. Promise!Met' = Promise!Met
  BY DEF Framed, Promise!Met
<1>2. faults' > call'.before \/ ~(faults > call.before)
  BY DEF Framed, MomentsInv
<1>3. faults' = faults + 1 => faults' > call'.before
  BY DEF Framed, MomentsInv
<1> QED BY <1>1, <1>2, <1>3, Zenon DEF MayReturn, Framed

\* A call that ends knows nothing any more but its outcome.
LEMMA EndKnows ==
  ASSUME Framed, MomentsInv, faults \in Nat, NEW o, o # Nothing, call'.outcome = o,
         \/ call'.pc = "done"
         \/ call'.pc = "remove" /\ call.gen.kind \in {"files", "directories"},
         MayReturn(o) \/ (faults' = faults + 1 /\ o = Failure)
  PROVE  KindInv' /\ Knows'
<1>1. MayReturn(o)'
  BY MayStillReturn
<1>2. ReturnInv'
  BY <1>1, Zenon DEF ReturnInv
<1> QED BY <1>2 DEF Framed, KindInv, Knows, LoadedInv, ParserInv, CredentialsInv

\* What the conditions of the theorem say of generators, files and settings.
NothingIsNoOutcome == \A s : Nothing \notin {Failure, Waits, Elements(s)}

Faithful ==
  /\ SelectionsAgree /\ NothingIsNoOutcome
  /\ \A g \in Generators : g.kind = "directories" => \A r \in DOMAIN Trees : MatchesDirectories(g, Trees[r])
  /\ \A m \in Modes : m.repositoryRoot => m.command /\ m.disableClusterAccess
  /\ \A g \in Generators : g.kind = "api" /\ g.secret => g.private

-----------------------------------------------------------------------------
(* The steps of the parser of archives. *)

LEMMA LoadKnows ==
  ASSUME Inv, MomentsInv, LoadedInv, Framed, NothingIsNoOutcome, LoadRepository
  PROVE  KindInv' /\ Knows'
<1> DEFINE found == Seen(world).artifact
<1>1. PICK ok \in Answers(reader # "local") :
        /\ Count(ok)
        /\ call' = IF reader = "local" THEN [Goes("mkdir") EXCEPT !.artifact = "local"]
                   ELSE IF ~ok \/ found = Missing THEN Ends(Failure)
                   ELSE IF found = NoArtifact THEN Ends(Waits)
                   ELSE [Goes("mkdir") EXCEPT !.artifact = found]
  BY Zenon DEF LoadRepository
<1>2. faults' = (IF ok THEN faults ELSE faults + 1) /\ ok \in BOOLEAN
  BY <1>1 DEF Answers, Count
<1>3. /\ DOMAIN call = Fields /\ faults \in Nat /\ call.pc = "load" /\ reader \in Readers
      /\ call.gen.kind \in {"files", "directories"} /\ IsWorld(world) /\ Seen(world) \in moments
      /\ call.elements = <<>> /\ call.excluded = {}
  BY DEF Inv, TypeOK, CallInv, LoadRepository, MomentsInv, LoadedInv
<1>4. PICK w \in Promise!Met : w.artifact = found
  BY <1>3, SeenFields, MomentsMeet
<1>5. CASE reader = "local"
  <2>1. call' = [Goes("mkdir") EXCEPT !.artifact = "local"]
    BY <1>1, <1>5
  <2>2. call'.pc = "mkdir" /\ call'.artifact = "local" /\ call'.elements = <<>> /\ call'.excluded = {}
    BY <2>1, <1>3 DEF Goes, Fields
  <2> QED BY <2>2, <1>5 DEF Framed, KindInv, Knows, LoadedInv, ParserInv, CredentialsInv, ReturnInv
<1>6. CASE reader # "local" /\ (~ok \/ found = Missing)
  <2>1. call' = Ends(Failure)
    BY <1>1, <1>6
  <2>2. call'.pc = "done" /\ call'.outcome = Failure
    BY <2>1, <1>3 DEF Ends, Fields
  <2>3. found = Missing => MayReturn(Failure)
    <3>1. found = Missing => Promise!FromArchive(call.gen, w) = Failure
      BY <1>4, SameOutcomes, NamesAssumption DEF Promise!FromArchive
    <3>2. Promise!Promised(call.gen, w) = {Promise!FromArchive(call.gen, w)}
      BY <1>3, PromisedBy
    <3> QED BY <3>1, <3>2, Zenon DEF MayReturn
  <2> QED BY <1>2, <1>3, <1>6, <2>2, <2>3, EndKnows DEF NothingIsNoOutcome
<1>7. CASE reader # "local" /\ ok /\ found # Missing /\ found = NoArtifact
  <2>1. call' = Ends(Waits)
    BY <1>1, <1>7
  <2>2. call'.pc = "done" /\ call'.outcome = Waits
    BY <2>1, <1>3 DEF Ends, Fields
  <2>3. MayReturn(Waits)
    <3>1. Promise!FromArchive(call.gen, w) = Waits
      BY <1>4, <1>7, SameOutcomes DEF Promise!FromArchive
    <3>2. Promise!Promised(call.gen, w) = {Promise!FromArchive(call.gen, w)}
      BY <1>3, PromisedBy
    <3> QED BY <3>1, <3>2, Zenon DEF MayReturn
  <2> QED BY <1>3, <2>2, <2>3, EndKnows DEF NothingIsNoOutcome
<1>8. CASE reader # "local" /\ ok /\ found # Missing /\ found # NoArtifact
  <2>1. call' = [Goes("mkdir") EXCEPT !.artifact = found]
    BY <1>1, <1>8
  <2>2. call'.pc = "mkdir" /\ call'.artifact = found /\ call'.elements = <<>> /\ call'.excluded = {}
    BY <2>1, <1>3 DEF Goes, Fields
  <2>3. reader = "cluster" /\ Seen(world) = world
    BY <1>3, <1>8, SeenFields DEF Readers
  <2>4. LoadedInv'
    BY <2>2, <2>3, <1>3, <1>8 DEF Framed, LoadedInv, Stores
  <2> QED BY <2>2, <2>4 DEF KindInv, Knows, ParserInv, CredentialsInv, ReturnInv
<1> QED BY <1>5, <1>6, <1>7, <1>8, <1>2

LEMMA MakeKnows ==
  ASSUME Inv, MomentsInv, LoadedInv, Framed, NothingIsNoOutcome, MakeTempDir
  PROVE  KindInv' /\ Knows'
<1>1. PICK ok \in Answers(TRUE) :
        Count(ok) /\ call' = IF ok THEN Goes("fetch") ELSE Ends(Failure)
  BY Zenon DEF MakeTempDir
<1>2. faults' = (IF ok THEN faults ELSE faults + 1) /\ ok \in BOOLEAN
  BY <1>1 DEF Answers, Count
<1>3. DOMAIN call = Fields /\ faults \in Nat /\ call.pc = "mkdir"
  BY DEF Inv, TypeOK, CallInv, MakeTempDir
<1>4. CASE ok
  <2>1. /\ call'.pc = "fetch" /\ call'.artifact = call.artifact
        /\ call'.elements = call.elements /\ call'.excluded = call.excluded
    BY <1>1, <1>3, <1>4 DEF Goes, Fields
  <2>2. LoadedInv'
    BY <2>1, <1>3 DEF Framed, LoadedInv, Stores
  <2> QED BY <2>1, <2>2 DEF KindInv, Knows, ParserInv, CredentialsInv, ReturnInv
<1>5. CASE ~ok
  <2>1. call'.pc = "done" /\ call'.outcome = Failure
    BY <1>1, <1>3, <1>5 DEF Ends, Fields
  <2> QED BY <1>2, <1>3, <1>5, <2>1, EndKnows DEF NothingIsNoOutcome
<1> QED BY <1>4, <1>5

LEMMA FetchKnows ==
  ASSUME Inv, MomentsInv, LoadedInv, Framed, NothingIsNoOutcome, Fetch
  PROVE  KindInv' /\ Knows'
<1>1. PICK ok \in Answers(TRUE) :
        /\ Count(ok)
        /\ call' = IF ~ok \/ Unpacked = Missing THEN EndsParsing(Failure)
                   ELSE [Goes(call.gen.kind) EXCEPT !.tree = Trees[Unpacked], !.todo = call.gen.items]
  BY Zenon DEF Fetch
<1>2. faults' = (IF ok THEN faults ELSE faults + 1) /\ ok \in BOOLEAN
  BY <1>1 DEF Answers, Count
<1>3. /\ DOMAIN call = Fields /\ faults \in Nat /\ call.pc = "fetch" /\ reader \in Readers
      /\ call.gen.kind \in {"files", "directories"} /\ IsWorld(world) /\ Seen(world) \in moments
      /\ call.elements = <<>> /\ call.excluded = {} /\ call.gen \in Generators
      /\ DOMAIN Seen(world) = WorldFields /\ IsFiniteSet(moments)
      /\ \A m \in moments : DOMAIN m = WorldFields
  BY SeenFields DEF Inv, TypeOK, CallInv, Fetch, MomentsInv, LoadedInv
<1>4. Unpacked # Missing =>
        /\ Unpacked \in DOMAIN Trees
        /\ \E m \in moments : Stores(m, Unpacked)
  <2>1. CASE reader = "local"
    BY <2>1, <1>3, SeenFields DEF Unpacked, MomentsInv, LoadedInv, IsWorld, Stores
  <2>2. CASE reader # "local"
    BY <2>2, <1>3, NamesAssumption DEF Unpacked, MomentsInv, LoadedInv, IsWorld
  <2> QED BY <2>1, <2>2
<1>5. Unpacked = Missing => MayReturn(Failure)
  <2>1. ASSUME NEW m \in moments, m.artifact = Missing \/ (m.artifact # NoArtifact /\ m.artifact \notin m.served)
        PROVE  MayReturn(Failure)
    <3>1. PICK w \in Promise!Met : w.artifact = m.artifact /\ w.served = m.served
      BY <1>3, MomentsMeet
    <3>2. Promise!FromArchive(call.gen, w) = Failure
      BY <2>1, <3>1, SameOutcomes, NamesAssumption DEF Promise!FromArchive
    <3>3. Promise!Promised(call.gen, w) = {Promise!FromArchive(call.gen, w)}
      BY <1>3, PromisedBy
    <3> QED BY <3>2, <3>3, Zenon DEF MayReturn
  <2>2. CASE reader = "local" /\ Unpacked = Missing
    <3>1. Seen(world).artifact = Missing
      BY <2>2, <1>3, SeenFields DEF Unpacked, MomentsInv, LoadedInv
    <3> QED BY <3>1, <1>3, <2>1
  <2>3. CASE reader # "local" /\ Unpacked = Missing
    <3>1. /\ call.artifact \notin world.served /\ reader = "cluster"
          /\ call.artifact \notin {Missing, NoArtifact}
      BY <2>3, <1>3, NamesAssumption DEF Unpacked, MomentsInv, LoadedInv, IsWorld
    <3>2. PICK m \in moments : m.artifact = call.artifact
      BY <1>3, <3>1 DEF LoadedInv
    <3>3. Seen(world) = world
      BY <3>1, <1>3, SeenFields
    <3>4. CASE world.artifact = call.artifact
      BY <3>1, <3>3, <3>4, <1>3, <2>1
    <3>5. CASE world.artifact # call.artifact
      <4>1. m # Seen(world)
        BY <3>2, <3>3, <3>5
      <4>2. Cardinality(moments) > 1
        BY <4>1, <3>2, <1>3, ManyMoments
      <4> QED BY <4>2, Zenon DEF MayReturn
    <3> QED BY <3>4, <3>5
  <2> QED BY <2>2, <2>3
<1>6. CASE ~ok \/ Unpacked = Missing
  <2>1. call' = EndsParsing(Failure)
    BY <1>1, <1>6, Zenon
  <2>2. call'.pc = "remove" /\ call'.outcome = Failure
    BY <2>1, <1>3 DEF EndsParsing, Fields
  <2> QED BY <1>2, <1>3, <1>5, <1>6, <2>2, EndKnows DEF NothingIsNoOutcome
<1>7. CASE ok /\ Unpacked # Missing
  <2>1. call' = [Goes(call.gen.kind) EXCEPT !.tree = Trees[Unpacked], !.todo = call.gen.items]
    BY <1>1, <1>7, Zenon
  <2>2. /\ call'.pc = call.gen.kind /\ call'.tree = Trees[Unpacked] /\ call'.todo = call.gen.items
        /\ call'.elements = <<>> /\ call'.excluded = {} /\ call'.gen = call.gen
    BY <2>1, <1>3 DEF Goes, Fields
  <2>3. ParsedUpTo(0)'
    <3>1. call.gen.items \in Seq(Range(call.gen.items))
      BY <1>3, ItemsAssumption
    <3>2. /\ Len(call.gen.items) \in Nat
          /\ call.gen.items = [j \in 1 .. Len(call.gen.items) |-> call.gen.items[j]]
      BY <3>1
    <3>3. StillToDo(call.gen.items, call.gen.items, 0)
      BY <3>2 DEF StillToDo
    <3>4. FirstIncluded(call.gen, call'.tree, 0) = <<>> /\ FirstExcluded(call.gen, 0) = {}
      BY FlattenNone DEF FirstIncluded, FirstExcluded
    <3> QED BY <2>2, <3>2, <3>3, <3>4 DEF ParsedUpTo
  <2>4. ParserInv'
    <3>1. \E m \in moments : \E r \in DOMAIN Trees : Stores(m, r) /\ call'.tree = Trees[r]
      BY <1>4, <1>7, <2>2, Zenon
    <3>2. \E n \in Nat : ParsedUpTo(n)'
      BY <2>3
    <3> QED BY <3>1, <3>2, Zenon DEF ParserInv, Framed, Stores
  <2> QED BY <2>2, <2>4, <1>3 DEF KindInv, Knows, LoadedInv, CredentialsInv, ReturnInv
<1> QED BY <1>6, <1>7, <1>2

\* The items to come, less the next one.
LEMMA NextItem ==
  ASSUME NEW items, Len(items) \in Nat, NEW n \in Nat, n <= Len(items), NEW t, StillToDo(t, items, n)
  PROVE  /\ t = <<>> <=> n = Len(items)
         /\ t # <<>> => /\ n + 1 <= Len(items) /\ Head(t) = items[n + 1]
                        /\ StillToDo(Tail(t), items, n + 1)
<1> DEFINE k == Len(items)
<1>1. k - n \in Nat /\ t = [j \in 1 .. k - n |-> items[n + j]]
  BY DEF StillToDo
<1> HIDE DEF k
<1>2. t \in Seq(Range(t)) /\ Len(t) = k - n /\ DOMAIN t = 1 .. k - n
  <2>1. t = [j \in 1 .. k - n |-> t[j]]
    BY <1>1
  <2> QED BY <1>1, <2>1, FunctionIsSequence
<1>3. t = <<>> <=> n = k
  <2>1. (t # <<>> => Len(t) # 0) /\ (t = <<>> => Len(t) = 0)
    BY <1>2, EmptySeq, Zenon
  <2>2. Len(t) = 0 <=> n = k
    BY <1>2 DEF k
  <2> QED BY <2>1, <2>2, Zenon
<1>4. ASSUME t # <<>>
      PROVE  n + 1 <= k /\ Head(t) = items[n + 1] /\ StillToDo(Tail(t), items, n + 1)
  <2>1. n + 1 <= k
    BY <1>3, <1>4 DEF k
  <2>2. Head(t) = items[n + 1]
    BY <1>1, <1>2, <2>1 DEF k
  <2>3. Tail(t) = [j \in 1 .. Len(t) - 1 |-> t[j + 1]]
    <3> DEFINE S == Range(t)
    <3> HIDE DEF S
    <3>1. t \in Seq(S)
      BY <1>2 DEF S
    <3>2. /\ Tail(t) \in Seq(S) /\ Len(Tail(t)) = Len(t) - 1
          /\ \A i \in 1 .. Len(Tail(t)) : Tail(t)[i] = t[i + 1]
      BY <3>1, <1>4, HeadTailProperties
    <3>3. Tail(t) \in [1 .. Len(t) - 1 -> S]
      BY <3>2, LenProperties
    <3> QED BY <3>2, <3>3
  <2>4. Tail(t) = [j \in 1 .. k - (n + 1) |-> items[n + 1 + j]]
    BY <1>1, <1>2, <2>1, <2>3 DEF k
  <2> QED BY <2>1, <2>2, <2>4 DEF StillToDo, k
<1> QED BY <1>3, <1>4 DEF k

LEMMA FileKnows ==
  ASSUME Inv, MomentsInv, KindInv, ParserInv, Framed, NothingIsNoOutcome, ReadFile
  PROVE  KindInv' /\ Knows'
<1> DEFINE g == call.gen
           items == call.gen.items
           path == Head(call.todo)
<1>1. /\ DOMAIN call = Fields /\ faults \in Nat /\ call.pc = "files" /\ call.todo # <<>>
      /\ g.kind = "files" /\ g \in Generators /\ faults' = faults
      /\ \A m \in moments : DOMAIN m = WorldFields
  BY DEF Inv, TypeOK, CallInv, ReadFile, MomentsInv, KindInv
<1>2. PICK n \in Nat : ParsedUpTo(n)
  BY <1>1 DEF ParserInv
<1>3. PICK m \in moments, r \in DOMAIN Trees : Stores(m, r) /\ call.tree = Trees[r]
  BY <1>1 DEF ParserInv
<1>4. items \in Seq(Range(items)) /\ Len(items) \in Nat /\ DOMAIN items = 1 .. Len(items)
  BY <1>1, ItemsAssumption
<1>5. /\ n + 1 <= Len(items) /\ path = items[n + 1]
      /\ StillToDo(Tail(call.todo), items, n + 1)
  <2>1. n <= Len(items) /\ StillToDo(call.todo, items, n)
    BY <1>2, Zenon DEF ParsedUpTo
  <2> QED BY <1>1, <1>4, <2>1, NextItem, Zenon
<1>6. CASE Parses(call.tree, path)
  <2>1. call' = [call EXCEPT !.todo = Tail(@), !.elements = Append(@, call.tree[Head(call.todo)])]
    BY <1>6, Zenon DEF ReadFile
  <2>2. /\ call'.pc = "files" /\ call'.tree = call.tree /\ call'.todo = Tail(call.todo)
        /\ call'.elements = Append(call.elements, call.tree[path]) /\ call'.gen = g
    BY <2>1, <1>1 DEF Fields
  <2>3. \A i \in 1 .. n + 1 : Parses(call.tree, items[i])
    <3>1. \A i \in 1 .. n : Parses(call.tree, items[i])
      BY <1>1, <1>2, Zenon DEF ParsedUpTo
    <3>2. \A i \in 1 .. n + 1 : i \in 1 .. n \/ i = n + 1
      OBVIOUS
    <3> QED BY <1>5, <1>6, <3>1, <3>2, Zenon
  <2>4. call'.elements = [i \in 1 .. n + 1 |-> call.tree[items[i]]]
    <3>1. call.elements = [i \in 1 .. n |-> call.tree[items[i]]]
      BY <1>1, <1>2 DEF ParsedUpTo
    <3>2. Append(call.elements, call.tree[path]) = [i \in 1 .. n + 1 |-> call.tree[items[i]]]
      BY <3>1, <1>5
    <3> QED BY <2>2, <3>2
  <2>5. ParsedUpTo(n + 1)'
    BY <1>5, <2>2, <2>3, <2>4 DEF ParsedUpTo
  <2>6. ParserInv'
    <3>1. \E k \in Nat : ParsedUpTo(k)'
      BY <2>5
    <3> QED BY <1>3, <2>2, <3>1, Zenon DEF ParserInv, Framed, Stores
  <2> QED BY <1>1, <2>2, <2>6 DEF KindInv, Knows, LoadedInv, CredentialsInv, ReturnInv
<1>7. CASE ~Parses(call.tree, path)
  <2>1. call' = EndsParsing(Failure)
    BY <1>7, Zenon DEF ReadFile
  <2>2. call'.pc = "remove" /\ call'.outcome = Failure
    BY <2>1, <1>1 DEF EndsParsing, Fields
  <2>3. Promise!FilesOf(g, Trees[r]) = Failure
    <3>1. n + 1 \in DOMAIN items /\ ~Parses(Trees[r], items[n + 1])
      BY <1>3, <1>4, <1>5, <1>7
    <3> QED BY <3>1, SameOutcomes DEF Promise!FilesOf, Promise!Parses, Parses
  <2>4. MayReturn(Failure)
    <3>1. PICK w \in Promise!Met : w.artifact = m.artifact /\ w.served = m.served
      BY <1>1, MomentsMeet
    <3>2. Promise!FromArchive(g, w) = Failure
      BY <1>1, <1>3, <2>3, <3>1, NamesAssumption DEF Promise!FromArchive, Stores
    <3>3. Promise!Promised(g, w) = {Promise!FromArchive(g, w)}
      BY <1>1, PromisedBy
    <3> QED BY <3>2, <3>3, Zenon DEF MayReturn
  <2> QED BY <1>1, <2>2, <2>4, EndKnows DEF NothingIsNoOutcome
<1> QED BY <1>6, <1>7

\* What is included and excluded, with one more item.
LEMMA NextIncluded ==
  ASSUME NEW g, Len(g.items) \in Nat, DOMAIN g.items = 1 .. Len(g.items), NEW tree,
         DirectoriesAgree(g, tree), NEW n \in Nat, n + 1 <= Len(g.items),
         FirstIncluded(g, tree, n) \in Seq(Range(Listing))
  PROVE  /\ FirstIncluded(g, tree, n + 1) =
            IF g.items[n + 1].exclude THEN FirstIncluded(g, tree, n)
            ELSE FirstIncluded(g, tree, n) \o Glob(g.items[n + 1], tree)
         /\ FirstIncluded(g, tree, n + 1) \in Seq(Range(Listing))
<1> DEFINE S == Range(Listing)
           all == Included(g, tree)
           s == [i \in 1 .. n + 1 |-> all[i]]
<1>1. n + 1 \in DOMAIN g.items /\ n + 1 \in 1 .. n + 1
  OBVIOUS
<1>2. all[n + 1] \in Seq(S) /\ s[n + 1] = all[n + 1]
  BY <1>1, Zenon DEF DirectoriesAgree
<1>3. all[n + 1] = IF g.items[n + 1].exclude THEN <<>> ELSE Glob(g.items[n + 1], tree)
  BY <1>1, Zenon DEF Included
<1>4. FirstIncluded(g, tree, n + 1) = FlattenSeq(s)
  BY Zenon DEF FirstIncluded
<1>5. [i \in 1 .. n |-> s[i]] = [i \in 1 .. n |-> all[i]] /\ s = [i \in 1 .. n + 1 |-> s[i]]
  <2> HIDE DEF all
  <2> QED OBVIOUS
<1>6. FirstIncluded(g, tree, n) = FlattenSeq([i \in 1 .. n |-> s[i]])
  BY <1>5, Zenon DEF FirstIncluded
<1> HIDE DEF S, all, s
<1>7. FlattenSeq(s) = FirstIncluded(g, tree, n) \o all[n + 1]
  BY <1>2, <1>5, <1>6, FlattenAppend
<1>8. /\ FirstIncluded(g, tree, n) \in Seq(S)
      /\ FirstIncluded(g, tree, n) \o all[n + 1] \in Seq(S)
      /\ FirstIncluded(g, tree, n) \o <<>> = FirstIncluded(g, tree, n)
  <2>1. FirstIncluded(g, tree, n) \in Seq(S)
    BY Zenon DEF S
  <2> QED BY <1>2, <2>1
<1> QED BY <1>3, <1>4, <1>7, <1>8, Zenon DEF S

LEMMA NextExcluded ==
  ASSUME NEW g, NEW n \in Nat
  PROVE  FirstExcluded(g, n + 1) =
           IF g.items[n + 1].exclude THEN FirstExcluded(g, n) \cup {g.items[n + 1].path}
           ELSE FirstExcluded(g, n)
<1>1. \A j : j \in 1 .. n + 1 <=> j \in 1 .. n \/ j = n + 1
  OBVIOUS
<1> QED BY <1>1 DEF FirstExcluded

LEMMA ScanKnows ==
  ASSUME Inv, MomentsInv, KindInv, ParserInv, Framed, SelectionsAgree, NothingIsNoOutcome, ScanItem
  PROVE  KindInv' /\ Knows'
<1> DEFINE g == call.gen
           items == call.gen.items
           item == Head(call.todo)
<1>1. /\ DOMAIN call = Fields /\ call.pc = "directories" /\ call.todo # <<>>
      /\ g.kind = "directories" /\ g \in Generators /\ faults \in Nat
      /\ \A m \in moments : DOMAIN m = WorldFields
  BY DEF Inv, TypeOK, CallInv, ScanItem, KindInv, MomentsInv
<1>2. PICK n \in Nat : ParsedUpTo(n)
  BY <1>1 DEF ParserInv
<1>3. PICK m \in moments, r \in DOMAIN Trees : Stores(m, r) /\ call.tree = Trees[r]
  BY <1>1 DEF ParserInv
<1>4. items \in Seq(Range(items)) /\ Len(items) \in Nat /\ DOMAIN items = 1 .. Len(items)
  BY <1>1, ItemsAssumption
<1>5. n + 1 <= Len(items) /\ item = items[n + 1] /\ StillToDo(Tail(call.todo), items, n + 1)
  <2>1. n <= Len(items) /\ StillToDo(call.todo, items, n)
    BY <1>2, Zenon DEF ParsedUpTo
  <2> QED BY <1>1, <1>4, <2>1, NextItem, Zenon
<1>6. /\ call.elements = FirstIncluded(g, call.tree, n)
      /\ call.elements \in Seq(Range(Listing))
      /\ call.excluded = FirstExcluded(g, n)
      /\ \A i \in 1 .. n : items[i].exclude \/ ~items[i].malformed
  BY <1>1, <1>2, Zenon DEF ParsedUpTo
<1>7. DirectoriesAgree(g, call.tree)
  BY <1>1, <1>3, Zenon DEF SelectionsAgree
<1>8. /\ FirstIncluded(g, call.tree, n + 1) =
           IF items[n + 1].exclude THEN FirstIncluded(g, call.tree, n)
           ELSE FirstIncluded(g, call.tree, n) \o Glob(items[n + 1], call.tree)
      /\ FirstIncluded(g, call.tree, n + 1) \in Seq(Range(Listing))
  BY <1>4, <1>5, <1>6, <1>7, NextIncluded
<1>9. FirstExcluded(g, n + 1) = IF items[n + 1].exclude
                                THEN FirstExcluded(g, n) \cup {items[n + 1].path}
                                ELSE FirstExcluded(g, n)
  BY NextExcluded
<1>10. PICK ok \in Answers(~item.exclude) :
         /\ Count(ok)
         /\ call' = IF item.exclude
                    THEN [call EXCEPT !.todo = Tail(@), !.excluded = @ \cup {item.path}]
                    ELSE IF ~ok \/ item.malformed THEN EndsParsing(Failure)
                    ELSE [call EXCEPT !.todo = Tail(@), !.elements = @ \o Glob(item, call.tree)]
  BY Zenon DEF ScanItem
<1>11. faults' = IF ok THEN faults ELSE faults + 1
  BY <1>10 DEF Count
<1>12. CASE item.exclude \/ (ok /\ ~item.malformed)
  <2>1. /\ call'.pc = "directories" /\ call'.tree = call.tree /\ call'.todo = Tail(call.todo)
        /\ call'.gen = g /\ call'.elements = FirstIncluded(g, call.tree, n + 1)
        /\ call'.excluded = FirstExcluded(g, n + 1)
    <3> HIDE DEF items, item
    <3>1. CASE item.exclude
      BY <1>1, <1>5, <1>6, <1>8, <1>9, <1>10, <3>1 DEF Fields
    <3>2. CASE ~item.exclude /\ ok /\ ~item.malformed
      BY <1>1, <1>5, <1>6, <1>8, <1>9, <1>10, <3>2 DEF Fields
    <3> QED BY <1>12, <3>1, <3>2
  <2>2. \A i \in 1 .. n + 1 : items[i].exclude \/ ~items[i].malformed
    <3>1. \A i \in 1 .. n + 1 : i \in 1 .. n \/ i = n + 1
      OBVIOUS
    <3> QED BY <1>5, <1>6, <1>12, <3>1, Zenon
  <2>3. ParsedUpTo(n + 1)'
    BY <1>5, <1>8, <2>1, <2>2 DEF ParsedUpTo
  <2>4. ParserInv'
    <3>1. \E k \in Nat : ParsedUpTo(k)'
      BY <2>3
    <3> QED BY <1>3, <2>1, <3>1, Zenon DEF ParserInv, Framed, Stores
  <2> QED BY <1>1, <2>1, <2>4 DEF KindInv, Knows, LoadedInv, CredentialsInv, ReturnInv
<1>13. CASE ~item.exclude /\ (~ok \/ item.malformed)
  <2>1. call' = EndsParsing(Failure)
    BY <1>10, <1>13
  <2>2. call'.pc = "remove" /\ call'.outcome = Failure
    BY <2>1, <1>1 DEF EndsParsing, Fields
  <2>3. item.malformed => MayReturn(Failure)
    <3> SUFFICES ASSUME item.malformed PROVE MayReturn(Failure)
      OBVIOUS
    <3>1. n + 1 \in DOMAIN items /\ ~items[n + 1].exclude /\ items[n + 1].malformed
      BY <1>4, <1>5, <1>13
    <3>2. Promise!DirectoriesOf(g, Trees[r]) = Failure
      BY <3>1, SameOutcomes DEF Promise!DirectoriesOf
    <3>3. PICK w \in Promise!Met : w.artifact = m.artifact /\ w.served = m.served
      BY <1>1, MomentsMeet
    <3>4. Promise!FromArchive(g, w) = Failure
      BY <1>1, <1>3, <3>2, <3>3, NamesAssumption DEF Promise!FromArchive, Stores
    <3>5. Promise!Promised(g, w) = {Promise!FromArchive(g, w)}
      BY <1>1, PromisedBy
    <3> QED BY <3>4, <3>5, Zenon DEF MayReturn
  <2> QED BY <1>1, <1>11, <1>13, <2>2, <2>3, EndKnows DEF NothingIsNoOutcome
<1> QED BY <1>12, <1>13

LEMMA ParsedKnows ==
  ASSUME Inv, MomentsInv, KindInv, ParserInv, Framed, Faithful, EndParsing
  PROVE  KindInv' /\ Knows'
<1> DEFINE g == call.gen
           items == call.gen.items
           chosen == Elements(IF call.pc = "files" THEN call.elements
                              ELSE SelectSeq(call.elements, LAMBDA p : p \notin call.excluded))
<1>1. /\ DOMAIN call = Fields /\ faults \in Nat /\ call.pc \in {"files", "directories"}
      /\ g.kind = call.pc /\ g \in Generators /\ call.todo = <<>> /\ faults' = faults
      /\ \A m \in moments : DOMAIN m = WorldFields
  BY DEF Inv, TypeOK, CallInv, EndParsing, MomentsInv, KindInv
<1>2. PICK n \in Nat : ParsedUpTo(n)
  BY <1>1 DEF ParserInv
<1>3. PICK m \in moments, r \in DOMAIN Trees : Stores(m, r) /\ call.tree = Trees[r]
  BY <1>1 DEF ParserInv
<1>4. items \in Seq(Range(items)) /\ Len(items) \in Nat /\ DOMAIN items = 1 .. Len(items)
  BY <1>1, ItemsAssumption
<1>5. n = Len(items)
  <2>1. n <= Len(items) /\ StillToDo(call.todo, items, n)
    BY <1>2, Zenon DEF ParsedUpTo
  <2>2. call.todo = <<>> <=> n = Len(items)
    BY <1>4, <2>1, NextItem, Zenon
  <2> QED BY <1>1, <2>2, Zenon
<1>6. call.pc = "files" => chosen = Promise!FilesOf(g, Trees[r])
  <2> SUFFICES ASSUME call.pc = "files" PROVE chosen = Promise!FilesOf(g, Trees[r])
    OBVIOUS
  <2>1. /\ \A i \in DOMAIN items : Parses(Trees[r], items[i])
        /\ call.elements = [i \in DOMAIN items |-> Trees[r][items[i]]]
    BY <1>2, <1>3, <1>4, <1>5 DEF ParsedUpTo
  <2> QED BY <2>1, SameOutcomes DEF Promise!FilesOf, Promise!Parses, Parses
<1>7. call.pc = "directories" => chosen = Promise!DirectoriesOf(g, Trees[r])
  <2> SUFFICES ASSUME call.pc = "directories" PROVE chosen = Promise!DirectoriesOf(g, Trees[r])
    OBVIOUS
  <2>0. call.pc = "directories" /\ g.kind = "directories"
    BY <1>1
  <2>1. Included(g, call.tree) = [i \in 1 .. n |-> Included(g, call.tree)[i]]
    BY <1>4, <1>5 DEF Included
  <2>2. call.elements = FlattenSeq(Included(g, call.tree))
    BY <1>2, <2>1 DEF ParsedUpTo, FirstIncluded
  <2>3. call.excluded = Excluded(g)
    BY <1>2, <1>4, <1>5 DEF ParsedUpTo, FirstExcluded, Excluded
  <2>4. Elements(SelectSeq(FlattenSeq(Included(g, call.tree)), LAMBDA p : p \notin Excluded(g))) =
        Promise!DirectoriesOf(g, call.tree)
    <3>1. MatchesDirectories(g, call.tree) /\ DirectoriesAgree(g, call.tree)
      BY <1>1, <1>3, <2>0, Zenon DEF Faithful, SelectionsAgree
    <3>2. WellFormed(g)
      BY <1>2, <1>4, <1>5, <2>0 DEF ParsedUpTo, WellFormed
    <3> QED BY <3>1, <3>2, Zenon DEF DirectoriesAgree
  <2>5. Elements(SelectSeq(call.elements, LAMBDA p : p \notin call.excluded)) =
        Promise!DirectoriesOf(g, call.tree)
    BY <2>2, <2>3, <2>4
  <2> QED BY <1>3, <2>5
<1>8. call' = EndsParsing(chosen)
  BY Zenon DEF EndParsing
<1> HIDE DEF chosen
<1>9. call'.pc = "remove" /\ call'.outcome = chosen
  BY <1>1, <1>8 DEF EndsParsing, Fields
<1>10. chosen # Nothing
  BY Zenon DEF chosen, Faithful, NothingIsNoOutcome
<1>11. MayReturn(chosen)
  <2>1. PICK w \in Promise!Met : w.artifact = m.artifact /\ w.served = m.served
    BY <1>1, MomentsMeet
  <2>2. Promise!FromArchive(g, w) = chosen
    BY <1>1, <1>3, <1>6, <1>7, <2>1, NamesAssumption DEF Promise!FromArchive, Stores
  <2>3. Promise!Promised(g, w) = {Promise!FromArchive(g, w)}
    BY <1>1, PromisedBy
  <2> QED BY <2>2, <2>3, Zenon DEF MayReturn
<1> QED BY <1>1, <1>9, <1>10, <1>11, EndKnows

LEMMA RemoveKnows ==
  ASSUME Inv, MomentsInv, ReturnInv, Framed, RemoveTempDir
  PROVE  KindInv' /\ Knows'
<1>1. /\ DOMAIN call = Fields /\ faults \in Nat /\ call.pc = "remove"
      /\ call' = Goes("done")
  BY DEF Inv, TypeOK, CallInv, RemoveTempDir
<1>2. call'.pc = "done" /\ call'.outcome = call.outcome
  BY <1>1 DEF Goes, Fields
<1>3. call.outcome # Nothing /\ MayReturn(call.outcome)
  BY <1>1 DEF ReturnInv
<1> QED BY <1>1, <1>2, <1>3, EndKnows

-----------------------------------------------------------------------------
(* The steps of the other generators. *)

\* Where a call is, and what it can see.
LEMMA CallSees ==
  ASSUME Inv, MomentsInv, Framed
  PROVE  /\ DOMAIN call = Fields /\ faults \in Nat /\ call.before <= faults
         /\ call.before \in Nat /\ call.gen \in Generators /\ call.pc \notin {"idle", "done"}
         /\ Seen(world) \in moments /\ DOMAIN Seen(world) = WorldFields
         /\ Seen(world).pulls = world.pulls /\ Seen(world).answer = world.answer
         /\ \A m \in moments : DOMAIN m = WorldFields
BY SeenFields DEF Inv, TypeOK, CallInv, MomentsInv, Framed

LEMMA SeenSecret ==
  ASSUME IsWorld(world), reader \in Readers
  PROVE  Seen(world).secret \in {"missing", "empty", "bad", "good"}
<1>1. CASE reader = "cluster"
  BY <1>1 DEF IsWorld, Seen
<1>2. CASE reader \in {"fake", "local"}
  BY <1>2 DEF IsWorld, Seen, WorldFields
<1> QED BY <1>1, <1>2 DEF Readers

LEMMA ImageOutcome ==
  ASSUME NEW w, NothingIsNoOutcome PROVE OfImage(w) # Nothing
<1>1. OfImage(w) = Waits \/ OfImage(w) = Failure \/ OfImage(w) = Elements(<<w.image>>)
  BY DEF OfImage
<1> QED BY <1>1, Zenon DEF NothingIsNoOutcome

LEMMA ReadIsPromised ==
  ASSUME NEW g, g.kind \in {"list", "config", "cluster", "image"}, NEW v, NEW w,
         w.config = v.config, w.clusters = v.clusters, w.image = v.image,
         NEW o \in OfRead(g, v), NothingIsNoOutcome
  PROVE  o # Nothing /\ o \in Promise!Promised(g, w)
<1>1. CASE g.kind = "list"
  <2>1. o = OfList(g)
    BY <1>1 DEF OfRead
  <2>2. o # Nothing
    BY <2>1, Zenon DEF OfList, NothingIsNoOutcome
  <2> QED BY <1>1, <2>1, <2>2, PromisedBy
<1>2. CASE g.kind = "config"
  <2>1. o = OfConfig(v)
    BY <1>2 DEF OfRead
  <2>2. o # Nothing
    BY <2>1, Zenon DEF OfConfig, NothingIsNoOutcome
  <2>3. OfConfig(v) = OfConfig(w)
    BY DEF OfConfig
  <2> QED BY <1>2, <2>1, <2>2, <2>3, PromisedBy
<1>3. CASE g.kind = "cluster"
  <2>1. o \in OfClusters(g, v)
    BY <1>3 DEF OfRead
  <2>2. o # Nothing
    BY <2>1, Zenon DEF OfClusters, NothingIsNoOutcome
  <2>3. OfClusters(g, v) = OfClusters(g, w)
    BY DEF OfClusters
  <2> QED BY <1>3, <2>1, <2>2, <2>3, PromisedBy
<1>4. CASE g.kind = "image"
  <2>1. o = OfImage(v)
    BY <1>4 DEF OfRead
  <2>2. o # Nothing
    BY <2>1, ImageOutcome
  <2>3. OfImage(v) = OfImage(w)
    BY DEF OfImage
  <2> QED BY <1>4, <2>1, <2>2, <2>3, PromisedBy
<1> QED BY <1>1, <1>2, <1>3, <1>4

LEMMA ReadKnows ==
  ASSUME Inv, MomentsInv, KindInv, Framed, NothingIsNoOutcome, Read
  PROVE  KindInv' /\ Knows'
<1>1. PICK ok \in Answers(call.gen.kind # "list") :
        /\ Count(ok)
        /\ \E outcome \in OfRead(call.gen, Seen(world)) : call' = Ends(IF ok THEN outcome ELSE Failure)
  BY Zenon DEF Read
<1>2. PICK outcome \in OfRead(call.gen, Seen(world)) : call' = Ends(IF ok THEN outcome ELSE Failure)
  BY <1>1
<1>3. faults' = (IF ok THEN faults ELSE faults + 1) /\ ok \in BOOLEAN
  BY <1>1 DEF Answers, Count
<1>4. call.gen.kind \in {"list", "config", "cluster", "image"}
  BY DEF Read, KindInv
<1>5. PICK w \in Promise!Met : /\ w.config = Seen(world).config
                               /\ w.clusters = Seen(world).clusters /\ w.image = Seen(world).image
  BY CallSees, MomentsMeet
<1>6. outcome # Nothing /\ MayReturn(outcome)
  <2>1. outcome # Nothing /\ outcome \in Promise!Promised(call.gen, w)
    BY <1>4, <1>5, ReadIsPromised
  <2> QED BY <2>1, Zenon DEF MayReturn
<1>7. call'.pc = "done" /\ call'.outcome = IF ok THEN outcome ELSE Failure
  BY <1>2, CallSees DEF Ends, Fields
<1> QED BY <1>3, <1>6, <1>7, CallSees, EndKnows DEF NothingIsNoOutcome

LEMMA TokenKnows ==
  ASSUME Inv, MomentsInv, KindInv, Framed, NothingIsNoOutcome, ReadToken
  PROVE  KindInv' /\ Knows'
<1> DEFINE g == call.gen
           token == Seen(world).secret
<1>1. PICK ok \in Answers(g.secret) :
        /\ Count(ok)
        /\ call' = IF ~ok \/ (g.secret /\ token \in {"missing", "empty"}) THEN Ends(Failure)
                   ELSE [Goes("pulls") EXCEPT !.secret = IF g.secret THEN token ELSE "none"]
  BY Zenon DEF ReadToken
<1>2. faults' = (IF ok THEN faults ELSE faults + 1) /\ ok \in BOOLEAN
  BY <1>1 DEF Answers, Count
<1>3. g.kind = "pullRequests"
  BY DEF ReadToken, KindInv
<1>4. PICK w \in Promise!Met : w.secret = token
  BY CallSees, MomentsMeet
<1>5. CASE ~ok \/ (g.secret /\ token \in {"missing", "empty"})
  <2>1. call'.pc = "done" /\ call'.outcome = Failure
    BY <1>1, <1>5, CallSees DEF Ends, Fields
  <2>2. ok => MayReturn(Failure)
    <3>1. ok => Promise!FromPullRequests(g, w) = Failure
      BY <1>4, <1>5, SameOutcomes DEF Promise!FromPullRequests
    <3>2. Promise!Promised(g, w) = {Promise!FromPullRequests(g, w)}
      BY <1>3, PromisedBy
    <3> QED BY <3>1, <3>2, Zenon DEF MayReturn
  <2> QED BY <1>2, <2>1, <2>2, CallSees, EndKnows DEF NothingIsNoOutcome
<1>6. CASE ~(~ok \/ (g.secret /\ token \in {"missing", "empty"}))
  <2>1. call' = [Goes("pulls") EXCEPT !.secret = IF g.secret THEN token ELSE "none"]
    BY <1>1, <1>6, Zenon
  <2>2. call'.pc = "pulls" /\ call'.secret = IF g.secret THEN token ELSE "none"
    BY <2>1, CallSees DEF Goes, Fields
  <2>3. token \in {"missing", "empty", "bad", "good"}
    BY SeenSecret DEF MomentsInv, Inv, TypeOK
  <2>4. CredentialsInv'
    BY <1>6, <2>2, <2>3, CallSees DEF CredentialsInv, Framed
  <2> QED BY <1>3, <2>2, <2>4 DEF Framed, KindInv, Knows, LoadedInv, ParserInv, ReturnInv
<1> QED BY <1>5, <1>6

LEMMA PullsKnows ==
  ASSUME Inv, MomentsInv, KindInv, CredentialsInv, Framed, Faithful, ListPulls
  PROVE  KindInv' /\ Knows'
<1> DEFINE g == call.gen
           chosen == SelectSeq(FirstPage(world.pulls), LAMBDA pr : Matches(g, pr))
<1>1. PICK ok \in Answers(TRUE) :
        /\ Count(ok)
        /\ call' = IF ~ok \/ call.secret = "bad" THEN Ends(Failure) ELSE Ends(Elements(chosen))
  BY Zenon DEF ListPulls
<1>2. faults' = (IF ok THEN faults ELSE faults + 1) /\ ok \in BOOLEAN
  BY <1>1 DEF Answers, Count
<1>3. g.kind = "pullRequests" /\ call.pc = "pulls"
  BY DEF ListPulls, KindInv
<1>4. PICK s \in moments : g.secret => s.secret = call.secret /\ s.secret \in {"bad", "good"}
  BY <1>3, CallSees DEF CredentialsInv
<1>5. PICK w \in Promise!Met : w.pulls = world.pulls /\ w.secret = s.secret
  BY CallSees, MomentsMeet
<1>6. Promise!Promised(g, w) = {Promise!FromPullRequests(g, w)}
  BY <1>3, PromisedBy
<1>7. CASE ~ok \/ call.secret = "bad"
  <2>1. call' = Ends(Failure)
    BY <1>1, <1>7, Zenon
  <2>2. call'.pc = "done" /\ call'.outcome = Failure
    BY <2>1, CallSees DEF Ends, Fields
  <2>3. ok => MayReturn(Failure)
    <3>1. ok => g.secret /\ w.secret # "good"
      BY <1>3, <1>4, <1>5, <1>7 DEF CredentialsInv
    <3>2. ok => Promise!FromPullRequests(g, w) = Failure
      BY <3>1, SameOutcomes, Zenon DEF Promise!FromPullRequests
    <3> QED BY <1>6, <3>2, Zenon DEF MayReturn
  <2> QED BY <1>2, <2>2, <2>3, CallSees, EndKnows DEF Faithful, NothingIsNoOutcome
<1>8. CASE ~(~ok \/ call.secret = "bad")
  <2>1. call' = Ends(Elements(chosen))
    BY <1>1, <1>8, Zenon
  <2>2. call'.pc = "done" /\ call'.outcome = Elements(chosen)
    <3> HIDE DEF chosen
    <3> QED BY <2>1, CallSees DEF Ends, Fields
  <2>3. MayReturn(Elements(chosen))
    <3>1. PullRequestsAgree(g, world.pulls)
      <4>1. PICK v \in Worlds : world.pulls = v.pulls
        BY DEF MomentsInv, IsWorld
      <4>2. PullRequestsAgree(g, v.pulls)
        BY <1>3, CallSees, Zenon DEF Faithful, SelectionsAgree
      <4> QED BY <4>1, <4>2, Zenon
    <3> DEFINE open(pulls) ==
                 SelectSeq(pulls, LAMBDA pr : g.labels \subseteq pr.labels /\ (pr.fork => g.forks))
    <3>2. ~(g.secret /\ w.secret # "good")
      BY <1>4, <1>5, <1>8
    <3>3. Promise!FromPullRequests(g, w) = Elements(open(w.pulls))
      BY <3>2, SameOutcomes, Zenon DEF Promise!FromPullRequests
    <3>4. open(w.pulls) = open(world.pulls)
      BY <1>5, Zenon
    <3>5. open(world.pulls) = chosen
      BY <3>1, Zenon DEF PullRequestsAgree
    <3> HIDE DEF chosen, open
    <3>6. Promise!FromPullRequests(g, w) = Elements(chosen)
      BY <3>3, <3>4, <3>5, Zenon
    <3> QED BY <1>6, <3>6, Zenon DEF MayReturn
  <2> HIDE DEF chosen
  <2>4. Elements(chosen) # Nothing
    BY Zenon DEF Faithful, NothingIsNoOutcome
  <2> QED BY <2>2, <2>3, <2>4, CallSees, EndKnows
<1> QED BY <1>7, <1>8

LEMMA HeadersKnows ==
  ASSUME Inv, MomentsInv, KindInv, Framed, NothingIsNoOutcome, AddHeaders
  PROVE  KindInv' /\ Knows'
<1> DEFINE g == call.gen
<1>1. PICK ok \in Answers(g.headers) :
        /\ Count(ok)
        /\ call' = IF ~ok \/ (g.headers /\ Seen(world).headers = Missing) THEN Ends(Failure)
                   ELSE Goes("tls")
  BY Zenon DEF AddHeaders
<1>2. faults' = (IF ok THEN faults ELSE faults + 1) /\ ok \in BOOLEAN
  BY <1>1 DEF Answers, Count
<1>3. g.kind = "api"
  BY DEF AddHeaders, KindInv
<1>4. PICK w \in Promise!Met : w.headers = Seen(world).headers
  BY CallSees, MomentsMeet
<1>5. CASE ~ok \/ (g.headers /\ Seen(world).headers = Missing)
  <2>1. call' = Ends(Failure)
    BY <1>1, <1>5, Zenon
  <2>2. call'.pc = "done" /\ call'.outcome = Failure
    BY <2>1, CallSees DEF Ends, Fields
  <2>3. ok => MayReturn(Failure)
    <3>1. ok => Promise!FromAPI(g, w) = Failure
      BY <1>4, <1>5, SameOutcomes DEF Promise!FromAPI
    <3>2. Promise!Promised(g, w) = {Promise!FromAPI(g, w)}
      BY <1>3, PromisedBy
    <3> QED BY <3>1, <3>2, Zenon DEF MayReturn
  <2> QED BY <1>2, <2>2, <2>3, CallSees, EndKnows DEF NothingIsNoOutcome
<1>6. CASE ~(~ok \/ (g.headers /\ Seen(world).headers = Missing))
  <2>1. call' = Goes("tls")
    BY <1>1, <1>6, Zenon
  <2>2. call'.pc = "tls"
    BY <2>1, CallSees DEF Goes, Fields
  <2>3. CredentialsInv'
    BY <1>6, <2>2, CallSees DEF CredentialsInv, Framed
  <2> QED BY <1>3, <2>2, <2>3 DEF Framed, KindInv, Knows, LoadedInv, ParserInv, ReturnInv
<1> QED BY <1>5, <1>6

LEMMA CertificatesKnow ==
  ASSUME Inv, MomentsInv, KindInv, CredentialsInv, Framed, CreateTLSConfig
  PROVE  KindInv' /\ Knows'
<1> DEFINE g == call.gen
<1>1. PICK ok \in Answers(g.secret) :
        /\ Count(ok)
        /\ call' = [Goes("request") EXCEPT !.secret = IF g.secret /\ ok THEN Seen(world).secret ELSE "none"]
  BY Zenon DEF CreateTLSConfig
<1>2. faults' = (IF ok THEN faults ELSE faults + 1) /\ ok \in BOOLEAN
  BY <1>1 DEF Answers, Count
<1>3. g.kind = "api" /\ call.pc = "tls"
  BY DEF CreateTLSConfig, KindInv
<1>4. call'.pc = "request" /\ call'.secret = IF g.secret /\ ok THEN Seen(world).secret ELSE "none"
  BY <1>1, CallSees DEF Goes, Fields
<1>5. CredentialsInv'
  BY <1>2, <1>3, <1>4, CallSees DEF CredentialsInv, Framed
<1> QED BY <1>3, <1>4, <1>5 DEF Framed, KindInv, Knows, LoadedInv, ParserInv, ReturnInv

LEMMA ParsedOutcome ==
  ASSUME NEW g, g.shape \in {"array", "single", "path"}, NEW answer, NothingIsNoOutcome
  PROVE  Parsed(g, answer) # Nothing
<1>1. ParsedArray(answer.body) # Nothing
  <2>1. ParsedArray(answer.body) \in {Elements(answer.body.items), Elements(<<>>), Failure}
    BY DEF ParsedArray
  <2> QED BY <2>1, Zenon DEF NothingIsNoOutcome
<1>2. ParsedSingle(answer.body) # Nothing
  <2>1. ParsedSingle(answer.body) \in {Elements(answer.body.items), Elements(<<Null>>), Failure}
    BY DEF ParsedSingle
  <2> QED BY <2>1, Zenon DEF NothingIsNoOutcome
<1>3. ParsedPath(answer) # Nothing
  BY Zenon DEF ParsedPath, NothingIsNoOutcome
<1> QED BY <1>1, <1>2, <1>3 DEF Parsed

LEMMA RequestKnows ==
  ASSUME Inv, MomentsInv, KindInv, CredentialsInv, Framed, Faithful, Request
  PROVE  KindInv' /\ Knows'
<1> DEFINE g == call.gen
           answer == world.answer
<1>1. PICK ok \in Answers(TRUE) :
        /\ Count(ok)
        /\ call' = Ends(IF ~ok \/ ~Trusted \/ ~answer.ok THEN Failure ELSE Parsed(g, answer))
  BY Zenon DEF Request
<1>2. faults' = (IF ok THEN faults ELSE faults + 1) /\ ok \in BOOLEAN
  BY <1>1 DEF Answers, Count
<1>3. g.kind = "api" /\ call.pc = "request" /\ g \in Generators
  BY CallSees DEF Request, KindInv
<1>4. {g.secret, g.private} \subseteq BOOLEAN /\ (g.secret => g.private)
  BY <1>3, GeneratorsAssumption DEF Faithful
<1>5. PICK h \in moments : g.headers => h.headers # Missing
  BY <1>3, CallSees DEF CredentialsInv
<1>6. PICK s \in moments : \/ faults > call.before /\ call.secret = "none"
                           \/ g.secret => s.secret = call.secret
  BY <1>3, CallSees DEF CredentialsInv
<1>7. PICK w \in Promise!Met : w.answer = answer /\ w.secret = s.secret /\ w.headers = h.headers
  BY CallSees, MomentsMeet
<1>8. Promise!Promised(g, w) = {Promise!FromAPI(g, w)}
  BY <1>3, PromisedBy
<1>9. CASE ~ok \/ ~Trusted \/ ~answer.ok
  <2>1. call'.pc = "done" /\ call'.outcome = Failure
    BY <1>1, <1>9, CallSees DEF Ends, Fields
  <2>2. ok => MayReturn(Failure)
    <3>1. CASE faults > call.before
      BY <3>1, Zenon DEF MayReturn
    <3>2. CASE ok /\ ~(faults > call.before)
      <4>1. Promise!FromAPI(g, w) = Failure
        BY <1>3, <1>4, <1>6, <1>7, <1>9, <3>2, SameOutcomes
           DEF Promise!FromAPI, Trusted, CredentialsInv
      <4> QED BY <1>8, <4>1, Zenon DEF MayReturn
    <3> QED BY <3>1, <3>2
  <2> QED BY <1>2, <2>1, <2>2, CallSees, EndKnows DEF Faithful, NothingIsNoOutcome
<1>10. CASE ok /\ Trusted /\ answer.ok
  <2>1. call'.pc = "done" /\ call'.outcome = Parsed(g, answer)
    BY <1>1, <1>10, CallSees DEF Ends, Fields
  <2>2. g.secret => s.secret = "good"
    BY <1>3, <1>4, <1>6, <1>10 DEF Trusted, CredentialsInv
  <2>3. g.private = g.secret
    BY <1>3, <1>4, <1>10 DEF Trusted, CredentialsInv
  <2>4. Promise!FromAPI(g, w) = Parsed(g, answer)
    BY <1>5, <1>7, <1>10, <2>2, <2>3, SameOutcomes, SameParsed DEF Promise!FromAPI
  <2>5. MayReturn(Parsed(g, answer))
    BY <1>8, <2>4, Zenon DEF MayReturn
  <2>6. Parsed(g, answer) # Nothing
    BY <1>3, GeneratorsAssumption, ParsedOutcome DEF Faithful
  <2> QED BY <2>1, <2>5, <2>6, CallSees, EndKnows
<1> QED BY <1>9, <1>10

-----------------------------------------------------------------------------
(* The invariant holds at first, and every step keeps it. *)

LEMMA StepContractInv ==
  ASSUME Inv, ContractInv, Faithful, Step
  PROVE  ContractInv' /\ Framed
<1>1. Framed
  BY StepFrames
<1>2. NothingIsNoOutcome /\ SelectionsAgree
  BY DEF Faithful
<1>3. MomentsInv /\ KindInv /\ LoadedInv /\ ParserInv /\ CredentialsInv /\ ReturnInv
  BY Zenon DEF ContractInv, Knows
<1>4. MomentsInv'
  <2>1. Seen(world)' = Seen(world) /\ IsWorld(world)'
    BY <1>1, <1>3 DEF Framed, Seen, MomentsInv, IsWorld
  <2>2. call'.before \in Nat /\ call'.before <= faults'
    BY <1>1, <1>3, CallSees DEF Framed
  <2> QED BY <1>1, <1>3, <2>1, <2>2 DEF Framed, MomentsInv
<1>5. KindInv' /\ Knows'
  <2>1. CASE LoadRepository \/ MakeTempDir \/ Fetch
    BY <2>1, <1>1, <1>2, <1>3, LoadKnows, MakeKnows, FetchKnows
  <2>2. CASE ReadFile \/ ScanItem \/ EndParsing \/ RemoveTempDir
    BY <2>2, <1>1, <1>2, <1>3, FileKnows, ScanKnows, ParsedKnows, RemoveKnows
  <2>3. CASE Read \/ ReadToken \/ ListPulls
    BY <2>3, <1>1, <1>2, <1>3, ReadKnows, TokenKnows, PullsKnows
  <2>4. CASE AddHeaders \/ CreateTLSConfig \/ Request
    BY <2>4, <1>1, <1>2, <1>3, HeadersKnows, CertificatesKnow, RequestKnows
  <2> QED BY <2>1, <2>2, <2>3, <2>4 DEF Step
<1> QED BY <1>1, <1>4, <1>5, Zenon DEF ContractInv

\* Sources that change are a world again, and store no archive but that they name.
LEMMA ChangedWorld ==
  ASSUME Inv, MomentsInv, ChangeSource
  PROVE  IsWorld(world') /\ \A r \in world'.served : r \in world.served \/ world'.artifact = r
<1>1. IsWorld(world) /\ call.gen \in Generators
  BY DEF MomentsInv, Inv, CallInv, ChangeSource
<1>2. CASE Archived(world, world')
  <2>1. CASE world' = [world EXCEPT !.served = @ \cap {world.artifact}]
    BY <1>1, <2>1 DEF IsWorld, WorldFields
  <2>2. CASE world' = [world EXCEPT !.served = {}]
    BY <1>1, <2>2 DEF IsWorld, WorldFields
  <2>3. CASE world' = [world EXCEPT !.served = @ \cup ({world.artifact} \cap DOMAIN Trees)]
    BY <1>1, <2>3 DEF IsWorld, WorldFields
  <2>4. CASE \E r \in DOMAIN Trees : world' = [world EXCEPT !.artifact = r, !.served = @ \cup {r}]
    <3>1. PICK r \in DOMAIN Trees : world' = [world EXCEPT !.artifact = r, !.served = @ \cup {r}]
      BY <2>4
    <3> QED BY <1>1, <3>1 DEF IsWorld, WorldFields
  <2>5. CASE world' = [world EXCEPT !.artifact = Missing]
    BY <1>1, <2>5 DEF IsWorld, WorldFields
  <2> QED BY <1>2, <2>1, <2>2, <2>3, <2>4, <2>5, Zenon DEF Archived
<1>3. CASE \E r \in DOMAIN Trees : world' = [world EXCEPT !.local = r]
  BY <1>1, <1>3 DEF IsWorld, WorldFields
<1>4. CASE \E f \in ReadBy(call.gen) : \E w \in Worlds : world' = [world EXCEPT ![f] = w[f]]
  <2>1. PICK f \in ReadBy(call.gen) : \E w \in Worlds : world' = [world EXCEPT ![f] = w[f]]
    BY <1>4
  <2>2. PICK w \in Worlds : world' = [world EXCEPT ![f] = w[f]]
    BY <2>1
  <2>3. f \in {"config", "clusters", "image", "secret", "pulls", "headers", "answer"}
    BY <1>1, GeneratorsAssumption DEF ReadBy, Kinds
  <2>4. /\ DOMAIN world' = WorldFields /\ world'.served = world.served /\ world'.local = world.local
        /\ world'.secret = IF f = "secret" THEN w.secret ELSE world.secret
        /\ world'.pulls = IF f = "pulls" THEN w.pulls ELSE world.pulls
    BY <1>1, <2>2, <2>3 DEF IsWorld, WorldFields
  <2> QED BY <1>1, <2>4, WorldsAssumption DEF IsWorld
<1> QED BY <1>2, <1>3, <1>4, Zenon DEF ChangeSource

LEMMA ChangeContractInv ==
  ASSUME Inv, ContractInv, ChangeSource
  PROVE  ContractInv'
<1>1. /\ UNCHANGED <<reader, fetcher, call, faults>> /\ call.pc \notin {"idle", "done"}
      /\ moments' = moments \cup {Seen(world')} /\ reader \in Readers
  BY DEF ChangeSource, Inv, TypeOK
<1>2. MomentsInv /\ KindInv /\ LoadedInv /\ ParserInv /\ CredentialsInv /\ ReturnInv
  BY Zenon DEF ContractInv, Knows
<1>3. IsWorld(world) /\ IsWorld(world')
  BY <1>2, ChangedWorld DEF MomentsInv
<1>4. Seen(world)' = Seen(world')
  BY <1>1 DEF Seen
<1>5. /\ IsFiniteSet(moments) /\ IsFiniteSet(moments') /\ moments \in SUBSET moments'
      /\ Cardinality(moments) <= Cardinality(moments')
      /\ Cardinality(moments) \in Nat /\ Cardinality(moments') \in Nat
  <2>1. IsFiniteSet(moments)
    BY <1>1, <1>2 DEF MomentsInv
  <2>2. IsFiniteSet(moments') /\ moments \in SUBSET moments'
    BY <1>1, <2>1, FS_AddElement
  <2> QED BY <2>1, <2>2, FS_Subset, FS_CardinalityType
<1>6. MomentsInv'
  BY <1>1, <1>2, <1>3, <1>4, <1>5, SeenFields DEF MomentsInv, IsWorld
<1>7. KindInv'
  BY <1>1, <1>2 DEF KindInv
<1>8. LoadedInv'
  <2>1. ASSUME call.pc \in {"mkdir", "fetch"}, reader = "cluster", call.artifact \in world'.served
        PROVE  \E m \in moments' : Stores(m, call.artifact)
    <3>1. Seen(world') = world' /\ Seen(world') \in moments'
      BY <1>1, <1>3, <2>1, SeenFields
    <3>2. call.artifact \in world.served \/ (world'.artifact = call.artifact)
      BY <1>2, <2>1, ChangedWorld
    <3> QED BY <1>1, <1>2, <1>5, <2>1, <3>1, <3>2 DEF LoadedInv, Stores
  <2> QED BY <1>1, <1>2, <1>5, <2>1 DEF LoadedInv, Stores
<1>9. ParserInv'
  BY <1>1, <1>2, <1>5 DEF ParserInv, ParsedUpTo, Stores
<1>10. CredentialsInv'
  BY <1>1, <1>2, <1>5 DEF CredentialsInv
<1>11. ReturnInv'
  <2>1. ASSUME NEW w, w \in Promise!Met PROVE w \in Promise!Met'
    <3> DEFINE meet(s, h, v) == [v EXCEPT !.secret = s.secret, !.headers = h.headers]
    <3>1. /\ Promise!Met = {meet(s, h, v) : s, h, v \in moments}
          /\ Promise!Met' = {meet(s, h, v) : s, h, v \in moments'}
      BY DEF Promise!Met
    <3> HIDE DEF meet
    <3>2. \A m \in moments : m \in moments'
      BY <1>5
    <3> QED BY <2>1, <3>1, <3>2
  <2>2. Cardinality(moments) > 1 => Cardinality(moments') > 1
    BY <1>5
  <2> QED BY <1>1, <1>2, <2>1, <2>2, Zenon DEF ReturnInv, MayReturn
<1> QED BY <1>6, <1>7, <1>8, <1>9, <1>10, <1>11, Zenon DEF ContractInv, Knows

\* A step that leaves the sources and the call alone.
LEMMA SameContractInv ==
  ASSUME ContractInv, UNCHANGED <<world, reader, fetcher, call, moments, faults>>
  PROVE  ContractInv'
<1>1. Seen(world)' = Seen(world) /\ Unpacked' = Unpacked /\ Promise!Met' = Promise!Met
  BY DEF Seen, Unpacked, Promise!Met
<1>2. MomentsInv' /\ KindInv'
  BY <1>1 DEF ContractInv, MomentsInv, KindInv, IsWorld
<1>3. LoadedInv' /\ ParserInv' /\ CredentialsInv'
  BY DEF ContractInv, Knows, LoadedInv, ParserInv, ParsedUpTo, CredentialsInv, Stores
<1>4. ReturnInv'
  BY <1>1, Zenon DEF ContractInv, Knows, ReturnInv, MayReturn
<1> QED BY <1>2, <1>3, <1>4, Zenon DEF ContractInv, Knows

\* While there is no call, faults are of no account.
LEMMA IdleContractInv ==
  ASSUME ContractInv, UNCHANGED <<world, reader, fetcher, call, moments>>, call.pc = "idle"
  PROVE  ContractInv'
<1>1. MomentsInv'
  BY DEF ContractInv, MomentsInv, IsWorld
<1> QED BY <1>1 DEF ContractInv, KindInv, Knows, LoadedInv, ParserInv, CredentialsInv, ReturnInv

LEMMA CallContractInv ==
  ASSUME Inv, ContractInv, CallNext
  PROVE  ContractInv'
<1>1. /\ call.pc = "idle" /\ Head(todo) \in Generators /\ reader \in Readers /\ faults \in Nat
      /\ MomentsInv
  BY DEF CallNext, Rendering, Inv, TypeOK, ContractInv
<1>2. CASE Call(Head(todo))
  <2> DEFINE g == Head(todo)
  <2>1. /\ UNCHANGED <<world, reader, fetcher, faults>> /\ moments' = {Seen(world)}
        /\ call'.pc = FirstStep[g.kind] /\ call'.gen = g /\ call'.before = faults
        /\ call'.elements = <<>> /\ call'.excluded = {}
    BY <1>2 DEF Call, NoCall
  <2>2. /\ g.kind \in {"list", "config", "cluster", "image"} => call'.pc = "read"
        /\ g.kind \in {"files", "directories"} => call'.pc = "load"
        /\ g.kind = "pullRequests" => call'.pc = "secret"
        /\ g.kind = "api" => call'.pc = "headers"
        /\ g.kind \in Kinds
    BY <1>1, <2>1, GeneratorsAssumption DEF FirstStep, Kinds
  <2> HIDE DEF g
  <2>3. KindInv'
    BY <2>1, <2>2 DEF KindInv, Kinds
  <2>4. MomentsInv'
    <3>1. Seen(world)' = Seen(world)
      BY <2>1 DEF Seen
    <3>2. IsFiniteSet(moments')
      BY <2>1, FS_Singleton
    <3>3. IsWorld(world) /\ IsWorld(world)'
      BY <1>1, <2>1 DEF MomentsInv, IsWorld
    <3>4. DOMAIN Seen(world) = WorldFields
      BY <1>1, <3>3, SeenFields
    <3>5. call'.pc # "idle"
      BY <2>2 DEF Kinds
    <3> QED BY <1>1, <2>1, <3>1, <3>2, <3>3, <3>4, <3>5 DEF MomentsInv
  <2>5. Knows'
    BY <2>1, <2>2 DEF Knows, LoadedInv, ParserInv, CredentialsInv, ReturnInv, Kinds
  <2> QED BY <2>3, <2>4, <2>5, Zenon DEF ContractInv
<1>3. CASE UNCHANGED sourceVars
  BY <1>1, <1>3, IdleContractInv DEF sourceVars
<1> QED BY <1>2, <1>3, Zenon DEF CallNext

LEMMA TakeContractInv ==
  ASSUME Inv, ContractInv, TakeElements
  PROVE  ContractInv'
<1>1. UNCHANGED <<world, reader, fetcher>> /\ moments' = {} /\ call' = NoCall /\ MomentsInv
  BY DEF TakeElements, Returned, ContractInv
<1>2. call'.pc = "idle" /\ call'.gen = Nothing
  BY <1>1 DEF NoCall
<1>3. MomentsInv'
  BY <1>1, <1>2 DEF MomentsInv, IsWorld
<1> QED BY <1>2, <1>3 DEF ContractInv, KindInv, Knows, LoadedInv, ParserInv, CredentialsInv, ReturnInv

\* The rest of the command happens while no generator is called.
LEMMA RestContractInv ==
  ASSUME Inv, ContractInv, ReadSets \/ EndRender \/ WriteResource \/ EndOutput
  PROVE  ContractInv' /\ UNCHANGED <<world, reader, fetcher, call, moments>> /\ call.pc = "idle"
<1>1. UNCHANGED <<world, reader, fetcher, call, moments>>
  BY DEF ReadSets, EndRender, WriteResource, EndOutput, OnlyCall, Quiet, sourceVars
<1>2. call.pc = "idle"
  BY DEF ReadSets, EndRender, WriteResource, EndOutput, Rendering, Inv, AnswerInv
<1> QED BY <1>1, <1>2, IdleContractInv

LEMMA InitContractInv ==
  ASSUME Init, Faithful
  PROVE  ContractInv
<1>1. IsWorld(world)
  BY WorldsAssumption DEF Init, IsWorld
<1>2. call.pc = "idle" /\ call.gen = Nothing /\ moments = {}
  BY DEF Init, NoCall
<1>3. reader = "local" <=> fetcher = "local"
  BY ModesAssumption DEF Init, Faithful, ReaderOf, FetcherOf
<1> QED BY <1>1, <1>2, <1>3
        DEF ContractInv, MomentsInv, KindInv, Knows, LoadedInv, ParserInv, CredentialsInv, ReturnInv

LEMMA AlwaysContractInv == Faithful => (Spec => [](Inv /\ ContractInv))
<1>1. SUFFICES ASSUME Faithful PROVE Spec => [](Inv /\ ContractInv)
  OBVIOUS
<1>2. Inv /\ ContractInv /\ [Next]_vars => ContractInv'
  <2> SUFFICES ASSUME Inv, ContractInv, [Next]_vars PROVE ContractInv'
    OBVIOUS
  <2>1. CASE ReadSets \/ CallNext \/ TakeElements \/ EndRender \/ WriteResource \/ EndOutput
    BY <2>1, CallContractInv, TakeContractInv, RestContractInv
  <2>2. CASE Step
    BY <1>1, <2>2, StepContractInv
  <2>3. CASE ChangeSource
    BY <2>3, ChangeContractInv
  <2>4. CASE UNCHANGED vars
    BY <2>4, SameContractInv DEF vars, sourceVars
  <2> QED BY <2>1, <2>2, <2>3, <2>4, Zenon DEF Next
<1>3. Init => ContractInv
  BY <1>1, InitContractInv
<1> QED BY <1>2, <1>3, Always, PTL DEF Spec

-----------------------------------------------------------------------------
(* Every step of a call is one that the contract allows, or none. *)

Kept == Promise!Call \/ Promise!Take \/ Promise!Change \/ Promise!Disturb \/ Promise!Return

LEMMA InitMaps ==
  ASSUME Init PROVE Promise!Init
BY DEF Init, Promise!Init, NoCall

LEMMA StepMaps ==
  ASSUME Inv, ContractInv, ContractInv', Framed
  PROVE  [Kept]_(Promise!contractVars)
<1>1. /\ Seen(world)' = Seen(world) /\ moments' = moments /\ call'.gen = call.gen
      /\ call.gen # Nothing /\ call.pc \notin {"idle", "done"} /\ call'.pc # "idle"
      /\ call'.before = call.before
  BY NamesAssumption DEF Framed, Seen, Inv, CallInv
<1>2. /\ faults \in Nat /\ faults' \in {faults, faults + 1} /\ call.before \in Nat
      /\ call.before <= faults
  BY CallSees DEF Framed, ContractInv
<1>3. CASE call'.pc = "done"
  <2>1. MayReturn(call.outcome)'
    BY <1>3, Zenon DEF ContractInv, Knows, ReturnInv
  <2>2. \/ \E w \in Promise!Met : call'.outcome \in Promise!Promised(call.gen, w)
        \/ (faults' > call'.before \/ Cardinality(moments) > 1) /\ call'.outcome = Failure
    <3>1. Promise!Met' = Promise!Met
      BY <1>1 DEF Promise!Met
    <3> QED BY <1>1, <2>1, <3>1, Zenon DEF MayReturn
  <2>3. Promise!Failure = Failure /\ Promise!Cardinality(moments) = Cardinality(moments)
    BY SameOutcomes, SameCount
  <2>4. Promise!Return
    BY <1>1, <1>2, <1>3, <2>2, <2>3 DEF Promise!Return
  <2> QED BY <2>4 DEF Kept
<1>4. CASE call'.pc # "done" /\ (faults' > call'.before <=> faults > call.before)
  BY <1>1, <1>4 DEF Promise!contractVars
<1>5. CASE call'.pc # "done" /\ ~(faults' > call'.before <=> faults > call.before)
  <2>1. faults' > call'.before
    BY <1>1, <1>2, <1>5
  <2>2. Promise!Disturb
    BY <1>1, <1>5, <2>1 DEF Promise!Disturb
  <2> QED BY <2>2 DEF Kept
<1> QED BY <1>3, <1>4, <1>5

LEMMA ChangeMaps ==
  ASSUME Inv, ChangeSource
  PROVE  Promise!Change
<1>1. /\ UNCHANGED <<reader, call, faults>> /\ moments' = moments \cup {Seen(world')}
      /\ Seen(world)' = Seen(world')
  BY DEF ChangeSource, Seen
<1> QED BY <1>1 DEF Promise!Change

\* Steps that the contract does not see.
LEMMA SameMaps ==
  ASSUME UNCHANGED <<world, reader, call, moments, faults>>
  PROVE  UNCHANGED Promise!contractVars
BY DEF Promise!contractVars, Seen

LEMMA IdleMaps ==
  ASSUME UNCHANGED <<world, reader, call, moments>>, call.pc = "idle"
  PROVE  UNCHANGED Promise!contractVars
BY DEF Promise!contractVars, Seen

LEMMA CallMaps ==
  ASSUME Inv, ContractInv, CallNext
  PROVE  [Kept]_(Promise!contractVars)
<1>1. /\ call.pc = "idle" /\ call.gen = Nothing /\ Head(todo) \in Generators /\ faults \in Nat
  BY DEF CallNext, Rendering, Inv, TypeOK, ContractInv, MomentsInv
<1>2. CASE Call(Head(todo))
  <2>1. /\ UNCHANGED <<world, reader, faults>> /\ moments' = {Seen(world)}
        /\ call'.pc = FirstStep[Head(todo).kind] /\ call'.gen = Head(todo) /\ call'.before = faults
    BY <1>2 DEF Call, NoCall
  <2>2. call'.pc # "done" /\ Seen(world)' = Seen(world)
    BY <1>1, <2>1, FirstStepIsKnown DEF Seen
  <2>3. Promise!Call
    BY <1>1, <2>1, <2>2 DEF Promise!Call
  <2> QED BY <2>3 DEF Kept
<1>3. CASE UNCHANGED sourceVars
  BY <1>3, SameMaps DEF sourceVars
<1> QED BY <1>2, <1>3, Zenon DEF CallNext

LEMMA TakeMaps ==
  ASSUME Inv, ContractInv, TakeElements
  PROVE  Promise!Take
<1>1. /\ UNCHANGED <<world, reader>> /\ moments' = {} /\ call' = NoCall /\ call.pc = "done"
  BY DEF TakeElements, Returned, Rendering
<1>2. call.outcome # Nothing
  BY <1>1 DEF ContractInv, Knows, ReturnInv
<1>3. call'.pc = "idle" /\ call'.gen = Nothing
  BY <1>1 DEF NoCall
<1>4. Seen(world)' = Seen(world)
  BY <1>1 DEF Seen
<1> QED BY <1>1, <1>2, <1>3, <1>4 DEF Promise!Take

\* Every call of a generator keeps the promise of the contract, for any sources and any
\* repositories, however they change and whatever fails meanwhile: with settings that
\* agree, filters that do, patterns that match directories only, and certificates only
\* for a server that needs them.
THEOREM PromiseIsKept == Faithful => (Spec => HonoursContract)
<1>1. SUFFICES ASSUME Faithful PROVE Spec => HonoursContract
  OBVIOUS
<1>2. Init => Promise!Init
  BY InitMaps
<1>3. (Inv /\ ContractInv) /\ (Inv /\ ContractInv)' /\ [Next]_vars => [Kept]_(Promise!contractVars)
  <2> SUFFICES ASSUME Inv, ContractInv, ContractInv', [Next]_vars
               PROVE  [Kept]_(Promise!contractVars)
    OBVIOUS
  <2>1. CASE ReadSets \/ EndRender \/ WriteResource \/ EndOutput
    BY <2>1, RestContractInv, IdleMaps
  <2>2. CASE CallNext
    BY <2>2, CallMaps
  <2>3. CASE TakeElements
    BY <2>3, TakeMaps DEF Kept
  <2>4. CASE Step
    BY <2>4, StepFrames, StepMaps
  <2>5. CASE ChangeSource
    BY <2>5, ChangeMaps DEF Kept
  <2>6. CASE UNCHANGED vars
    BY <2>6, SameMaps DEF vars, sourceVars
  <2> QED BY <2>1, <2>2, <2>3, <2>4, <2>5, <2>6, Zenon DEF Next
<1> QED BY <1>1, <1>2, <1>3, AlwaysContractInv, PTL DEF Spec, HonoursContract, Promise!Contract, Kept
=============================================================================
