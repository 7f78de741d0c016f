-------------------------- MODULE SourceGenerators --------------------------
(***************************************************************************)
(* One call of Generate of the generators under pkg/generators, with       *)
(* pkg/parser, step by step, while users and controllers change what it    *)
(* reads.  A call reads through a client and fetches archives through a    *)
(* fetcher, which differ between the controller and the command line.      *)
(***************************************************************************)
EXTENDS SourceData

CONSTANTS
  PageSize,    \* pull requests on the page that is read (20)
  MaxChanges,  \* bound: changes of the sources
  MaxFaults    \* bound: reads and requests that fail

Readers == {"cluster", "fake", "local"}
Fetchers == {"archive", "proxy", "local"}

ASSUME BoundsAssumption == PageSize \in Nat /\ MaxChanges \in Nat /\ MaxFaults \in Nat

VARIABLES
  world,    \* what the sources hold
  reader,   \* the client that reads them
  fetcher,  \* what gets archives
  call,     \* the call of Generate that is going on, or the last one
  temp,     \* temporary directories that are there
  kept,     \* those whose removal failed
  moments,  \* what that client has seen since the call began (history)
  changes,  \* how many changes there have been
  faults    \* how many faults there have been

sourceVars == <<world, reader, fetcher, call, temp, kept, moments, changes, faults>>

\* The local variables of Generate and of the parser: the artifact of the
\* repository, what was unpacked of it, the items to come, the elements, paths and
\* exclusions so far, and the Secret that was read; and the faults before the call.
NoCall ==
  [pc |-> "idle", gen |-> Nothing, artifact |-> Nothing, tree |-> <<>>, todo |-> <<>>,
   elements |-> <<>>, excluded |-> {}, secret |-> "none", outcome |-> Nothing, before |-> 0]

\* What a client can see of the world: the fake one is empty, the local one has
\* repositories only, in the state of a directory.
Seen(w) ==
  LET hidden == [w EXCEPT !.artifact = Missing, !.config = Missing, !.clusters = {},
                          !.image = Missing, !.secret = "missing", !.headers = Missing] IN
  CASE reader = "cluster" -> w
    [] reader = "fake" -> hidden
    [] reader = "local" -> [hidden EXCEPT !.artifact = w.local, !.served = {w.local},
                                          !.clusters = Missing]

-----------------------------------------------------------------------------
(* Steps that read may fail; the end of a call. *)

\* A step that asks for something may be refused it.
Answers(asks) == {TRUE} \cup {f \in {FALSE} : asks /\ faults < MaxFaults}
Count(ok) == faults' = IF ok THEN faults ELSE faults + 1

Goes(pc) == [call EXCEPT !.pc = pc]
Ends(outcome) == [call EXCEPT !.pc = "done", !.outcome = outcome]

\* Mutation: an early return of the parser that forgets the directory.
EndsAtOnce(outcome) == Ends(outcome)

\* The parser has made its directory, and its deferred removal comes first.
EndsParsing(outcome) == [call EXCEPT !.pc = "remove", !.outcome = outcome]

Quiet == UNCHANGED <<world, reader, fetcher, moments, changes>>
OnlyCall == Quiet /\ UNCHANGED <<temp, kept>>

FirstStep ==
  [kind \in Kinds |->
     CASE kind \in {"files", "directories"} -> "load"
       [] kind = "pullRequests" -> "secret"
       [] kind = "api" -> "headers"
       [] OTHER -> "read"]

\* Rendering calls a generator.
Call(g) ==
  /\ call.pc = "idle"
  /\ call' = [NoCall EXCEPT !.pc = FirstStep[g.kind], !.gen = g, !.before = faults]
  /\ moments' = {Seen(world)}
  /\ UNCHANGED <<world, reader, fetcher, temp, kept, changes, faults>>

-----------------------------------------------------------------------------
(* GitRepository and OCIRepository, and the parser of their archives. *)

LoadRepository ==
  /\ call.pc = "load"
  /\ \E ok \in Answers(reader # "local") :
       /\ Count(ok)
       /\ LET found == Seen(world).artifact IN
          call' = IF reader = "local" THEN [Goes("mkdir") EXCEPT !.artifact = "local"]
                  ELSE IF ~ok \/ found = Missing THEN Ends(Failure)
                  ELSE IF found = NoArtifact THEN Ends(Waits)
                  ELSE [Goes("mkdir") EXCEPT !.artifact = found]
  /\ OnlyCall

\* Mutation: the removal is deferred before the error is looked at.
MakeTempDirDeferEarly ==
  /\ call.pc = "mkdir"
  /\ \E ok \in Answers(TRUE) :
       /\ Count(ok)
       /\ call' = IF ok THEN Goes("fetch") ELSE EndsParsing(Failure)
       /\ temp' = IF ok THEN temp + 1 ELSE temp
  /\ Quiet /\ UNCHANGED kept

MakeTempDir ==
  /\ call.pc = "mkdir"
  /\ \E ok \in Answers(TRUE) :
       /\ Count(ok)
       /\ call' = IF ok THEN Goes("fetch") ELSE Ends(Failure)
       /\ temp' = IF ok THEN temp + 1 ELSE temp
  /\ Quiet /\ UNCHANGED kept

\* A local fetcher copies the directory the artifact names; another one gets the
\* archive, as long as the source controller serves it.
Unpacked ==
  IF fetcher = "local"
  THEN IF call.artifact = "local" THEN world.local ELSE Missing
  ELSE IF call.artifact \in world.served THEN call.artifact ELSE Missing

Fetch ==
  /\ call.pc = "fetch"
  /\ \E ok \in Answers(TRUE) :
       /\ Count(ok)
       /\ call' = IF ~ok \/ Unpacked = Missing THEN EndsParsing(Failure)
                  ELSE [Goes(call.gen.kind) EXCEPT !.tree = Trees[Unpacked],
                                                   !.todo = call.gen.items]
  /\ OnlyCall

ReadFile ==
  /\ call.pc = "files" /\ call.todo # <<>>
  /\ call' = IF Parses(call.tree, Head(call.todo))
             THEN [call EXCEPT !.todo = Tail(@),
                               !.elements = Append(@, call.tree[Head(call.todo)])]
             ELSE EndsParsing(Failure)
  /\ OnlyCall /\ UNCHANGED faults

\* A path that is excluded is only cleaned.  One that is not is a pattern, and may be
\* malformed; that its links cannot be followed (SecureJoin) is a fault.
ScanItem ==
  /\ call.pc = "directories" /\ call.todo # <<>>
  /\ LET item == Head(call.todo) IN
     \E ok \in Answers(~item.exclude) :
       /\ Count(ok)
       /\ call' = IF item.exclude
                  THEN [call EXCEPT !.todo = Tail(@), !.excluded = @ \cup {item.path}]
                  ELSE IF ~ok \/ item.malformed THEN EndsParsing(Failure)
                  ELSE [call EXCEPT !.todo = Tail(@), !.elements = @ \o Glob(item, call.tree)]
  /\ OnlyCall

EndParsing ==
  /\ call.pc \in {"files", "directories"} /\ call.todo = <<>>
  /\ call' = EndsParsing(Elements(IF call.pc = "files" THEN call.elements
                                  ELSE SelectSeq(call.elements,
                                                 LAMBDA p : p \notin call.excluded)))
  /\ OnlyCall /\ UNCHANGED faults

\* A directory that cannot be removed is only logged.
RemoveTempDir ==
  /\ call.pc = "remove"
  /\ \E ok \in Answers(TRUE) :
       /\ Count(ok)
       /\ temp' = IF ok THEN temp - 1 ELSE temp
       /\ kept' = IF ok THEN kept ELSE kept + 1
  /\ call' = Goes("done")
  /\ Quiet

-----------------------------------------------------------------------------
(* The generators that read one thing: List, Config, Cluster, ImagePolicy. *)

\* A list is in the set itself.
OfList(g) == IF g.parses THEN Elements(g.elements) ELSE Failure

OfConfig(w) == IF w.config = Missing THEN Failure ELSE Elements(<<w.config>>)

\* The cache lists the clusters that a selector matches in any order.
OfClusters(g, w) ==
  IF w.clusters = Missing THEN {Failure}
  ELSE {Elements(s) : s \in SetToSeqs(w.clusters \cap g.selector)}

\* An ImagePolicy may have no image yet, and tags that do not parse.
OfImage(w) ==
  CASE w.image = Missing -> Failure
    [] w.image = NoImage -> Waits
    [] OTHER -> IF w.image.parses THEN Elements(<<w.image>>) ELSE Failure

OfRead(g, w) ==
  CASE g.kind = "list" -> {OfList(g)}
    [] g.kind = "config" -> {OfConfig(w)}
    [] g.kind = "cluster" -> OfClusters(g, w)
    [] g.kind = "image" -> {OfImage(w)}

Read ==
  /\ call.pc = "read"
  /\ \E ok \in Answers(call.gen.kind # "list") :
       /\ Count(ok)
       /\ \E outcome \in OfRead(call.gen, Seen(world)) :
            call' = Ends(IF ok THEN outcome ELSE Failure)
  /\ OnlyCall

-----------------------------------------------------------------------------
(* PullRequests. *)

\* A Secret that is not there, or has no password, fails the call.
ReadToken ==
  /\ call.pc = "secret"
  /\ \E ok \in Answers(call.gen.secret) :
       /\ Count(ok)
       /\ call' = IF ~ok \/ (call.gen.secret /\ Seen(world).secret \in {"missing", "empty"})
                  THEN Ends(Failure)
                  ELSE [Goes("pulls") EXCEPT !.secret = IF call.gen.secret THEN Seen(world).secret
                                                        ELSE "none"]
  /\ OnlyCall

\* Every label that is asked for is among those of the pull request.
Matches(g, pr) == (\A label \in g.labels : label \in pr.labels) /\ (g.forks \/ ~pr.fork)

FirstPage(pulls) == SubSeq(pulls, 1, IF Len(pulls) < PageSize THEN Len(pulls) ELSE PageSize)

\* Mutation: an error of the provider is taken for no pull requests.
ListPullsLeniently ==
  /\ call.pc = "pulls"
  /\ \E ok \in Answers(TRUE) :
       /\ Count(ok)
       /\ call' = IF ~ok \/ call.secret = "bad" THEN Ends(Elements(<<>>))
                  ELSE Ends(Elements(SelectSeq(FirstPage(world.pulls),
                                               LAMBDA pr : Matches(call.gen, pr))))
  /\ OnlyCall

\* The provider refuses a token that is not good.
ListPulls ==
  /\ call.pc = "pulls"
  /\ \E ok \in Answers(TRUE) :
       /\ Count(ok)
       /\ call' = IF ~ok \/ call.secret = "bad" THEN Ends(Failure)
                  ELSE Ends(Elements(SelectSeq(FirstPage(world.pulls),
                                               LAMBDA pr : Matches(call.gen, pr))))
  /\ OnlyCall

-----------------------------------------------------------------------------
(* APIClient. *)

AddHeaders ==
  /\ call.pc = "headers"
  /\ \E ok \in Answers(call.gen.headers) :
       /\ Count(ok)
       /\ call' = IF ~ok \/ (call.gen.headers /\ Seen(world).headers = Missing)
                  THEN Ends(Failure) ELSE Goes("tls")
  /\ OnlyCall

\* Certificates that cannot be read are logged, and the call goes on without.
CreateTLSConfig ==
  /\ call.pc = "tls"
  /\ \E ok \in Answers(call.gen.secret) :
       /\ Count(ok)
       /\ call' = [Goes("request") EXCEPT
                     !.secret = IF call.gen.secret /\ ok THEN Seen(world).secret ELSE "none"]
  /\ OnlyCall

\* A server whose certificate is of an authority of its own needs the certificates
\* of the Secret, and with those no other server is trusted.
Trusted == call.gen.private <=> call.secret = "good"

\* Mutation: the status of the response is not looked at.
RequestIgnoringStatus ==
  /\ call.pc = "request"
  /\ \E ok \in Answers(TRUE) :
       /\ Count(ok)
       /\ call' = Ends(IF ~ok \/ ~Trusted THEN Failure ELSE Parsed(call.gen, world.answer))
  /\ OnlyCall

Request ==
  /\ call.pc = "request"
  /\ \E ok \in Answers(TRUE) :
       /\ Count(ok)
       /\ call' = Ends(IF ~ok \/ ~Trusted \/ ~world.answer.ok THEN Failure
                       ELSE Parsed(call.gen, world.answer))
  /\ OnlyCall

Step ==
  \/ LoadRepository \/ MakeTempDir \/ Fetch \/ ReadFile \/ ScanItem \/ EndParsing
  \/ RemoveTempDir \/ Read \/ ReadToken \/ ListPulls \/ AddHeaders \/ CreateTLSConfig \/ Request

-----------------------------------------------------------------------------
(* What the sources do meanwhile. *)

\* The source controller stores an archive before it names it, drops old ones, and
\* may lose what it stored and store it again.
Archived(w, v) ==
  \/ v = [w EXCEPT !.served = @ \cap {w.artifact}]
  \/ v = [w EXCEPT !.served = {}]
  \/ v = [w EXCEPT !.served = @ \cup ({w.artifact} \cap DOMAIN Trees)]
  \/ \E r \in DOMAIN Trees : v = [w EXCEPT !.artifact = r, !.served = @ \cup {r}]
  \/ v = [w EXCEPT !.artifact = Missing]

\* Which parts of the world a generator reads.
ReadBy(g) ==
  CASE g.kind = "config" -> {"config"}
    [] g.kind = "cluster" -> {"clusters"}
    [] g.kind = "image" -> {"image"}
    [] g.kind = "pullRequests" -> {"secret", "pulls"}
    [] g.kind = "api" -> {"secret", "headers", "answer"}
    [] OTHER -> {}

\* Sources change while a call reads them; any other change is seen as another
\* world to begin with.
ChangeSource ==
  /\ call.pc \notin {"idle", "done"} /\ changes < MaxChanges
  /\ changes' = changes + 1
  /\ \/ call.gen.kind \in {"files", "directories"} /\ Archived(world, world')
     \/ call.gen.kind \in {"files", "directories"}
          /\ \E r \in DOMAIN Trees : world' = [world EXCEPT !.local = r]
     \/ \E f \in ReadBy(call.gen) : \E w \in Worlds : world' = [world EXCEPT ![f] = w[f]]
  /\ world' # world
  /\ moments' = moments \cup {Seen(world')}
  /\ UNCHANGED <<reader, fetcher, call, temp, kept, faults>>
-----------------------------------------------------------------------------
(* Properties. *)

\* Whatever way a call ends, no temporary directory is left but those that could
\* not be removed.
NoTempLeft == call.pc \in {"idle", "done"} => temp = kept

\* Every call keeps the promise of its generator: what it returns is what its
\* source had at one moment of the call, opened with the credentials it was given,
\* and it fails only when it should, or when it was disturbed.
Promise == INSTANCE GeneratorContract WITH
  world <- Seen(world), disturbed <- (call.pc # "idle" /\ faults > call.before),
  asked <- call.gen, outcome <- IF call.pc = "done" THEN call.outcome ELSE Nothing

HonoursContract == Promise!Contract

\* The filters of the model and of the contract choose the same of a list: the labels of
\* the pull requests, which fit the page, and the paths that the items of directories
\* include and exclude, each of them a path of the tree.
PullRequestsAgree(g, pulls) ==
  SelectSeq(FirstPage(pulls), LAMBDA pr : Matches(g, pr)) =
  SelectSeq(pulls, LAMBDA pr : g.labels \subseteq pr.labels /\ (pr.fork => g.forks))

\* The patterns of a generator of directories match no file, and are patterns.
MatchesDirectories(g, tree) ==
  \A i \in DOMAIN g.items :
    ~g.items[i].exclude => \A p \in g.items[i].paths \cap DOMAIN tree : tree[p] = Directory
WellFormed(g) == \A i \in DOMAIN g.items : g.items[i].exclude \/ ~g.items[i].malformed

Included(g, tree) ==
  [i \in DOMAIN g.items |-> IF g.items[i].exclude THEN <<>> ELSE Glob(g.items[i], tree)]
Excluded(g) == {g.items[i].path : i \in {j \in DOMAIN g.items : g.items[j].exclude}}
DirectoriesAgree(g, tree) ==
  /\ \A i \in DOMAIN g.items : Included(g, tree)[i] \in Seq(Range(Listing))
  /\ MatchesDirectories(g, tree) /\ WellFormed(g) =>
       Elements(SelectSeq(FlattenSeq(Included(g, tree)), LAMBDA p : p \notin Excluded(g))) =
       Promise!DirectoriesOf(g, tree)

SelectionsAgree ==
  \A g \in Generators :
    /\ g.kind = "pullRequests" => \A w \in Worlds : PullRequestsAgree(g, w.pulls)
    /\ g.kind = "directories" => \A r \in DOMAIN Trees : DirectoriesAgree(g, Trees[r])
=============================================================================
