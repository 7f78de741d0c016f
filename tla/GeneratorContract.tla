------------------------- MODULE GeneratorContract -------------------------
(***************************************************************************)
(* What a generator promises to the rendering that calls it: the elements  *)
(* that its source has at one moment of the call, or an error.  It knows   *)
(* no request, archive or temporary directory.                             *)
(***************************************************************************)
EXTENDS SourceData

VARIABLES
  world,      \* what the sources hold
  moments,    \* what they have held since the call began
  disturbed,  \* whether something went wrong in the call
  asked,      \* the generator that is called
  outcome     \* what the call has returned

contractVars == <<world, moments, disturbed, asked, outcome>>

-----------------------------------------------------------------------------
(* The elements of each kind of generator, in the world w. *)

\* Each file in turn: one that is not there or cannot be parsed fails them all.
FilesOf(g, tree) ==
  IF \A i \in DOMAIN g.items : Parses(tree, g.items[i])
  THEN Elements([i \in DOMAIN g.items |-> tree[g.items[i]]])
  ELSE Failure

\* The directories that some item includes, item by item, and that none excludes;
\* an item that includes nothing because it is no pattern fails them all.
DirectoriesOf(g, tree) ==
  LET kept(p) == /\ p \in DOMAIN tree /\ tree[p] = Directory
                 /\ \A i \in DOMAIN g.items : ~Excludes(g.items[i], p)
      included(i) == IF g.items[i].exclude THEN <<>>
                     ELSE SelectSeq(Listing, LAMBDA p : p \in g.items[i].paths /\ kept(p))
  IN IF \E i \in DOMAIN g.items : ~g.items[i].exclude /\ g.items[i].malformed THEN Failure
     ELSE Elements(FlattenSeq([i \in DOMAIN g.items |-> included(i)]))

FromArchive(g, w) ==
  CASE w.artifact = Missing -> Failure
    [] w.artifact = NoArtifact -> Waits
    [] OTHER -> IF w.artifact \notin w.served THEN Failure
                ELSE IF g.kind = "files" THEN FilesOf(g, Trees[w.artifact])
                ELSE DirectoriesOf(g, Trees[w.artifact])

FromConfig(w) == IF w.config = Missing THEN Failure ELSE Elements(<<w.config>>)

FromImage(w) ==
  CASE w.image = Missing -> Failure
    [] w.image = NoImage -> Waits
    [] OTHER -> IF w.image.parses THEN Elements(<<w.image>>) ELSE Failure

\* Every pull request that is open and that the labels and the forks let through.
FromPullRequests(g, w) ==
  IF g.secret /\ w.secret # "good" THEN Failure
  ELSE Elements(SelectSeq(w.pulls, LAMBDA pr : g.labels \subseteq pr.labels /\ (pr.fork => g.forks)))

\* The answer of a server that is trusted by the authority of the Secret and no other,
\* or by those of the system when there is no Secret.
FromAPI(g, w) ==
  IF \/ g.headers /\ w.headers = Missing
     \/ g.secret /\ w.secret # "good"
     \/ g.private # g.secret
     \/ ~w.answer.ok
  THEN Failure
  ELSE Parsed(g, w.answer)

\* The clusters come in any order.
Promised(g, w) ==
  CASE g.kind = "list" -> {IF g.parses THEN Elements(g.elements) ELSE Failure}
    [] g.kind \in {"files", "directories"} -> {FromArchive(g, w)}
    [] g.kind = "config" -> {FromConfig(w)}
    [] g.kind = "cluster" -> IF w.clusters = Missing THEN {Failure}
                            ELSE {Elements(s) : s \in SetToSeqs(w.clusters \cap g.selector)}
    [] g.kind = "image" -> {FromImage(w)}
    [] g.kind = "pullRequests" -> {FromPullRequests(g, w)}
    [] g.kind = "api" -> {FromAPI(g, w)}

-----------------------------------------------------------------------------
Init ==
  /\ moments = {} /\ ~disturbed /\ asked = Nothing /\ outcome = Nothing

Call ==
  /\ asked = Nothing /\ asked' \in Generators
  /\ moments' = {world} /\ ~disturbed'
  /\ UNCHANGED <<world, outcome>>

\* The outcome is taken, and forgotten.
Take ==
  /\ outcome # Nothing
  /\ outcome' = Nothing /\ asked' = Nothing /\ moments' = {} /\ ~disturbed'
  /\ UNCHANGED world

Change ==
  /\ moments' = moments \cup {world'}
  /\ UNCHANGED <<disturbed, asked, outcome>>

\* Something that the call needs goes wrong.
Disturb ==
  /\ disturbed'
  /\ UNCHANGED <<world, moments, asked, outcome>>

\* Credentials are read before the data they open, and may be older.
Met == {[w EXCEPT !.secret = s.secret, !.headers = h.headers] : s, h, w \in moments}

\* A call that nothing disturbs, while its sources stay as they are, returns
\* what is promised; otherwise it may fail.
Return ==
  /\ asked # Nothing /\ outcome = Nothing
  /\ \/ \E w \in Met : outcome' \in Promised(asked, w)
     \/ (disturbed' \/ Cardinality(moments) > 1) /\ outcome' = Failure
  /\ (disturbed => disturbed')
  /\ UNCHANGED <<world, moments, asked>>

Contract == Init /\ [][Call \/ Take \/ Change \/ Disturb \/ Return]_contractVars
=============================================================================
