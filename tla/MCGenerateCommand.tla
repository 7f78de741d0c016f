-------------------------- MODULE MCGenerateCommand --------------------------
(* Small instances of GenerateCommand for TLC. *)
EXTENDS GenerateCommand

CONSTANTS a, b, c

MCListing == <<"apps", "apps/dev", "apps/notes", "apps/prod", "dev.yaml", "prod.yaml">>
Tree1 ==
  [p \in Range(MCListing) |->
     CASE p \in {"apps", "apps/dev", "apps/prod"} -> Directory [] p = "apps/notes" -> Bad [] OTHER -> a]
\* Another revision, with a directory less, a file less and a file that does not parse.
Tree2 ==
  [p \in {"apps", "apps/dev", "dev.yaml", "prod.yaml"} |->
     CASE p \in {"apps", "apps/dev"} -> Directory [] p = "dev.yaml" -> b [] OTHER -> Bad]
MCTrees == [r \in {"r1", "r2"} |-> IF r = "r1" THEN Tree1 ELSE Tree2]

Include(paths) == [exclude |-> FALSE, malformed |-> FALSE, paths |-> paths, path |-> "none"]
Exclude(path) == [exclude |-> TRUE, malformed |-> FALSE, paths |-> {}, path |-> path]
\* A path like "apps/[" is no pattern, but may be excluded.
NoPattern == [exclude |-> FALSE, malformed |-> TRUE, paths |-> {}, path |-> "none"]
NoPatternExcluded == [NoPattern EXCEPT !.exclude = TRUE]
AppPaths == {"apps/dev", "apps/prod"}

List(elements) == [kind |-> "list", parses |-> TRUE, elements |-> elements]
BadList == [kind |-> "list", parses |-> FALSE, elements |-> <<>>]
FilesIn(items) == [kind |-> "files", items |-> items]
DirectoriesIn(items) == [kind |-> "directories", items |-> items]
Pulls(secret, labels, forks) ==
  [kind |-> "pullRequests", secret |-> secret, labels |-> labels, forks |-> forks]
API(secret, private, headers, shape) ==
  [kind |-> "api", secret |-> secret, private |-> private, headers |-> headers, shape |-> shape]

MCGenerators ==
  {List(<<a>>), BadList, FilesIn(<<"dev.yaml">>), FilesIn(<<"dev.yaml", "prod.yaml">>),
   FilesIn(<<"apps">>), DirectoriesIn(<<Include(AppPaths), Exclude("apps/prod")>>),
   DirectoriesIn(<<Exclude("apps/dev"), Include({"apps"}), Include(AppPaths), Include({"apps/dev"})>>),
   DirectoriesIn(<<NoPatternExcluded, Include(AppPaths), NoPattern, Include({"apps"})>>),
   [kind |-> "config"], [kind |-> "image"],
   [kind |-> "cluster", selector |-> {a, b}], [kind |-> "cluster", selector |-> {a, b, c}],
   Pulls(TRUE, {}, FALSE), Pulls(FALSE, {"x", "y"}, TRUE),
   API(TRUE, TRUE, FALSE, "array"), API(FALSE, FALSE, TRUE, "single"), API(TRUE, TRUE, TRUE, "path")}

Pull(n, labels, fork) == [n |-> n, labels |-> labels, fork |-> fork]
Body(is, items) == [is |-> is, items |-> items]
Answer(body, found) == [ok |-> TRUE, body |-> body, found |-> found]
Array(items) == Body("array", items)

World0 ==
  [artifact |-> "r1", served |-> {"r1"}, local |-> "r1", config |-> a, clusters |-> {a, b, c},
   image |-> [latest |-> a, parses |-> TRUE], secret |-> "good", headers |-> a,
   pulls |-> <<Pull(1, {"x"}, FALSE), Pull(2, {"x", "y"}, TRUE)>>,
   answer |-> Answer(Array(<<a, b>>), <<<<Array(<<c>>)>>>>)]

MCAnswers ==
  {Answer(Array(<<a, NoObject>>), <<<<Array(<<a>>)>>, <<Array(<<b>>)>>>>),
   Answer(Body("object", <<b>>), <<<<Array(<<a, NoObject>>)>>>>),
   Answer(Body("null", <<>>), Missing), Answer(Body("text", <<>>), Missing),
   Answer(Array(<<Null>>), <<<<Array(<<a>>), Array(<<b>>)>>>>),
   [Answer(Array(<<c>>), <<<<Array(<<a>>)>>>>) EXCEPT !.ok = FALSE]}

\* Each world differs from the first in the state of one source.
MCWorlds ==
  {World0}
  \cup {[World0 EXCEPT !.artifact = v] : v \in {Missing, NoArtifact}}
  \cup {[World0 EXCEPT !.served = {}], [World0 EXCEPT !.local = Missing]}
  \cup {[World0 EXCEPT !.config = Missing], [World0 EXCEPT !.clusters = {}]}
  \cup {[World0 EXCEPT !.image = v] : v \in {Missing, NoImage, [latest |-> b, parses |-> FALSE]}}
  \cup {[World0 EXCEPT !.secret = v] : v \in {"missing", "empty", "bad"}}
  \cup {[World0 EXCEPT !.headers = Missing]}
  \cup {[World0 EXCEPT !.pulls = v] : v \in {<<>>, <<Pull(3, {"y"}, TRUE), Pull(4, {}, FALSE)>>}}
  \cup {[World0 EXCEPT !.answer = v] : v \in MCAnswers}

Settings(command, disable, root, enabled) ==
  [command |-> command, disableClusterAccess |-> disable, repositoryRoot |-> root,
   enabledGenerators |-> enabled]
\* The defaults leave out the generators of clusters and image policies.
MCModes ==
  {Settings(FALSE, FALSE, FALSE, Kinds \ {"cluster", "image"}), Settings(FALSE, FALSE, FALSE, Kinds),
   Settings(TRUE, FALSE, FALSE, Kinds), Settings(TRUE, TRUE, FALSE, Kinds),
   Settings(TRUE, TRUE, TRUE, Kinds)}

Set(gens) == [is |-> "set", generators |-> gens]
Blank == [is |-> "blank", generators |-> <<>>]
Other == [is |-> "other", generators |-> <<>>]

\* Each generator alone, two sets with some document between, and one with a matter
\* that is no set.
MCFiles ==
  {<<Set(<<g>>)>> : g \in MCGenerators}
  \cup {<<Set(<<g>>), d, Set(<<List(<<a>>), h>>)>> :
          d \in {Blank, Other}, g \in {FilesIn(<<"dev.yaml">>), [kind |-> "config"]},
          h \in {FilesIn(<<"dev.yaml">>), [kind |-> "image"]}}

\* What the proofs take of the filters holds of these generators, worlds and trees.
ASSUME SelectionsHold ==
  /\ SelectionsAgree
  /\ \A g \in MCGenerators :
       g.kind = "directories" => \A r \in DOMAIN MCTrees : MatchesDirectories(g, MCTrees[r])

\* To begin with, the world differs only in what the file reads.
Touches(g) ==
  ReadBy(g) \cup IF g.kind \in {"files", "directories"} THEN {"artifact", "served", "local"} ELSE {}
MCInit ==
  /\ Init
  /\ \A f \in DOMAIN World0 :
       world[f] # World0[f] => \E g \in Range(GeneratorsOf(file)) : f \in Touches(g)
MCSpec == MCInit /\ [][Next]_vars
=============================================================================
