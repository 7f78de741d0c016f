----------------------------- MODULE SourceData -----------------------------
(***************************************************************************)
(* What the generators read: repositories and their archives, objects of   *)
(* the cluster, pull requests and answers of an API; and what they make of *)
(* it in one go.                                                           *)
(***************************************************************************)
EXTENDS Integers, Sequences, FiniteSets, SequencesExt

CONSTANTS
  Generators,  \* the generators that may be called
  Worlds,      \* what the sources may hold
  Trees,       \* the files and directories of each revision of a repository
  Listing,     \* every path there may be, in the order of filepath.Glob
  Directory, Bad,   \* what a path holds when it is no file that parses
  Missing,     \* an object that is not there
  NoArtifact, NoImage,  \* an object that has nothing to read yet
  NoObject, Null,       \* an item of an answer that is no object, or is null
  Nothing      \* no call, and no outcome yet

Kinds == {"list", "files", "directories", "config", "cluster", "image", "pullRequests", "api"}

ASSUME GeneratorsAssumption ==
  \A g \in Generators :
    /\ g.kind \in Kinds
    /\ g.kind = "api" => /\ {g.secret, g.private} \subseteq BOOLEAN
                         /\ g.shape \in {"array", "single", "path"}
ASSUME ItemsAssumption ==
  \A g \in Generators : g.kind \in {"files", "directories"} => g.items \in Seq(Range(g.items))
ASSUME TreesAssumption == \A r \in DOMAIN Trees : DOMAIN Trees[r] \subseteq Range(Listing)
ASSUME NamesAssumption ==
  /\ Nothing \notin Generators /\ Missing # NoArtifact
  /\ {Missing, NoArtifact} \cap DOMAIN Trees = {}

\* A world is what every source holds; a directory of the command line is there or not.
WorldFields ==
  {"artifact", "served", "local", "config", "clusters", "image", "secret", "headers", "pulls", "answer"}
ASSUME WorldsAssumption ==
  \A w \in Worlds :
    /\ DOMAIN w = WorldFields
    /\ w.served \subseteq DOMAIN Trees /\ w.local \in DOMAIN Trees \cup {Missing}
    /\ w.secret \in {"missing", "empty", "bad", "good"}

Failure == [is |-> "error", elements |-> <<>>]
Waits == [is |-> "noArtifact", elements |-> <<>>]
Elements(s) == [is |-> "elements", elements |-> s]

\* A file of a list is read and unmarshalled.
Parses(tree, path) == path \in DOMAIN tree /\ tree[path] \notin {Directory, Bad}

\* An exclusion is a path and not a pattern.
Excludes(item, path) == item.exclude /\ item.path = path

\* The paths of a tree that the pattern of an item matches, files included.
Glob(item, tree) == SelectSeq(Listing, LAMBDA p : p \in item.paths /\ p \in DOMAIN tree)

\* An answer that is an array of objects; null stands for no items, and a null
\* item for an object without keys.
ParsedArray(body) ==
  CASE body.is = "array" /\ NoObject \notin Range(body.items) -> Elements(body.items)
    [] body.is = "null" -> Elements(<<>>)
    [] OTHER -> Failure

ParsedSingle(body) ==
  CASE body.is = "object" -> Elements(body.items)
    [] body.is = "null" -> Elements(<<Null>>)
    [] OTHER -> Failure

\* Every result of the path is one array, and every item of it an object.
ParsedPath(answer) ==
  IF /\ answer.body.is # "text" /\ answer.found # Missing
     /\ \A i \in DOMAIN answer.found :
          /\ Len(answer.found[i]) = 1
          /\ answer.found[i][1].is = "array"
          /\ Range(answer.found[i][1].items) \cap {NoObject, Null} = {}
  THEN Elements(FlattenSeq([i \in DOMAIN answer.found |-> answer.found[i][1].items]))
  ELSE Failure

Parsed(g, answer) ==
  CASE g.shape = "array" -> ParsedArray(answer.body)
    [] g.shape = "single" -> ParsedSingle(answer.body)
    [] g.shape = "path" -> ParsedPath(answer)
=============================================================================
