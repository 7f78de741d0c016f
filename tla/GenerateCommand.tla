--------------------------- MODULE GenerateCommand ---------------------------
(***************************************************************************)
(* pkg/cmd/command.go: the command that renders the sets of a file, with   *)
(* the cluster, without it, or from directories.  With `Command` false it  *)
(* is what the controller does with one set: the same call of Render, with *)
(* its own client and fetcher.                                             *)
(***************************************************************************)
EXTENDS SourceGenerators

CONSTANTS
  Files,      \* the files that may be given: sequences of documents
  Modes       \* the settings that may be given

Sets(f) == SelectSeq(f, LAMBDA d : d.is = "set")
GeneratorsOf(f) == FlattenSeq([i \in DOMAIN Sets(f) |-> Sets(f)[i].generators])

\* A document has nothing in it, is no GitOpsSet, or is one, with its generators.
ASSUME FilesAssumption ==
  \A f \in Files :
    /\ \A i \in DOMAIN f : f[i].is \in {"blank", "other", "set"}
    /\ GeneratorsOf(f) \in Seq(Generators)
ASSUME ModesAssumption ==
  Modes \subseteq [command : BOOLEAN, disableClusterAccess : BOOLEAN, repositoryRoot : BOOLEAN,
                  enabledGenerators : SUBSET Kinds]

VARIABLES
  mode,       \* the settings
  file,       \* the file that is given
  stage,      \* where the command is
  todo,       \* the generators still to call, set after set
  generated,  \* what has been rendered
  answered,   \* how many calls have returned elements (history)
  written     \* how many of the resources have been written

commandVars == <<mode, file, stage, todo, generated, answered, written>>
vars == <<sourceVars, commandVars>>

TypeOK ==
  /\ mode \in Modes /\ file \in Files
  /\ stage \in {"read", "render", "output", "done", "failed"}
  /\ reader \in Readers /\ fetcher \in Fetchers
  /\ call.gen \in Generators \cup {Nothing}
  /\ temp \in Nat /\ kept \in Nat /\ changes \in 0 .. MaxChanges /\ faults \in 0 .. MaxFaults
  /\ todo \in Seq(Generators)
  /\ answered \in Nat /\ written \in Nat

\* The client: the real one, an empty one, or one of directories.
ReaderOf(m) ==
  IF ~m.disableClusterAccess THEN "cluster"
  ELSE IF m.repositoryRoot THEN "local" ELSE "fake"

\* The fetcher follows one of the flags only.
FetcherOf(m) ==
  IF ~m.command THEN "archive" ELSE IF m.repositoryRoot THEN "local" ELSE "proxy"

Init ==
  /\ world \in Worlds /\ mode \in Modes /\ file \in Files
  /\ reader = ReaderOf(mode) /\ fetcher = FetcherOf(mode)
  /\ call = NoCall /\ temp = 0 /\ kept = 0 /\ moments = {} /\ changes = 0 /\ faults = 0
  /\ stage = "read" /\ todo = <<>> /\ generated = <<>> /\ answered = 0 /\ written = 0

-----------------------------------------------------------------------------
\* Every document is decoded before anything else, and one that is no GitOpsSet ends
\* the command, as does a cluster that is not configured.
ReadSets ==
  /\ stage = "read"
  /\ \E ok \in Answers(reader = "cluster" /\ mode.command) :
       /\ Count(ok)
       /\ IF ok /\ \A i \in DOMAIN file : file[i].is # "other"
          THEN stage' = "render" /\ todo' = GeneratorsOf(file)
          ELSE stage' = "failed" /\ UNCHANGED todo
  /\ OnlyCall /\ UNCHANGED <<call, mode, file, generated, answered, written>>

Rendering == stage = "render" /\ call.pc \in {"idle", "done"}

\* A generator that is not enabled is an error.
CallNext ==
  /\ Rendering /\ call.pc = "idle" /\ todo # <<>>
  /\ todo' = Tail(todo)
  /\ IF Head(todo).kind \in mode.enabledGenerators
     THEN Call(Head(todo)) /\ UNCHANGED stage
     ELSE stage' = "failed" /\ UNCHANGED sourceVars
  /\ UNCHANGED <<mode, file, generated, answered, written>>

Returned ==
  /\ call' = NoCall /\ moments' = {}
  /\ UNCHANGED <<world, reader, fetcher, temp, kept, changes, faults, mode, file, todo, written>>

\* Mutation: an error leaves a set out instead of ending the command.
TakeWhatComes ==
  /\ Rendering /\ call.pc = "done"
  /\ generated' = generated \o call.outcome.elements
  /\ answered' = IF call.outcome.is = "elements" THEN answered + 1 ELSE answered
  /\ UNCHANGED stage
  /\ Returned

\* Elements are rendered into resources (module Renderer), and an error ends all.
TakeElements ==
  /\ Rendering /\ call.pc = "done"
  /\ IF call.outcome.is = "elements"
     THEN /\ generated' = generated \o call.outcome.elements
          /\ answered' = answered + 1 /\ UNCHANGED stage
     ELSE stage' = "failed" /\ UNCHANGED <<generated, answered>>
  /\ Returned

\* The controller hands what is rendered to the reconciler; the command writes it.
EndRender ==
  /\ Rendering /\ call.pc = "idle" /\ todo = <<>>
  /\ stage' = IF mode.command THEN "output" ELSE "done"
  /\ UNCHANGED <<sourceVars, mode, file, todo, generated, answered, written>>

WriteResource ==
  /\ stage = "output" /\ written < Len(generated)
  /\ \E ok \in Answers(TRUE) :
       /\ Count(ok)
       /\ IF ok THEN written' = written + 1 /\ UNCHANGED stage
          ELSE stage' = "failed" /\ UNCHANGED written
  /\ OnlyCall /\ UNCHANGED <<call, mode, file, todo, generated, answered>>

EndOutput ==
  /\ stage = "output" /\ written = Len(generated)
  /\ stage' = "done"
  /\ UNCHANGED <<sourceVars, mode, file, todo, generated, answered, written>>

Next ==
  \/ ReadSets \/ CallNext \/ TakeElements \/ EndRender \/ WriteResource \/ EndOutput
  \/ (Step \/ ChangeSource) /\ UNCHANGED commandVars

Spec == Init /\ [][Next]_vars

-----------------------------------------------------------------------------
\* Nothing is written unless every generator of every set of the file has returned
\* its elements: renderGitOpsSet renders all of them before it writes any.
OutputIsWhole == written > 0 => answered = Len(GeneratorsOf(file))
=============================================================================
