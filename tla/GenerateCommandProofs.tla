------------------------ MODULE GenerateCommandProofs ------------------------
(***************************************************************************)
(* Proofs about GenerateCommand for any sources, generators and files: the *)
(* types, the temporary directories, and that the output is whole.         *)
(***************************************************************************)
EXTENDS GenerateCommand, SequenceTheorems, TLAPS

Pcs == {"idle", "load", "mkdir", "fetch", "files", "directories", "remove", "read",
        "secret", "pulls", "headers", "tls", "request", "done"}
Fields == {"pc", "gen", "artifact", "tree", "todo", "elements", "excluded", "secret",
           "outcome", "before"}
Holding == call.pc \in {"fetch", "files", "directories", "remove"}

\* A call that is going on is of a generator, and one on its way to the parser is of
\* a generator that the parser knows.
CallInv ==
  /\ DOMAIN call = Fields /\ call.pc \in Pcs
  /\ call.gen \in Generators \cup {Nothing}
  /\ call.pc # "idle" => call.gen \in Generators
  /\ call.pc \in {"load", "mkdir", "fetch"} => call.gen.kind \in {"files", "directories"}

\* There is one directory more than those whose removal failed while the parser works.
DirInv == temp = kept + (IF Holding THEN 1 ELSE 0)

\* Every generator of the file has been answered, is being called or is to come.
AnswerInv ==
  /\ stage # "render" => call.pc = "idle"
  /\ stage = "read" => answered = 0
  /\ stage \in {"read", "render"} => written = 0
  /\ stage = "render" =>
       answered + Len(todo) + (IF call.pc = "idle" THEN 0 ELSE 1) = Len(GeneratorsOf(file))
  /\ stage = "output" => answered = Len(GeneratorsOf(file))

Inv == TypeOK /\ CallInv /\ DirInv /\ AnswerInv /\ OutputIsWhole

-----------------------------------------------------------------------------
(* Operators of the model. *)

LEMMA AnswersAreBounded ==
  ASSUME NEW asks, faults \in 0 .. MaxFaults, NEW ok \in Answers(asks), Count(ok)
  PROVE  faults' \in 0 .. MaxFaults
<1>1. ok = TRUE \/ (ok = FALSE /\ faults < MaxFaults)
  BY Zenon DEF Answers
<1>2. CASE ok = TRUE
  BY <1>2, Zenon DEF Count
<1>3. CASE ok = FALSE /\ faults < MaxFaults
  <2>1. faults' = faults + 1
    BY <1>3, Zenon DEF Count
  <2> QED BY <2>1, <1>3, BoundsAssumption
<1> QED BY <1>1, <1>2, <1>3, Zenon

LEMMA FirstStepIsKnown ==
  ASSUME NEW g \in Generators
  PROVE  /\ FirstStep[g.kind] \in {"load", "read", "secret", "headers"}
         /\ FirstStep[g.kind] = "load" => g.kind \in {"files", "directories"}
BY GeneratorsAssumption DEF FirstStep, Kinds

-----------------------------------------------------------------------------
LEMMA Initially == Init => Inv
BY BoundsAssumption
   DEF Init, Inv, TypeOK, CallInv, DirInv, AnswerInv, OutputIsWhole, NoCall, Fields, Pcs,
       Holding, ReaderOf, FetcherOf, Readers, Fetchers

-----------------------------------------------------------------------------
(* The steps of a call of Generate. *)

\* What every step of a call keeps.
Calls ==
  /\ call.pc # "idle" /\ call'.pc # "idle"
  /\ CallInv' /\ DirInv'
  /\ temp' \in Nat /\ kept' \in Nat /\ faults' \in 0 .. MaxFaults

LEMMA StepsOfParser ==
  ASSUME TypeOK, CallInv, DirInv,
         LoadRepository \/ MakeTempDir \/ Fetch \/ ReadFile \/ ScanItem \/ EndParsing
           \/ RemoveTempDir
  PROVE  Calls
<1> USE DEF TypeOK
<1>1. CASE LoadRepository
  <2>1. PICK ok \in Answers(reader # "local") : Count(ok)
    BY <1>1, Zenon DEF LoadRepository
  <2>2. faults' \in 0 .. MaxFaults
    BY <2>1, AnswersAreBounded
  <2>3. call.pc # "idle" /\ call'.pc # "idle" /\ CallInv'
    BY <1>1 DEF Calls, CallInv, DirInv, Holding, Pcs, Fields, Goes, Ends, EndsParsing, Quiet, OnlyCall, LoadRepository
  <2>4. DirInv' /\ temp' \in Nat /\ kept' \in Nat
    BY <1>1 DEF Calls, CallInv, DirInv, Holding, Pcs, Fields, Goes, Ends, EndsParsing, Quiet, OnlyCall, LoadRepository
  <2> QED BY <2>2, <2>3, <2>4 DEF Calls, CallInv, DirInv, Holding, Pcs, Fields, Goes, Ends, EndsParsing, Quiet, OnlyCall
<1>2. CASE MakeTempDir
  <2>1. PICK ok \in Answers(TRUE) : Count(ok)
    BY <1>2, Zenon DEF MakeTempDir
  <2>2. faults' \in 0 .. MaxFaults
    BY <2>1, AnswersAreBounded
  <2>3. call.pc # "idle" /\ call'.pc # "idle" /\ CallInv'
    BY <1>2 DEF Calls, CallInv, DirInv, Holding, Pcs, Fields, Goes, Ends, EndsParsing, Quiet, OnlyCall, MakeTempDir
  <2>4. DirInv' /\ temp' \in Nat /\ kept' \in Nat
    BY <1>2 DEF Calls, CallInv, DirInv, Holding, Pcs, Fields, Goes, Ends, EndsParsing, Quiet, OnlyCall, MakeTempDir
  <2> QED BY <2>2, <2>3, <2>4 DEF Calls, CallInv, DirInv, Holding, Pcs, Fields, Goes, Ends, EndsParsing, Quiet, OnlyCall
<1>3. CASE Fetch
  <2>1. PICK ok \in Answers(TRUE) : Count(ok)
    BY <1>3, Zenon DEF Fetch
  <2>2. faults' \in 0 .. MaxFaults
    BY <2>1, AnswersAreBounded
  <2>3. call.pc # "idle" /\ call'.pc # "idle" /\ CallInv'
    BY <1>3 DEF Calls, CallInv, DirInv, Holding, Pcs, Fields, Goes, Ends, EndsParsing, Quiet, OnlyCall, Fetch
  <2>4. DirInv' /\ temp' \in Nat /\ kept' \in Nat
    BY <1>3 DEF Calls, CallInv, DirInv, Holding, Pcs, Fields, Goes, Ends, EndsParsing, Quiet, OnlyCall, Fetch
  <2> QED BY <2>2, <2>3, <2>4 DEF Calls, CallInv, DirInv, Holding, Pcs, Fields, Goes, Ends, EndsParsing, Quiet, OnlyCall
<1>4. CASE ReadFile
  BY <1>4 DEF Calls, CallInv, DirInv, Holding, Pcs, Fields, EndsParsing, Quiet, OnlyCall, ReadFile
<1>5. CASE ScanItem
  <2>1. PICK ok \in Answers(~Head(call.todo).exclude) : Count(ok)
    BY <1>5, Zenon DEF ScanItem
  <2>2. faults' \in 0 .. MaxFaults
    BY <2>1, AnswersAreBounded
  <2>3. call.pc # "idle" /\ call'.pc # "idle" /\ CallInv'
    BY <1>5 DEF Calls, CallInv, DirInv, Holding, Pcs, Fields, EndsParsing, Quiet, OnlyCall, ScanItem
  <2>4. DirInv' /\ temp' \in Nat /\ kept' \in Nat
    BY <1>5 DEF Calls, CallInv, DirInv, Holding, Pcs, Fields, EndsParsing, Quiet, OnlyCall, ScanItem
  <2> QED BY <1>5, <2>2, <2>3, <2>4 DEF Calls, Quiet, OnlyCall, ScanItem
<1>6. CASE EndParsing
  BY <1>6 DEF Calls, CallInv, DirInv, Holding, Pcs, Fields, EndsParsing, Quiet, OnlyCall, EndParsing
<1>7. CASE RemoveTempDir
  <2>1. PICK ok \in Answers(TRUE) : Count(ok)
    BY <1>7, Zenon DEF RemoveTempDir
  <2>2. faults' \in 0 .. MaxFaults
    BY <2>1, AnswersAreBounded
  <2>3. call.pc # "idle" /\ call'.pc # "idle" /\ CallInv'
    BY <1>7 DEF Calls, CallInv, DirInv, Holding, Pcs, Fields, Goes, Ends, EndsParsing, Quiet, OnlyCall, RemoveTempDir
  <2>4. DirInv' /\ temp' \in Nat /\ kept' \in Nat
    BY <1>7 DEF Calls, CallInv, DirInv, Holding, Pcs, Fields, Goes, Ends, EndsParsing, Quiet, OnlyCall, RemoveTempDir
  <2> QED BY <2>2, <2>3, <2>4 DEF Calls, CallInv, DirInv, Holding, Pcs, Fields, Goes, Ends, EndsParsing, Quiet, OnlyCall
<1> QED BY <1>1, <1>2, <1>3, <1>4, <1>5, <1>6, <1>7

LEMMA StepsOfOthers ==
  ASSUME TypeOK, CallInv, DirInv,
         Read \/ ReadToken \/ ListPulls \/ AddHeaders \/ CreateTLSConfig \/ Request
  PROVE  Calls
<1> USE DEF TypeOK
<1>1. CASE Read
  <2>1. PICK ok \in Answers(call.gen.kind # "list") : Count(ok)
    BY <1>1, Zenon DEF Read
  <2>2. faults' \in 0 .. MaxFaults
    BY <2>1, AnswersAreBounded
  <2>3. call.pc # "idle" /\ call'.pc # "idle" /\ CallInv'
    BY <1>1 DEF Calls, CallInv, DirInv, Holding, Pcs, Fields, Goes, Ends, EndsParsing, Quiet, OnlyCall, Read
  <2>4. DirInv' /\ temp' \in Nat /\ kept' \in Nat
    BY <1>1 DEF Calls, CallInv, DirInv, Holding, Pcs, Fields, Goes, Ends, EndsParsing, Quiet, OnlyCall, Read
  <2> QED BY <2>2, <2>3, <2>4 DEF Calls, CallInv, DirInv, Holding, Pcs, Fields, Goes, Ends, EndsParsing, Quiet, OnlyCall
<1>2. CASE ReadToken
  <2>1. PICK ok \in Answers(call.gen.secret) : Count(ok)
    BY <1>2, Zenon DEF ReadToken
  <2>2. faults' \in 0 .. MaxFaults
    BY <2>1, AnswersAreBounded
  <2>3. call.pc # "idle" /\ call'.pc # "idle" /\ CallInv'
    BY <1>2 DEF Calls, CallInv, DirInv, Holding, Pcs, Fields, Goes, Ends, EndsParsing, Quiet, OnlyCall, ReadToken
  <2>4. DirInv' /\ temp' \in Nat /\ kept' \in Nat
    BY <1>2 DEF Calls, CallInv, DirInv, Holding, Pcs, Fields, Goes, Ends, EndsParsing, Quiet, OnlyCall, ReadToken
  <2> QED BY <2>2, <2>3, <2>4 DEF Calls, CallInv, DirInv, Holding, Pcs, Fields, Goes, Ends, EndsParsing, Quiet, OnlyCall
<1>3. CASE ListPulls
  <2>1. PICK ok \in Answers(TRUE) : Count(ok)
    BY <1>3, Zenon DEF ListPulls
  <2>2. faults' \in 0 .. MaxFaults
    BY <2>1, AnswersAreBounded
  <2>3. call.pc # "idle" /\ call'.pc # "idle" /\ CallInv'
    BY <1>3 DEF Calls, CallInv, DirInv, Holding, Pcs, Fields, Goes, Ends, EndsParsing, Quiet, OnlyCall, ListPulls
  <2>4. DirInv' /\ temp' \in Nat /\ kept' \in Nat
    BY <1>3 DEF Calls, CallInv, DirInv, Holding, Pcs, Fields, Goes, Ends, EndsParsing, Quiet, OnlyCall, ListPulls
  <2> QED BY <2>2, <2>3, <2>4 DEF Calls, CallInv, DirInv, Holding, Pcs, Fields, Goes, Ends, EndsParsing, Quiet, OnlyCall
<1>4. CASE AddHeaders
  <2>1. PICK ok \in Answers(call.gen.headers) : Count(ok)
    BY <1>4, Zenon DEF AddHeaders
  <2>2. faults' \in 0 .. MaxFaults
    BY <2>1, AnswersAreBounded
  <2>3. call.pc # "idle" /\ call'.pc # "idle" /\ CallInv'
    BY <1>4 DEF Calls, CallInv, DirInv, Holding, Pcs, Fields, Goes, Ends, EndsParsing, Quiet, OnlyCall, AddHeaders
  <2>4. DirInv' /\ temp' \in Nat /\ kept' \in Nat
    BY <1>4 DEF Calls, CallInv, DirInv, Holding, Pcs, Fields, Goes, Ends, EndsParsing, Quiet, OnlyCall, AddHeaders
  <2> QED BY <2>2, <2>3, <2>4 DEF Calls, CallInv, DirInv, Holding, Pcs, Fields, Goes, Ends, EndsParsing, Quiet, OnlyCall
<1>5. CASE CreateTLSConfig
  <2>1. PICK ok \in Answers(call.gen.secret) : Count(ok)
    BY <1>5, Zenon DEF CreateTLSConfig
  <2>2. faults' \in 0 .. MaxFaults
    BY <2>1, AnswersAreBounded
  <2>3. call.pc # "idle" /\ call'.pc # "idle" /\ CallInv'
    BY <1>5 DEF Calls, CallInv, DirInv, Holding, Pcs, Fields, Goes, Ends, EndsParsing, Quiet, OnlyCall, CreateTLSConfig
  <2>4. DirInv' /\ temp' \in Nat /\ kept' \in Nat
    BY <1>5 DEF Calls, CallInv, DirInv, Holding, Pcs, Fields, Goes, Ends, EndsParsing, Quiet, OnlyCall, CreateTLSConfig
  <2> QED BY <2>2, <2>3, <2>4 DEF Calls, CallInv, DirInv, Holding, Pcs, Fields, Goes, Ends, EndsParsing, Quiet, OnlyCall
<1>6. CASE Request
  <2>1. PICK ok \in Answers(TRUE) : Count(ok)
    BY <1>6, Zenon DEF Request
  <2>2. faults' \in 0 .. MaxFaults
    BY <2>1, AnswersAreBounded
  <2>3. call.pc # "idle" /\ call'.pc # "idle" /\ CallInv'
    BY <1>6 DEF Calls, CallInv, DirInv, Holding, Pcs, Fields, Goes, Ends, EndsParsing, Quiet, OnlyCall, Request
  <2>4. DirInv' /\ temp' \in Nat /\ kept' \in Nat
    BY <1>6 DEF Calls, CallInv, DirInv, Holding, Pcs, Fields, Goes, Ends, EndsParsing, Quiet, OnlyCall, Request
  <2> QED BY <2>2, <2>3, <2>4 DEF Calls, CallInv, DirInv, Holding, Pcs, Fields, Goes, Ends, EndsParsing, Quiet, OnlyCall
<1> QED BY <1>1, <1>2, <1>3, <1>4, <1>5, <1>6

-----------------------------------------------------------------------------
(* The steps of the command, and of the sources. *)

\* A step of a call leaves the command alone, and the call goes on or is done.
LEMMA StepKeeps ==
  ASSUME Inv, Step, UNCHANGED commandVars
  PROVE  Inv'
<1>1. Calls
  BY StepsOfParser, StepsOfOthers DEF Inv, Step
<1>2. UNCHANGED <<reader, fetcher, changes>>
  BY Zenon DEF Step, LoadRepository, MakeTempDir, Fetch, ReadFile, ScanItem, EndParsing,
       RemoveTempDir, Read, ReadToken, ListPulls, AddHeaders, CreateTLSConfig, Request,
       OnlyCall, Quiet
<1>3. TypeOK'
  BY <1>1, <1>2 DEF Inv, TypeOK, Calls, CallInv, commandVars
<1>4. AnswerInv' /\ OutputIsWhole'
  BY <1>1 DEF Inv, AnswerInv, OutputIsWhole, Calls, commandVars
<1> QED BY <1>1, <1>3, <1>4 DEF Inv, Calls

LEMMA ChangeKeeps ==
  ASSUME Inv, ChangeSource, UNCHANGED commandVars
  PROVE  Inv'
<1>1. UNCHANGED <<reader, fetcher, call, temp, kept, faults>> /\ changes' \in 0 .. MaxChanges
  BY BoundsAssumption DEF Inv, TypeOK, ChangeSource
<1> QED BY <1>1 DEF Inv, TypeOK, CallInv, DirInv, Holding, AnswerInv, OutputIsWhole, commandVars

LEMMA ReadKeeps ==
  ASSUME Inv, ReadSets
  PROVE  Inv'
<1>1. faults' \in 0 .. MaxFaults
  <2>1. PICK ok \in Answers(reader = "cluster" /\ mode.command) : Count(ok)
    BY Zenon DEF ReadSets
  <2> QED BY <2>1, AnswersAreBounded DEF Inv, TypeOK
<1>2. UNCHANGED <<reader, fetcher, call, temp, kept, changes, mode, file, answered, written>>
  BY DEF ReadSets, OnlyCall, Quiet
<1>3. /\ stage = "read"
      /\ \/ stage' = "render" /\ todo' = GeneratorsOf(file)
         \/ stage' = "failed" /\ todo' = todo
  BY Zenon DEF ReadSets
<1>4. TypeOK'
  BY <1>1, <1>2, <1>3, FilesAssumption DEF Inv, TypeOK
<1>5. AnswerInv' /\ OutputIsWhole'
  BY <1>2, <1>3 DEF Inv, TypeOK, AnswerInv, OutputIsWhole
<1> QED BY <1>2, <1>4, <1>5 DEF Inv, CallInv, DirInv, Holding

LEMMA CallKeeps ==
  ASSUME Inv, CallNext
  PROVE  Inv'
<1>1. /\ todo # <<>> /\ todo \in Seq(Generators)
      /\ Head(todo) \in Generators /\ todo' = Tail(todo)
      /\ todo' \in Seq(Generators) /\ Len(todo') = Len(todo) - 1 /\ Len(todo) \in Nat
  BY DEF Inv, TypeOK, CallNext
<1>2. /\ stage = "render" /\ call.pc = "idle"
      /\ UNCHANGED <<mode, file, generated, answered, written>>
  BY DEF CallNext, Rendering
<1>3. CASE Call(Head(todo)) /\ UNCHANGED stage
  <2>1. /\ call' = [NoCall EXCEPT !.pc = FirstStep[Head(todo).kind], !.gen = Head(todo),
                                  !.before = faults]
        /\ UNCHANGED <<reader, fetcher, temp, kept, changes, faults>>
    BY <1>3 DEF Call
  <2>2. CallInv' /\ call'.pc \notin {"idle", "fetch", "files", "directories", "remove"}
    BY <2>1, <1>1, FirstStepIsKnown DEF CallInv, NoCall, Fields, Pcs
  <2>3. TypeOK'
    BY <1>1, <1>2, <1>3, <2>1, <2>2 DEF Inv, TypeOK, CallInv
  <2>4. DirInv'
    BY <1>2, <2>1, <2>2 DEF Inv, DirInv, Holding
  <2>5. AnswerInv' /\ OutputIsWhole'
    <3>1. answered + Len(todo) + 0 = Len(GeneratorsOf(file)) /\ written = 0
      BY <1>2, Zenon DEF Inv, AnswerInv
    <3>2. answered + (Len(todo) - 1) + 1 = answered + Len(todo) + 0
      <4>1. answered \in Nat
        BY DEF Inv, TypeOK
      <4> QED BY <1>1, <4>1
    <3>3. answered' + Len(todo') + 1 = Len(GeneratorsOf(file')) /\ written' = 0
      BY <1>1, <1>2, <3>1, <3>2, Zenon
    <3>4. call'.pc # "idle" /\ stage' = "render"
      BY <1>2, <1>3, <2>2
    <3>5. AnswerInv'
      BY <3>3, <3>4 DEF AnswerInv
    <3>6. OutputIsWhole'
      BY <3>3 DEF OutputIsWhole
    <3> QED BY <3>5, <3>6
  <2> QED BY <2>2, <2>3, <2>4, <2>5 DEF Inv
<1>4. CASE stage' = "failed" /\ UNCHANGED sourceVars
  BY <1>1, <1>2, <1>4 DEF Inv, TypeOK, CallInv, DirInv, Holding, AnswerInv, OutputIsWhole, sourceVars
<1>5. (Call(Head(todo)) /\ UNCHANGED stage) \/ (stage' = "failed" /\ UNCHANGED sourceVars)
  BY Zenon DEF CallNext
<1> QED BY <1>3, <1>4, <1>5, Zenon

LEMMA TakeKeeps ==
  ASSUME Inv, TakeElements
  PROVE  Inv'
<1>1. /\ stage = "render" /\ call.pc = "done" /\ call' = NoCall
      /\ UNCHANGED <<reader, fetcher, temp, kept, changes, faults, mode, file, todo, written>>
  BY DEF TakeElements, Rendering, Returned
<1>2. \/ answered' = answered + 1 /\ stage' = stage
      \/ answered' = answered /\ stage' = "failed"
  BY Zenon DEF TakeElements
<1>3. CallInv' /\ DirInv' /\ call'.pc = "idle"
  BY <1>1 DEF Inv, CallInv, DirInv, Holding, NoCall, Fields, Pcs
<1>4. TypeOK'
  BY <1>1, <1>2, <1>3 DEF Inv, TypeOK, CallInv
<1>5. AnswerInv' /\ OutputIsWhole'
  BY <1>1, <1>2, <1>3 DEF Inv, TypeOK, AnswerInv, OutputIsWhole
<1> QED BY <1>3, <1>4, <1>5 DEF Inv

LEMMA WriteKeeps ==
  ASSUME Inv, WriteResource
  PROVE  Inv'
<1>1. faults' \in 0 .. MaxFaults
  <2>1. PICK ok \in Answers(TRUE) : Count(ok)
    BY Zenon DEF WriteResource
  <2> QED BY <2>1, AnswersAreBounded DEF Inv, TypeOK
<1>2. /\ stage = "output"
      /\ UNCHANGED <<reader, fetcher, call, temp, kept, changes, mode, file, todo, answered>>
  BY DEF WriteResource, OnlyCall, Quiet
<1>3. \/ written' = written + 1 /\ stage' = stage
      \/ written' = written /\ stage' = "failed"
  BY Zenon DEF WriteResource
<1> QED BY <1>1, <1>2, <1>3
        DEF Inv, TypeOK, CallInv, DirInv, Holding, AnswerInv, OutputIsWhole

LEMMA EndsKeep ==
  ASSUME Inv, EndRender \/ EndOutput
  PROVE  Inv'
<1> USE DEF Inv, TypeOK, CallInv, DirInv, Holding, AnswerInv, OutputIsWhole, sourceVars
<1>1. CASE EndRender
  BY <1>1 DEF EndRender, Rendering
<1>2. CASE EndOutput
  BY <1>2 DEF EndOutput
<1> QED BY <1>1, <1>2

LEMMA Always == Spec => []Inv
<1>1. Inv /\ [Next]_vars => Inv'
  <2> SUFFICES ASSUME Inv, [Next]_vars PROVE Inv'
    OBVIOUS
  <2>1. CASE ReadSets \/ CallNext \/ TakeElements \/ EndRender \/ WriteResource \/ EndOutput
    BY <2>1, ReadKeeps, CallKeeps, TakeKeeps, EndsKeep, WriteKeeps
  <2>2. CASE (Step \/ ChangeSource) /\ UNCHANGED commandVars
    BY <2>2, StepKeeps, ChangeKeeps
  <2>3. CASE UNCHANGED vars
    BY <2>3 DEF vars, sourceVars, commandVars, Inv, TypeOK, CallInv, DirInv, Holding,
                AnswerInv, OutputIsWhole
  <2> QED BY <2>1, <2>2, <2>3 DEF Next
<1> QED BY Initially, <1>1, PTL DEF Spec

-----------------------------------------------------------------------------
\* Every variable of the command and of a call keeps its type: the number of
\* temporary directories too, so that no removal comes without its directory.
THEOREM CommandTypeCorrect == Spec => []TypeOK
BY Always, PTL DEF Inv

\* Whatever way a call of Generate ends, what the parser of archives unpacked is gone,
\* but for what it could not remove.
THEOREM NoTempIsLeft == Spec => []NoTempLeft
<1>1. Inv => NoTempLeft
  BY DEF Inv, TypeOK, DirInv, Holding, NoTempLeft
<1> QED BY Always, <1>1, PTL

\* For any file, any sources and any failures, nothing is written unless every
\* generator of every set has returned its elements.
THEOREM NothingIsHalfRendered == Spec => []OutputIsWhole
BY Always, PTL DEF Inv

=============================================================================
