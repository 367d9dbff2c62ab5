-------------------------- MODULE CompilationProofs ---------------------------
(* Theorems about Compilation. The inductive invariant follows a build       *)
(* through its stages: what the loop over the module table has still to      *)
(* visit and what it has compiled make up the program, and what it has       *)
(* compiled is in the object files.                                          *)
EXTENDS Compilation, TLAPS

\* The object files of the build are written, or being written.
Late == pc \in {"dependencies", "link"} \/ (pc = "done" /\ ok = TRUE)

\* A process that goes on has not failed.
GoesOn == pc \notin {"idle", "done"} => ok = TRUE

\* The modules with statements are marked before any object is written.
Marked ==
    pc \in {"codegen", "emit"} \/ Late => needsLinking = input.statements

\* Nothing is compiled before that, and what is compiled has its path.
Fresh ==
    /\ pc \in {"load", "parse", "analyze", "codegen", "emit"} => compiled = {}
    /\ hasPath = compiled

\* What is to be visited and what is compiled cover the program, and nothing else.
Covered ==
    /\ Late => compiled \subseteq Program
    /\ pc = "dependencies" => /\ Program \subseteq rest \cup compiled
                              /\ rest \cap needsLinking \subseteq Program
    /\ Late /\ pc # "dependencies" => Program \subseteq compiled

\* The object file of a compiled module holds the code of one, from this build.
InObject(m, n) == ObjectPath[n] = ObjectPath[m] /\ files[ObjectPath[m]] = Stamp(n)
ObjectsWritten ==
    Late => /\ files[EntryPath] = Stamp(Entry)
            /\ \A m \in compiled : \E n \in compiled : InObject(m, n)

Inv ==
    /\ TypeOK
    /\ GoesOn
    /\ Marked
    /\ Fresh
    /\ Covered
    /\ ObjectsWritten
------------------------------------------------------------------------------
(* Types *)

LEMMA StampTyped ==
    ASSUME NEW m \in Modules \cup {Entry}, build \in 0 .. MaxBuilds
    PROVE  Stamp(m) \in Stamps
  BY DEF Stamp, Stamps

LEMMA NoneTyped == None \in Stamps
  BY BuildsAssumption DEF None, Stamps

\* A failed write leaves files of the same type.
LEMMA EmitFailsTyped ==
    ASSUME NEW p \in Paths, files \in [Paths -> Stamps], EmitFails(p)
    PROVE  files' \in [Paths -> Stamps]
  BY NoneTyped DEF EmitFails

LEMMA InputsFacts ==
    ASSUME NEW i \in Inputs
    PROVE  /\ i.statements \subseteq i.loaded /\ i.loaded \subseteq Modules
           /\ i.config \in BOOLEAN /\ i.link \in BOOLEAN
  BY DEF Inputs

\* In a stage that keeps the number of the build and the input.
LEMMA ExeTyped ==
    ASSUME TypeOK, build' = build, exe' \in {exe, Nothing}
    PROVE  exe'.build \in 0 .. build' /\ exe'.code \subseteq Stamps
  BY BuildsAssumption DEF TypeOK, Nothing

LEMMA LinkedTyped ==
    ASSUME TypeOK, build' = build,
           exe' = [build |-> build, code |-> {files[p] : p \in LinkObjects}]
    PROVE  exe'.build \in 0 .. build' /\ exe'.code \subseteq Stamps
  <1>1. LinkObjects \subseteq Paths
    BY PathAssumption, InputsFacts DEF LinkObjects, TypeOK
  <1>2. \A p \in LinkObjects : files[p] \in Stamps
    BY <1>1 DEF TypeOK
  <1>3. build \in 0 .. build
    BY BuildsAssumption DEF TypeOK
  <1> QED
    BY <1>2, <1>3

LEMMA InitTyped == Init => TypeOK
  <1> SUFFICES ASSUME Init PROVE TypeOK
    OBVIOUS
  <1>1. build = 0 /\ pc = "idle" /\ ok = FALSE
    BY DEF Init
  <1>2. input \in Inputs
    BY DEF Init, Inputs
  <1>3. files \in [Paths -> Stamps]
    BY NoneTyped DEF Init
  <1>4. exe.build \in 0 .. build /\ exe.code \subseteq Stamps
    BY DEF Init, Nothing
  <1>5. build \in 0 .. MaxBuilds
    BY <1>1, BuildsAssumption
  <1>6. pc \in Stages /\ ok \in BOOLEAN
    BY <1>1 DEF Stages
  <1>7. needsLinking = {} /\ analyzed = {} /\ rest = {} /\ hasPath = {} /\ compiled = {}
    BY DEF Init
  <1> QED
    BY <1>2, <1>3, <1>4, <1>5, <1>6, <1>7 DEF TypeOK

\* Every variable keeps its type.
THEOREM TypeCorrect == Spec => []TypeOK
<1>1. TypeOK /\ [Next]_vars => TypeOK'
  <2> SUFFICES ASSUME TypeOK, [Next]_vars PROVE TypeOK'
    OBVIOUS
  <2> USE DEF TypeOK
  <2>1. CASE StartBuild
    <3>1. build' \in 0 .. MaxBuilds /\ exe.build \in 0 .. build'
      BY <2>1, BuildsAssumption DEF StartBuild
    <3> QED
      BY <2>1, <3>1 DEF StartBuild, Stages
  <2>2. CASE Load \/ Parse \/ Codegen
    BY <2>2 DEF Load, Parse, Codegen, InMemory, Continue, Fail, Stages, process
  <2>3. CASE Analyze
    BY <2>3, InputsFacts DEF Analyze, Continue, Fail, Stages
  <2>4. CASE EmitArtifacts
    <3>1. files' \in [Paths -> Stamps]
      BY <2>4, PathAssumption, StampTyped, EmitFailsTyped DEF EmitArtifacts
    <3> QED
      BY <2>4, <3>1 DEF EmitArtifacts, Continue, Fail, Stages
  <2>5. CASE PassOver
    BY <2>5 DEF PassOver
  <2>6. CASE CompileModule
    <3>1. PICK m \in (rest \cap needsLinking \cap analyzed) \ compiled :
             /\ files' = [files EXCEPT ![ObjectPath[m]] = Stamp(m)]
             /\ rest' = rest \ {m}
             /\ hasPath' = hasPath \cup {m}
             /\ compiled' = compiled \cup {m}
      BY <2>6 DEF CompileModule
    <3>2. m \in Modules
      BY <3>1, InputsFacts
    <3>3. Stamp(m) \in Stamps
      BY <3>2, StampTyped
    <3> QED
      BY <2>6, <3>1, <3>3 DEF CompileModule
  <2>7. CASE CompileFails
    <3>1. PICK m \in (rest \cap needsLinking) \ compiled : EmitFails(ObjectPath[m])
      BY <2>7 DEF CompileFails
    <3>2. ObjectPath[m] \in Paths
      BY <3>1, PathAssumption, InputsFacts
    <3>3. files' \in [Paths -> Stamps]
      BY <3>1, <3>2, EmitFailsTyped
    <3> QED
      BY <2>7, <3>3 DEF CompileFails, Fail, Stages, process
  <2>8. CASE EndDependencies
    BY <2>8 DEF EndDependencies, Continue, Stages, process
  <2>9. CASE Link
    <3>1. exe'.build \in 0 .. build' /\ exe'.code \subseteq Stamps
      BY <2>9, ExeTyped, LinkedTyped DEF Link
    <3>2. ok' \in BOOLEAN
      BY <2>9 DEF Link
    <3> QED
      BY <2>9, <3>1, <3>2 DEF Link, Stages, process
  <2>10. CASE Crash
    <3>1. exe'.build \in 0 .. build' /\ exe'.code \subseteq Stamps
      BY <2>10, ExeTyped DEF Crash
    <3>2. Written \subseteq Paths
      BY PathAssumption, InputsFacts DEF Written
    <3>3. files' \in [Paths -> Stamps]
      BY <2>10, <3>2, EmitFailsTyped DEF Crash
    <3> QED
      BY <2>10, <3>1, <3>3 DEF Crash, Fail, Stages, process
  <2>11. CASE UNCHANGED vars
    BY <2>11 DEF vars, process
  <2> QED
    BY <2>1, <2>2, <2>3, <2>4, <2>5, <2>6, <2>7, <2>8, <2>9, <2>10, <2>11 DEF Next, Run
<1> QED
  BY InitTyped, <1>1, PTL DEF Spec
------------------------------------------------------------------------------
(* The invariant *)

LEMMA InvStartBuild ==
    ASSUME Inv, TypeOK', StartBuild
    PROVE  Inv'
  BY DEF StartBuild, Inv, GoesOn, Marked, Fresh, Covered, ObjectsWritten, Late

\* The stages before an object is written, when they do not fail.
LEMMA InvEarly ==
    ASSUME Inv, TypeOK', Load \/ Parse \/ Codegen \/ Analyze
    PROVE  Inv'
  <1>1. GoesOn' /\ ~ Late'
    BY DEF Load, Parse, Codegen, Analyze, InMemory, Continue, Fail, Inv, GoesOn, Late, process
  <1>2. Marked' /\ Fresh'
    BY <1>1 DEF Load, Parse, Codegen, Analyze, InMemory, Continue, Fail, Inv, Marked, Fresh,
                Late, process
  <1>3. Covered' /\ ObjectsWritten'
    BY <1>1 DEF Covered, ObjectsWritten, Late
  <1> QED
    BY <1>1, <1>2, <1>3 DEF Inv

LEMMA InvEmitArtifacts ==
    ASSUME Inv, TypeOK', EmitArtifacts
    PROVE  Inv'
  <1>1. /\ pc = "emit" /\ compiled = {} /\ needsLinking = input.statements
        /\ UNCHANGED <<build, input, needsLinking, hasPath, compiled>>
        /\ rest' = IF input.config THEN input.loaded ELSE {}
    BY DEF EmitArtifacts, Inv, Fresh, Marked
  <1>2. CASE pc' = "dependencies" /\ UNCHANGED ok
             /\ files' = [files EXCEPT ![EntryPath] = Stamp(Entry)]
    <2>1. GoesOn' /\ Marked' /\ Fresh'
      BY <1>1, <1>2 DEF Inv, GoesOn, Marked, Fresh
    <2>2. Program' = Program /\ Program \subseteq rest' /\ rest' \cap needsLinking \subseteq Program
      BY <1>1, InputsFacts DEF Program, Inv, TypeOK
    <2>3. Covered'
      BY <1>1, <1>2, <2>2 DEF Covered
    <2>4. files'[EntryPath] = Stamp(Entry)' /\ compiled' = {}
      BY <1>1, <1>2, PathAssumption DEF Stamp, Inv, TypeOK
    <2>5. ObjectsWritten'
      BY <2>4 DEF ObjectsWritten
    <2> QED
      BY <2>1, <2>3, <2>5 DEF Inv
  <1>3. CASE Fail
    BY <1>1, <1>3 DEF Fail, Inv, GoesOn, Marked, Fresh, Covered, ObjectsWritten, Late
  <1> QED
    BY <1>2, <1>3 DEF EmitArtifacts, Continue

\* What is passed over is compiled, or of no use to the program.
LEMMA InvPassOver ==
    ASSUME Inv, TypeOK', PassOver
    PROVE  Inv'
  <1>1. /\ pc = "dependencies" /\ pc' = pc
        /\ UNCHANGED <<build, input, ok, needsLinking, hasPath, compiled, files>>
    BY DEF PassOver
  <1>2. PICK m \in rest \ (needsLinking \ compiled) : rest' = rest \ {m}
    BY DEF PassOver
  <1>3. Program' = Program /\ Program \subseteq needsLinking
    BY <1>1 DEF Program, Inv, Marked, Late
  <1>4. Covered'
    BY <1>1, <1>2, <1>3 DEF Inv, Covered, Late
  <1> QED
    BY <1>1, <1>4 DEF Inv, GoesOn, Marked, Fresh, ObjectsWritten, Late, InObject, Stamp

\* An object file that is written again is still of a compiled module.
LEMMA InvCompileModule ==
    ASSUME Inv, TypeOK', CompileModule
    PROVE  Inv'
  <1>1. /\ pc = "dependencies" /\ pc' = pc
        /\ UNCHANGED <<build, input, ok, needsLinking>>
    BY DEF CompileModule
  <1>2. PICK m \in (rest \cap needsLinking) \ compiled :
           /\ files' = [files EXCEPT ![ObjectPath[m]] = Stamp(m)]
           /\ rest' = rest \ {m}
           /\ hasPath' = hasPath \cup {m}
           /\ compiled' = compiled \cup {m}
    BY DEF CompileModule
  <1>3. Program' = Program /\ m \in Program
    BY <1>1, <1>2 DEF Program, Inv, Covered
  <1>4. Covered' /\ Fresh'
    BY <1>1, <1>2, <1>3 DEF Inv, Covered, Fresh, Late
  <1>5. m \in Modules /\ compiled \subseteq Modules
    BY <1>2, InputsFacts DEF Inv, TypeOK
  <1>6. ObjectPath[m] \in Paths /\ ObjectPath[m] # EntryPath /\ files \in [Paths -> Stamps]
    BY <1>5, PathAssumption DEF Inv, TypeOK
  <1>7. files'[EntryPath] = Stamp(Entry)'
    BY <1>1, <1>2, <1>6 DEF Inv, ObjectsWritten, Late, Stamp
  <1>8. ASSUME NEW k \in compiled'
        PROVE  \E n \in compiled' : InObject(k, n)'
    <2>1. CASE ObjectPath[k] = ObjectPath[m]
      <3>1. InObject(k, m)'
        BY <1>1, <1>2, <1>6, <2>1 DEF InObject, Stamp
      <3> QED
        BY <1>2, <3>1
    <2>2. CASE ObjectPath[k] # ObjectPath[m]
      <3>1. k \in compiled /\ ObjectPath[k] \in Paths
        BY <1>2, <1>5, <2>2, PathAssumption
      <3>2. PICK n \in compiled : InObject(k, n)
        BY <1>1, <3>1 DEF Inv, ObjectsWritten, Late
      <3>3. InObject(k, n)'
        BY <1>1, <1>2, <1>6, <2>2, <3>1, <3>2 DEF InObject, Stamp
      <3> QED
        BY <1>2, <3>3
    <2> QED
      BY <2>1, <2>2
  <1>9. ObjectsWritten'
    BY <1>7, <1>8 DEF ObjectsWritten
  <1> QED
    BY <1>1, <1>4, <1>9 DEF Inv, GoesOn, Marked, Late

LEMMA InvEndDependencies ==
    ASSUME Inv, TypeOK', EndDependencies
    PROVE  Inv'
  <1>1. /\ pc = "dependencies" /\ pc' = "link" /\ rest = {}
        /\ UNCHANGED <<build, input, ok, needsLinking, hasPath, compiled, files>>
    BY DEF EndDependencies, Continue, process
  <1>2. Program' = Program
    BY <1>1 DEF Program
  <1>3. Covered'
    BY <1>1, <1>2 DEF Inv, Covered, Late
  <1> QED
    BY <1>1, <1>3 DEF Inv, GoesOn, Marked, Fresh, ObjectsWritten, Late, InObject, Stamp

LEMMA InvLink ==
    ASSUME Inv, TypeOK', Link
    PROVE  Inv'
  <1>1. /\ pc = "link" /\ pc' = "done"
        /\ UNCHANGED <<build, input, needsLinking, hasPath, compiled, files>>
    BY DEF Link, process
  <1>2. Program' = Program
    BY <1>1 DEF Program
  <1>3. Covered'
    BY <1>1, <1>2 DEF Inv, Covered, Late
  <1> QED
    BY <1>1, <1>3 DEF Inv, GoesOn, Marked, Fresh, ObjectsWritten, Late, InObject, Stamp

\* A failure, of the process or of a module: nothing is promised.
LEMMA InvFail ==
    ASSUME Inv, TypeOK', CompileFails \/ Crash
    PROVE  Inv'
  <1>1. pc' = "done" /\ ok' = FALSE /\ hasPath' = compiled'
    BY DEF CompileFails, Crash, Fail, process, Inv, Fresh
  <1> QED
    BY <1>1 DEF Inv, GoesOn, Marked, Fresh, Covered, ObjectsWritten, Late

LEMMA InvStutter ==
    ASSUME Inv, TypeOK', UNCHANGED vars
    PROVE  Inv'
  BY DEF vars, process, Inv, GoesOn, Marked, Fresh, Covered, ObjectsWritten, Late, Program,
         InObject, Stamp

\* What a build has compiled is in its object files, stage by stage.
THEOREM InvCorrect == Spec => []Inv
<1>1. Init => Inv
  <2> SUFFICES ASSUME Init PROVE Inv
    OBVIOUS
  <2>1. GoesOn /\ Marked /\ Fresh /\ Covered /\ ObjectsWritten
    BY DEF Init, GoesOn, Marked, Fresh, Covered, ObjectsWritten, Late
  <2> QED
    BY <2>1, InitTyped DEF Inv
<1>2. Inv /\ TypeOK' /\ [Next]_vars => Inv'
  BY InvStartBuild, InvEarly, InvEmitArtifacts, InvPassOver, InvCompileModule,
     InvEndDependencies, InvLink, InvFail, InvStutter DEF Next, Run
<1> QED
  BY <1>1, <1>2, TypeCorrect, PTL DEF Spec
------------------------------------------------------------------------------
(* What a build promises *)

\* When the compiler exits with 0, the object files of the program are whole,
\* and of this build (compile_module_to_object).
THEOREM SuccessMeansObjectsCorrect == Spec => []SuccessMeansObjects
<1>1. Inv => SuccessMeansObjects
  <2> SUFFICES ASSUME Inv, pc = "done", ok
               PROVE  /\ files[EntryPath] = Stamp(Entry)
                      /\ \A m \in Program : \E n \in Program : InObject(m, n)
    BY DEF SuccessMeansObjects, InObject
  <2>1. Late /\ pc # "dependencies"
    BY DEF Late
  <2>2. compiled = Program
    BY <2>1 DEF Inv, Covered
  <2> QED
    BY <2>1, <2>2 DEF Inv, ObjectsWritten
<1> QED
  BY <1>1, InvCorrect, PTL

\* What is linked is all the code of the program: for each object file, that
\* of the one module it is of.
LEMMA LinkedIsWhole ==
    ASSUME Inv, pc = "link"
    PROVE  {files[p] : p \in LinkObjects} \in Outcome!Whole
  <1> DEFINE chosen == {n \in Program : files[ObjectPath[n]] = Stamp(n)}
             linked == {files[p] : p \in LinkObjects}
  <1>1. Late /\ compiled = Program /\ hasPath = compiled /\ needsLinking = input.statements
    BY DEF Late, Inv, Covered, Fresh, Marked
  <1>2. files[EntryPath] = Stamp(Entry)
    BY <1>1 DEF Inv, ObjectsWritten
  <1>3. \A m \in Program : \E n \in chosen : ObjectPath[n] = ObjectPath[m]
    BY <1>1 DEF Inv, ObjectsWritten, InObject
  <1>4. \A m, n \in chosen : ObjectPath[n] = ObjectPath[m] => n = m
    BY DEF Stamp
  <1>5. LinkObjects = {EntryPath} \cup {ObjectPath[m] : m \in Program}
    BY <1>1 DEF LinkObjects, Program
  <1>6. linked = {Stamp(m) : m \in {Entry} \cup chosen}
    <2>1. ASSUME NEW p \in LinkObjects
          PROVE  \E m \in {Entry} \cup chosen : files[p] = Stamp(m)
      BY <1>2, <1>3, <1>5, <2>1
    <2>2. ASSUME NEW m \in {Entry} \cup chosen
          PROVE  \E p \in LinkObjects : files[p] = Stamp(m)
      BY <1>2, <1>5, <2>2
    <2> HIDE DEF chosen
    <2> QED
      BY <2>1, <2>2
  <1>7. chosen \in SUBSET Program
    OBVIOUS
  <1>8. \A m : Outcome!Stamp(m) = Stamp(m)
    BY DEF Outcome!Stamp, Stamp
  <1> HIDE DEF chosen, linked
  <1>9. linked \in Outcome!Whole
    BY <1>3, <1>4, <1>6, <1>7, <1>8 DEF Outcome!Whole
  <1> QED
    BY <1>9 DEF linked

Running == pc \notin {"idle", "done"}
Verdict == pc = "done" /\ ok
Seen == <<Program, input.link, build, exe, Running, Verdict>>

\* A build that ends badly.
LEMMA FailImplements ==
    ASSUME Running, Fail, exe' \in {exe, Nothing}, UNCHANGED <<build, input>>
    PROVE  Outcome!Fail
  <1>1. Running' = FALSE /\ Verdict' = FALSE
    BY DEF Fail, Running, Verdict
  <1>2. UNCHANGED <<Program, input.link, build>>
    BY DEF Program
  <1> QED
    BY <1>1, <1>2 DEF Outcome!Fail, Running, Verdict, Outcome!Nothing, Nothing

\* A step inside a build is not seen.
LEMMA StageImplements ==
    ASSUME Running, Running', UNCHANGED <<build, input, exe>>
    PROVE  UNCHANGED Seen
  BY DEF Running, Verdict, Seen, Program

LEMMA LinkImplements ==
    ASSUME Inv, Link
    PROVE  Outcome!Next
  <1>1. /\ pc = "link" /\ pc' = "done" /\ ok = TRUE
        /\ UNCHANGED <<build, input>>
    BY DEF Link, Inv, GoesOn
  <1>2. Running = TRUE /\ Running' = FALSE
    BY <1>1 DEF Running
  <1>3. UNCHANGED <<Program, input.link, build>>
    BY <1>1 DEF Program
  <1>4. CASE ~ input.link /\ UNCHANGED <<ok, exe>>
    <2>1. Verdict' = TRUE
      BY <1>1, <1>4 DEF Verdict
    <2>2. Outcome!Succeed
      BY <1>2, <1>3, <1>4, <2>1 DEF Outcome!Succeed, Running, Verdict
    <2> QED
      BY <2>2 DEF Outcome!Next
  <1>5. CASE /\ input.link
             /\ exe' = [build |-> build, code |-> {files[p] : p \in LinkObjects}]
             /\ UNCHANGED ok
    <2>1. Verdict' = TRUE
      BY <1>1, <1>5 DEF Verdict
    <2>2. \E whole \in Outcome!Whole : exe' = [build |-> build, code |-> whole]
      BY <1>1, <1>5, LinkedIsWhole
    <2>3. Outcome!Succeed
      BY <1>2, <1>3, <1>5, <2>1, <2>2 DEF Outcome!Succeed, Running, Verdict
    <2> QED
      BY <2>3 DEF Outcome!Next
  <1>6. CASE input.link /\ ok' = FALSE /\ exe' \in {exe, Nothing}
    <2>1. Outcome!Fail
      BY <1>1, <1>2, <1>6, FailImplements DEF Fail
    <2> QED
      BY <2>1 DEF Outcome!Next
  <1> QED
    BY <1>4, <1>5, <1>6 DEF Link

\* Seen from outside, a build replaces the executable as a whole or not at all,
\* by code of this build only, and the exit code tells the truth.
THEOREM CompilationImplementsBuilds == Spec => ImplementsBuilds
<1>1. Init => Outcome!Init
  <2> SUFFICES ASSUME Init PROVE Outcome!Init
    OBVIOUS
  <2>1. /\ build = 0 /\ pc = "idle" /\ exe = Nothing
        /\ input.config = FALSE /\ input.link = FALSE
    BY DEF Init
  <2>2. Running = FALSE /\ Verdict = FALSE /\ Program = {}
    BY <2>1 DEF Running, Verdict, Program
  <2> QED
    BY <2>1, <2>2 DEF Outcome!Init, Running, Verdict, Outcome!Nothing, Nothing
<1>2. Inv /\ Inv' /\ [Next]_vars => [Outcome!Next]_Seen
  <2> SUFFICES ASSUME Inv, Inv', [Next]_vars PROVE [Outcome!Next]_Seen
    OBVIOUS
  <2>1. CASE StartBuild
    <3>1. ~ Running /\ Running' = TRUE /\ Verdict' = FALSE
          /\ build' = build + 1 /\ UNCHANGED exe
      BY <2>1 DEF StartBuild, Running, Verdict
    <3>2. Program' \in SUBSET Modules /\ (input.link)' \in BOOLEAN
      BY <2>1, InputsFacts DEF StartBuild, Program
    <3>3. Outcome!Start
      BY <3>1, <3>2 DEF Outcome!Start, Running, Verdict
    <3> QED
      BY <3>3 DEF Outcome!Next
  <2>2. CASE Load \/ Parse \/ Codegen \/ Analyze \/ EmitArtifacts
    <3>1. /\ Running /\ UNCHANGED <<build, input, exe>>
          /\ Running' \/ Fail
      BY <2>2 DEF Load, Parse, Codegen, Analyze, EmitArtifacts, InMemory, Continue, Running
    <3> QED
      BY <3>1, StageImplements, FailImplements DEF Outcome!Next
  <2>3. CASE PassOver \/ CompileModule \/ EndDependencies
    <3>1. Running /\ Running' /\ UNCHANGED <<build, input, exe>>
      BY <2>3 DEF PassOver, CompileModule, EndDependencies, Continue, Running
    <3> QED
      BY <3>1, StageImplements
  <2>4. CASE CompileFails
    <3>1. Running /\ Fail /\ UNCHANGED <<build, input, exe>>
      BY <2>4 DEF CompileFails, Running
    <3> QED
      BY <3>1, FailImplements DEF Outcome!Next
  <2>5. CASE Link
    BY <2>5, LinkImplements
  <2>6. CASE Crash
    <3>1. Running /\ Fail /\ exe' \in {exe, Nothing} /\ UNCHANGED <<build, input>>
      BY <2>6 DEF Crash, Running
    <3> QED
      BY <3>1, FailImplements DEF Outcome!Next
  <2>7. CASE UNCHANGED vars
    BY <2>7 DEF vars, Seen, Program, Running, Verdict
  <2> QED
    BY <2>1, <2>2, <2>3, <2>4, <2>5, <2>6, <2>7 DEF Next, Run
<1> QED
  BY <1>1, <1>2, InvCorrect, PTL DEF Spec, ImplementsBuilds, Outcome!Spec, Seen, Running, Verdict
==============================================================================
