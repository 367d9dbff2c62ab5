----------------------------- MODULE Compilation -----------------------------
(* The pipeline of a build (src/src/compilation.c, compilation_run) and the  *)
(* object files it goes through (src/src/module.c), over several builds in   *)
(* one directory: what an earlier build has written is still there, and any  *)
(* stage may fail, or the compiler die, with some files written.             *)
EXTENDS Naturals

CONSTANTS
    Modules,       \* modules a program can use
    Entry,         \* the entry file
    Paths,         \* object files
    ObjectPath,    \* module_make_object_path: the object file of a module
    EntryPath,     \* and of the entry file
    MaxBuilds      \* bound: the builds that are run

ASSUME EntryAssumption == Entry \notin Modules
ASSUME PathAssumption ==
    /\ ObjectPath \in [Modules -> Paths]
    /\ EntryPath \in Paths \ {ObjectPath[m] : m \in Modules}
ASSUME BuildsAssumption == MaxBuilds \in Nat

\* A program and the way it is built: whether there is a mach.toml that can be
\* read, whether an executable is wanted (link_exe), the modules that are
\* loaded and those of them that have statements.
Inputs ==
    {i \in [config : BOOLEAN, link : BOOLEAN, loaded : SUBSET Modules, statements : SUBSET Modules] :
        i.statements \subseteq i.loaded}

Stages == {"idle", "load", "parse", "analyze", "codegen", "emit", "dependencies", "link", "done"}

VARIABLES
    build,         \* the number of builds so far, the running one included
    input,         \* what is built
    pc,            \* the stage that comes next, "done" when the process ended
    ok,            \* FALSE when a stage failed: the exit code is 1
    needsLinking,  \* modules with needs_linking
    analyzed,      \* modules with is_analyzed
    rest,          \* modules that the loop over the table has still to visit
    hasPath,       \* modules with an object_path
    compiled,      \* modules with is_compiled
    files,         \* the object files: whose code, and from which build
    exe            \* the executable

process == <<needsLinking, analyzed, rest, hasPath, compiled>>
vars == <<build, input, pc, ok, process, files, exe>>
------------------------------------------------------------------------------
\* A file is never written, whole, or cut short by a failure: code of nothing.
None == [module |-> "none", build |-> 0]
Stamps == [module : Modules \cup {Entry, "none"}, build : 0 .. MaxBuilds]
Nothing == [build |-> 0, code |-> {}]

TypeOK ==
    /\ build \in 0 .. MaxBuilds
    /\ input \in Inputs
    /\ pc \in Stages
    /\ ok \in BOOLEAN
    /\ needsLinking \subseteq input.statements
    /\ analyzed \subseteq input.loaded
    /\ rest \subseteq input.loaded
    /\ compiled \subseteq hasPath
    /\ hasPath \subseteq needsLinking
    /\ files \in [Paths -> Stamps]
    /\ exe.build \in 0 .. build /\ exe.code \subseteq Stamps

Init ==
    /\ build = 0
    /\ input = [config |-> FALSE, link |-> FALSE, loaded |-> {}, statements |-> {}]
    /\ pc = "idle"
    /\ ok = FALSE
    /\ needsLinking = {} /\ analyzed = {} /\ rest = {} /\ hasPath = {} /\ compiled = {}
    /\ files = [p \in Paths |-> None]
    /\ exe = Nothing
------------------------------------------------------------------------------
Stamp(m) == [module |-> m, build |-> build]

\* The compiler is started: a new process, with a new driver.
StartBuild ==
    /\ pc \in {"idle", "done"}
    /\ build < MaxBuilds
    /\ build' = build + 1
    /\ input' \in Inputs
    /\ pc' = "load"
    /\ ok' = TRUE
    /\ needsLinking' = {} /\ analyzed' = {} /\ rest' = {} /\ hasPath' = {} /\ compiled' = {}
    /\ UNCHANGED <<files, exe>>

Continue(stage) == pc' = stage /\ UNCHANGED ok
Fail == pc' = "done" /\ ok' = FALSE

\* compilation_load_and_preprocess, compilation_parse, compilation_codegen: the
\* entry file is read, parsed and, once it is analyzed, translated in memory.
InMemory(stage, next) ==
    /\ pc = stage
    /\ Continue(next) \/ Fail
    /\ UNCHANGED <<build, input, process, files, exe>>

Load == InMemory("load", "parse")
Parse == InMemory("parse", "analyze")
Codegen == InMemory("codegen", "emit")

\* compilation_analyze: all modules are analyzed, and those with statements are
\* to be linked; or the stage fails, before or after it has marked them.
Analyze ==
    /\ pc = "analyze"
    /\ \/ /\ analyzed' = input.loaded
          /\ needsLinking' = input.statements
          /\ Continue("codegen") \/ Fail
       \/ UNCHANGED <<analyzed, needsLinking>> /\ Fail
    /\ UNCHANGED <<build, input, rest, hasPath, compiled, files, exe>>

\* codegen_emit_object writes the file, or fails and may have cut it short.
EmitFails(path) == files' \in {files, [files EXCEPT ![path] = None]}

\* compilation_emit_artifacts, and the start of compilation_compile_dependencies:
\* without a configuration no module is compiled, and that is no failure.
EmitArtifacts ==
    /\ pc = "emit"
    /\ \/ /\ files' = [files EXCEPT ![EntryPath] = Stamp(Entry)]
          /\ Continue("dependencies")
       \/ EmitFails(EntryPath) /\ Fail
    /\ rest' = IF input.config THEN input.loaded ELSE {}
    /\ UNCHANGED <<build, input, needsLinking, analyzed, hasPath, compiled, exe>>

\* The loop of module_manager_compile_dependencies, one module a step and in
\* the order of the table, which may be any: what is not linked, or compiled
\* already, is passed over,
PassOver ==
    /\ pc = "dependencies"
    /\ \E m \in rest \ (needsLinking \ compiled) : rest' = rest \ {m}
    /\ UNCHANGED <<build, input, pc, ok, needsLinking, analyzed, hasPath, compiled, files, exe>>

\* A slip in CompileModule: an object file that exists is taken as it is.
CompileModuleIfMissing ==
    /\ pc = "dependencies"
    /\ \E m \in (rest \cap needsLinking \cap analyzed) \ compiled :
         /\ files' = IF files[ObjectPath[m]] # None THEN files
                     ELSE [files EXCEPT ![ObjectPath[m]] = Stamp(m)]
         /\ rest' = rest \ {m}
         /\ hasPath' = hasPath \cup {m}
         /\ compiled' = compiled \cup {m}
    /\ UNCHANGED <<build, input, pc, ok, needsLinking, analyzed, exe>>

\* the others are compiled to their object files (compile_module_to_object),
CompileModule ==
    /\ pc = "dependencies"
    /\ \E m \in (rest \cap needsLinking \cap analyzed) \ compiled :
         /\ files' = [files EXCEPT ![ObjectPath[m]] = Stamp(m)]
         /\ rest' = rest \ {m}
         /\ hasPath' = hasPath \cup {m}
         /\ compiled' = compiled \cup {m}
    /\ UNCHANGED <<build, input, pc, ok, needsLinking, analyzed, exe>>

\* and the first that fails, or is not analyzed, ends the build.
CompileFails ==
    /\ pc = "dependencies"
    /\ \E m \in (rest \cap needsLinking) \ compiled : EmitFails(ObjectPath[m])
    /\ Fail
    /\ UNCHANGED <<build, input, process, exe>>

EndDependencies ==
    /\ pc = "dependencies"
    /\ rest = {}
    /\ Continue("link")
    /\ UNCHANGED <<build, input, process, files, exe>>

\* module_manager_get_link_objects, which is only called with a configuration.
LinkObjects ==
    {EntryPath} \cup
    IF input.config THEN {ObjectPath[m] : m \in needsLinking \cap hasPath} ELSE {}

\* A slip in Link: the result of the command is taken the wrong way.
LinkInverted ==
    /\ pc = "link"
    /\ pc' = "done"
    /\ \/ ~ input.link /\ UNCHANGED <<ok, exe>>
       \/ input.link /\ ok' = FALSE /\ exe' = [build |-> build, code |-> {files[p] : p \in LinkObjects}]
       \/ input.link /\ ok' = TRUE /\ exe' \in {exe, Nothing}
    /\ UNCHANGED <<build, input, process, files>>

\* compilation_link: cc writes the executable, or fails, and may have removed
\* the one that was there.
Link ==
    /\ pc = "link"
    /\ pc' = "done"
    /\ \/ ~ input.link /\ UNCHANGED <<ok, exe>>
       \/ /\ input.link
          /\ exe' = [build |-> build, code |-> {files[p] : p \in LinkObjects}]
          /\ UNCHANGED ok
       \/ input.link /\ ok' = FALSE /\ exe' \in {exe, Nothing}
    /\ UNCHANGED <<build, input, process, files>>

\* The process dies: it is killed, or its stack overflows. A file that is being
\* written then may be cut short.
Written ==
    IF pc = "emit" THEN {EntryPath}
    ELSE IF pc = "dependencies" THEN {ObjectPath[m] : m \in rest \cap needsLinking}
    ELSE {}

Crash ==
    /\ pc \notin {"idle", "done"}
    /\ Fail
    /\ UNCHANGED files \/ \E p \in Written : EmitFails(p)
    /\ exe' \in IF pc = "link" /\ input.link THEN {exe, Nothing} ELSE {exe}
    /\ UNCHANGED <<build, input, process>>

Run ==
    \/ Load \/ Parse \/ Analyze \/ Codegen \/ EmitArtifacts
    \/ PassOver \/ CompileModule \/ CompileFails \/ EndDependencies
    \/ Link

Next == StartBuild \/ Run \/ Crash

Spec == Init /\ [][Next]_vars

------------------------------------------------------------------------------
(* Properties *)

\* The code that an executable of the program consists of: without mach.toml
\* it is that of the entry file alone (compilation_compile_dependencies).
Program == IF input.config THEN input.statements ELSE {}

\* Seen from outside a build replaces the executable as a whole or not at all:
\* it holds the code of the entry file and of the modules with statements, all
\* of it from this build, and the exit code says truly whether it was written.
Outcome == INSTANCE Builds WITH
    program <- Program, linking <- input.link, number <- build,
    running <- pc \notin {"idle", "done"}, verdict <- pc = "done" /\ ok
ImplementsBuilds == Outcome!Spec

\* When the process exits with 0 the object files of its modules are its own,
\* whole ones (compile_module_to_object), linked or not.
SuccessMeansObjects ==
    pc = "done" /\ ok =>
        /\ files[EntryPath] = Stamp(Entry)
        /\ \A m \in Program :
             \E n \in Program : ObjectPath[n] = ObjectPath[m] /\ files[ObjectPath[m]] = Stamp(n)

==============================================================================
