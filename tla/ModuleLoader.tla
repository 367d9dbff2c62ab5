---------------------------- MODULE ModuleLoader -----------------------------
(* The loading phase of semantic_driver_analyze (src/src/semantic.c): from   *)
(* the use statements of the entry file, enqueue_module loads every module   *)
(* it meets and then recurses into that module's own use statements.         *)
(*                                                                           *)
(* The recursion is explicit here: stack holds the active calls of           *)
(* enqueue_module, and StackLimit stands for the room the C stack has for    *)
(* them.  A module is known by its canonical name; Expand is what            *)
(* config_expand_module_path makes of the path written in a use statement.   *)
EXTENDS Naturals, Sequences, FiniteSets
LOCAL INSTANCE SequencesExt

CONSTANTS
    Modules,      \* canonical module names
    Paths,        \* module paths as use statements write them
    Expand,       \* the canonical name of each path
    Programs,     \* the inputs: what the entry file and the module files hold
    StackLimit    \* bound: how many calls of enqueue_module fit the C stack

\* A program: the use statements of the entry file and of each module file in
\* source order, and the modules that cannot be loaded (no such file, not
\* readable, a directive error, a parse error).
Program == [entry : Seq(Paths), uses : [Modules -> Seq(Paths)], broken : SUBSET Modules]

ASSUME ExpandAssumption == Expand \in [Paths -> Modules]
ASSUME ProgramsAssumption ==
    \A p \in Programs :
        /\ p.entry \in Seq(Paths)
        /\ p.uses \in [Modules -> Seq(Paths)]
        /\ p.broken \subseteq Modules
ASSUME StackLimitAssumption == StackLimit \in Nat \ {0}

VARIABLES
    program,   \* the input being compiled
    loaded,    \* the modules in the module manager's table
    stack,     \* the active calls of enqueue_module, the innermost last
    index,     \* the entry file's use statement that comes next
    success,   \* the flag of semantic_driver_analyze
    errors,    \* module_error_list: which module, and why
    pc         \* "loading", then "loaded", "failed" or "overflow"

vars == <<program, loaded, stack, index, success, errors, pc>>
------------------------------------------------------------------------------
\* A call of enqueue_module: its module and the next use statement to follow.
Call == [module : Modules, next : Nat \ {0}]

Reasons == {"unloadable", "circular"}

TypeOK ==
    /\ program \in Programs
    /\ loaded \subseteq Modules
    /\ stack \in Seq(Call)
    /\ index \in Nat \ {0}
    /\ success \in BOOLEAN
    /\ errors \subseteq Modules \X Reasons
    /\ pc \in {"loading", "loaded", "failed", "overflow"}

Init ==
    /\ program \in Programs
    /\ loaded = {}
    /\ stack = << >>
    /\ index = 1
    /\ success = TRUE
    /\ errors = {}
    /\ pc = "loading"
------------------------------------------------------------------------------
Uses(m) == program.uses[m]
Used(path) == Expand[path]

\* load_module_deferred returns the module of the table when it has one.
AlreadyLoadedNever(m) == FALSE    \* a slip: the table is not consulted

AlreadyLoaded(m) == m \in loaded

\* module_has_circular_dependency: from module m, the use statements of loaded
\* modules lead to the loaded module target.  (Its list of visited names only
\* saves work.)
ClosedInTable(S) ==
    \A n \in S : \A k \in 1 .. Len(Uses(n)) :
        Used(Uses(n)[k]) \in loaded => Used(Uses(n)[k]) \in S
HasCircularDependency(m, target) ==
    \A S \in SUBSET loaded : m \in S /\ ClosedInTable(S) => target \in S

\* module_manager_load_module_internal refuses a module that some loaded
\* module depends on circularly, then one whose file it cannot turn into an AST.
Circular(m) == \E n \in loaded : HasCircularDependency(n, m)

Failure(m) == IF Circular(m) THEN {<<m, "circular">>}
              ELSE IF m \in program.broken THEN {<<m, "unloadable">>}
              ELSE {}

\* A slip in Enqueue: the uses of a module of the table count as followed.
EnqueueOnce(path, callers) ==
    LET m == Used(path)
        call == [module |-> m, next |-> 1]
    IN  /\ UNCHANGED pc
        /\ \/ /\ AlreadyLoaded(m)
              /\ stack' = callers
              /\ UNCHANGED <<loaded, success, errors>>
           \/ /\ ~ AlreadyLoaded(m)
              /\ Failure(m) = {}
              /\ loaded' = loaded \cup {m}
              /\ stack' = Append(callers, call)
              /\ UNCHANGED <<success, errors>>
           \/ /\ ~ AlreadyLoaded(m)
              /\ Failure(m) # {}
              /\ errors' = errors \cup Failure(m)
              /\ success' = FALSE
              /\ stack' = << >>
              /\ UNCHANGED loaded

\* enqueue_module up to its loop, called with the calls in callers active.
\* A failure returns false through all of them to the entry file's loop.
Enqueue(path, callers) ==
    LET m == Used(path)
        call == [module |-> m, next |-> 1]
    IN  \/ /\ Len(callers) = StackLimit
           /\ pc' = "overflow"
           /\ UNCHANGED <<loaded, stack, success, errors>>
        \/ /\ Len(callers) < StackLimit
           /\ AlreadyLoaded(m)
           /\ stack' = Append(callers, call)
           /\ UNCHANGED <<loaded, success, errors, pc>>
        \/ /\ Len(callers) < StackLimit
           /\ ~ AlreadyLoaded(m)
           /\ Failure(m) = {}
           /\ loaded' = loaded \cup {m}
           /\ stack' = Append(callers, call)
           /\ UNCHANGED <<success, errors, pc>>
        \/ /\ Len(callers) < StackLimit
           /\ ~ AlreadyLoaded(m)
           /\ Failure(m) # {}
           /\ errors' = errors \cup Failure(m)
           /\ success' = FALSE
           /\ stack' = << >>
           /\ UNCHANGED <<loaded, pc>>

\* The next use statement of the entry file; a failed one does not stop the loop.
EnqueueEntryUse ==
    /\ pc = "loading"
    /\ stack = << >>
    /\ index <= Len(program.entry)
    /\ index' = index + 1
    /\ Enqueue(program.entry[index], << >>)
    /\ UNCHANGED program

TopCall == Last(stack)

\* A slip in EnqueueDependency: the loop does not advance.
EnqueueDependencyAgain ==
    /\ pc = "loading"
    /\ stack # << >>
    /\ TopCall.next <= Len(Uses(TopCall.module))
    /\ Enqueue(Uses(TopCall.module)[TopCall.next], stack)
    /\ UNCHANGED <<program, index>>

\* The next use statement of the module on top of the stack.
EnqueueDependency ==
    /\ pc = "loading"
    /\ stack # << >>
    /\ TopCall.next <= Len(Uses(TopCall.module))
    /\ Enqueue(Uses(TopCall.module)[TopCall.next],
               [stack EXCEPT ![Len(stack)].next = @ + 1])
    /\ UNCHANGED <<program, index>>

\* All its use statements followed, enqueue_module returns true.
Return ==
    /\ pc = "loading"
    /\ stack # << >>
    /\ TopCall.next > Len(Uses(TopCall.module))
    /\ stack' = Front(stack)
    /\ UNCHANGED <<program, loaded, index, success, errors, pc>>

\* A slip in Finish: analysis goes on whatever the loop said.
FinishAnyway ==
    /\ pc = "loading" /\ stack = << >> /\ index > Len(program.entry)
    /\ pc' = "loaded"
    /\ UNCHANGED <<program, loaded, stack, index, success, errors>>

\* After the loop, analysis goes on only when every use statement was loaded.
Finish ==
    /\ pc = "loading"
    /\ stack = << >>
    /\ index > Len(program.entry)
    /\ pc' = IF success THEN "loaded" ELSE "failed"
    /\ UNCHANGED <<program, loaded, stack, index, success, errors>>

Next == EnqueueEntryUse \/ EnqueueDependency \/ Return \/ Finish

Spec == Init /\ [][Next]_vars

\* The compiler is one thread that runs until it stops.
FairSpec == Spec /\ WF_vars(Next)
------------------------------------------------------------------------------
(* Properties *)

\* R holds what the entry file uses and what the loadable modules of R use.
ClosedUnderUse(R) ==
    /\ \A k \in 1 .. Len(program.entry) : Used(program.entry[k]) \in R
    /\ \A m \in R \ program.broken :
         \A k \in 1 .. Len(Uses(m)) : Used(Uses(m)[k]) \in R

Needed(m) == \A R \in SUBSET Modules : ClosedUnderUse(R) => m \in R

\* Nothing is loaded that no chain of use statements asks for
\* (enqueue_module, semantic.c:1125-1151).
LoadsOnlyNeeded == \A m \in loaded : Needed(m)

\* Analysis starts only when everything that is used, directly or through
\* other modules, is in the table, although the recursion is cut short at the
\* first failure of each entry use (semantic.c:4603-4623).
LoadsAllNeeded ==
    pc = "loaded" => ClosedUnderUse(loaded) /\ loaded \cap program.broken = {}

\* A program is refused only for a needed module that cannot be loaded.
FailsForACause ==
    /\ pc = "failed" => errors # {}
    /\ \A e \in errors : Needed(e[1]) /\ e[1] \in program.broken

\* The check for circular dependencies in module_manager_load_module_internal
\* (module.c:654-668) never reports one: it looks for a module that is not in
\* the table among those that are.
CircularNeverReported == \A e \in errors : e[2] # "circular"

\* The use statements of the modules lead back to where they started.
Acyclic ==
    \A S \in (SUBSET Modules) \ {{}} :
        \E m \in S : \A k \in 1 .. Len(Uses(m)) : Used(Uses(m)[k]) \notin S

\* Without an import cycle the loading phase ends, with a verdict
\* (enqueue_module has no visited set: semantic.c:1125-1151).
AcyclicTerminates == Acyclic => <>(pc \in {"loaded", "failed"})

\* What is loaded has no import cycle, which the phases after the loading rely
\* on: a cycle is never loaded in part and taken for complete, whether the
\* compiler fails on another module or runs out of stack in the cycle
\* (enqueue_module follows the uses of a module that is loaded already).
LoadedIsAcyclic ==
    pc = "loaded" =>
        \A S \in (SUBSET loaded) \ {{}} :
            \E m \in S : \A k \in 1 .. Len(Uses(m)) : Used(Uses(m)[k]) \notin S
==============================================================================
